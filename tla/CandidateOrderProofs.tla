------------------------ MODULE CandidateOrderProofs ------------------------
(* Theorems about CandidateOrder for every set of world cups, candidates and *)
(* requests and every batch size.                                            *)
EXTENDS CandidateOrder, FiniteSetTheorems, SequenceTheorems, TLAPS

(* Open transactions and the committed numbers vouch for one another.        *)
IInv == TypeOK /\ OpenTransactions /\ NumberedWithoutGaps

(* What an assignment to one request's record does to req.                   *)
LEMMA BecomeSetsOne ==
  ASSUME TypeOK, NEW r \in Requests, NEW x \in Request, Become(r, x)
  PROVE  /\ req' \in [Requests -> Request]
         /\ req'[r] = x
         /\ \A q \in Requests : q # r => req'[q] = req[q]
  BY DEF TypeOK, Become

(* A request that takes no lock and inserts nothing disturbs nobody.         *)
LEMMA QuietStep ==
  ASSUME IInv, NEW r \in Requests, NEW x \in Request, Become(r, x), UNCHANGED table,
         x.own = {}, x.pc \in {"idle", "lock"},
         x.pc # "idle" => x.cup \in WorldCups
  PROVE  IInv'
<1>1. /\ req' \in [Requests -> Request]
      /\ req'[r] = x
      /\ \A q \in Requests : q # r => req'[q] = req[q]
  BY BecomeSetsOne DEF IInv
<1>2. TypeOK'
  BY <1>1 DEF IInv, TypeOK, table
<1>3. LockIsExclusive'
  BY <1>1 DEF IInv, OpenTransactions, LockIsExclusive, Holds
<1>4. UncommittedRows'
  BY <1>1 DEF IInv, OpenTransactions, UncommittedRows, table
<1>5. ASSUME NEW q \in Requests, req'[q].pc = "insert"
      PROVE  Continues(q)'
  BY <1>1, <1>5 DEF IInv, OpenTransactions, Continues, Rows, table
<1>6. NumberedWithoutGaps'
  BY DEF IInv, NumberedWithoutGaps, Rows, table
<1> QED
  BY <1>2, <1>3, <1>4, <1>5, <1>6 DEF IInv, OpenTransactions

(* The request record without a request.                                     *)
LEMMA IdleIsRequest == Idle \in Request /\ Idle.own = {} /\ Idle.pc = "idle"
  BY BatchAssumption DEF Idle, Request, Steps, BatchAssumption

(* An empty table and no request satisfy the invariant.                      *)
LEMMA InitInvariant == Init => IInv
<1> SUFFICES ASSUME Init PROVE IInv
  OBVIOUS
<1>1. TypeOK
  BY IdleIsRequest DEF Init, TypeOK
<1>2. OpenTransactions
  BY IdleIsRequest DEF Init, OpenTransactions, LockIsExclusive, UncommittedRows, Holds
<1>3. NumberedWithoutGaps
  BY DEF Init, NumberedWithoutGaps
<1> QED
  BY <1>1, <1>2, <1>3 DEF IInv

(* Taking the free lock of the world cup.                                    *)
LEMMA LockInvariant ==
  ASSUME IInv, NEW r \in Requests, Lock(r)
  PROVE  IInv'
<1> DEFINE x == [req[r] EXCEPT !.pc = "last"]
<1>1. /\ x \in Request /\ x.pc = "last" /\ x.cup = req[r].cup /\ x.own = req[r].own
      /\ req[r].pc = "lock"
  BY DEF Lock, IInv, TypeOK, Request, Steps
<1>2. Become(r, x) /\ UNCHANGED table /\ Free(req[r].cup)
  BY DEF Lock
<1> HIDE DEF x
<1>3. /\ req' \in [Requests -> Request]
      /\ req'[r] = x
      /\ \A q \in Requests : q # r => req'[q] = req[q]
  BY <1>1, <1>2, BecomeSetsOne DEF IInv
<1>4. TypeOK'
  BY <1>2, <1>3 DEF IInv, TypeOK, table
<1>5. LockIsExclusive'
  BY <1>1, <1>2, <1>3 DEF IInv, OpenTransactions, LockIsExclusive, Holds, Free
<1>6. UncommittedRows'
  BY <1>1, <1>2, <1>3 DEF IInv, OpenTransactions, UncommittedRows, table
<1>7. ASSUME NEW q \in Requests, req'[q].pc = "insert"
      PROVE  Continues(q)'
  BY <1>1, <1>2, <1>3, <1>7 DEF IInv, OpenTransactions, Continues, Rows, table
<1>8. NumberedWithoutGaps'
  BY <1>2 DEF IInv, NumberedWithoutGaps, Rows, table
<1> QED
  BY <1>4, <1>5, <1>6, <1>7, <1>8 DEF IInv, OpenTransactions

(* Reading the last number: everything below the next one is taken.          *)
LEMMA ReadLastInvariant ==
  ASSUME IInv, NEW r \in Requests, NEW n \in Nat, ReadLast(r, n)
  PROVE  IInv'
<1> DEFINE x == [req[r] EXCEPT !.pc = "insert", !.next = n]
<1>1. /\ x \in Request /\ x.pc = "insert" /\ x.cup = req[r].cup /\ x.own = req[r].own
      /\ x.next = n /\ req[r].pc = "last"
  BY DEF ReadLast, IInv, TypeOK, Request, Steps
<1>2. Become(r, x) /\ UNCHANGED table /\ IsNext(req[r].cup, n)
  BY DEF ReadLast
<1> HIDE DEF x
<1>3. /\ req' \in [Requests -> Request]
      /\ req'[r] = x
      /\ \A q \in Requests : q # r => req'[q] = req[q]
  BY <1>1, <1>2, BecomeSetsOne DEF IInv
<1>4. TypeOK'
  BY <1>2, <1>3 DEF IInv, TypeOK, table
<1>5. LockIsExclusive'
  BY <1>1, <1>2, <1>3 DEF IInv, OpenTransactions, LockIsExclusive, Holds
<1>6. req[r].own = {} /\ req[r].cup \in WorldCups
  BY <1>1 DEF IInv, OpenTransactions, UncommittedRows
<1>7. UncommittedRows'
  BY <1>1, <1>2, <1>3 DEF IInv, OpenTransactions, UncommittedRows, table
<1>8. \A k \in 0..(n - 1) : \E c \in Rows(req[r].cup) : order[c] = k
  <2> SUFFICES ASSUME NEW k \in 0..(n - 1)
               PROVE  \E c \in Rows(req[r].cup) : order[c] = k
    OBVIOUS
  <2>1. PICK d \in Rows(req[r].cup) : order[d] = n - 1
    BY <1>2 DEF IsNext
  <2>2. d \in Candidates /\ cup[d] = req[r].cup /\ cup[d] # "none"
    BY <1>6, CupAssumption DEF Rows, CupAssumption
  <2> QED
    BY <2>1, <2>2 DEF IInv, NumberedWithoutGaps
<1>9. Continues(r)'
  BY <1>1, <1>2, <1>3, <1>6, <1>8 DEF Continues, Rows, IsNext, table
<1>10. ASSUME NEW q \in Requests, req'[q].pc = "insert", q # r
       PROVE  Continues(q)'
  BY <1>2, <1>3, <1>10 DEF IInv, OpenTransactions, Continues, Rows, table
<1>11. NumberedWithoutGaps'
  BY <1>2 DEF IInv, NumberedWithoutGaps, Rows, table
<1> QED
  BY <1>4, <1>5, <1>7, <1>9, <1>10, <1>11 DEF IInv, OpenTransactions

(* Replacing a request's progress keeps it a request.                        *)
LEMMA UpdatedRequest ==
  ASSUME NEW y \in Request, NEW l \in 0..MaxBatch, NEW n \in Nat,
         NEW o \in SUBSET Candidates, NEW a \in [Candidates -> Nat]
  PROVE  [y EXCEPT !.left = l, !.next = n, !.own = o, !.at = a] \in Request
  BY DEF Request

(* Inserting one row with the next number.                                   *)
LEMMA InsertInvariant ==
  ASSUME IInv, NEW r \in Requests, NEW c \in Candidates, Insert(r, c)
  PROVE  IInv'
<1> DEFINE x == [req[r] EXCEPT !.left = @ - 1, !.next = @ + 1,
                               !.own = @ \cup {c}, !.at = [@ EXCEPT ![c] = req[r].next]]
<1>1. /\ req[r] \in Request /\ req[r].pc = "insert" /\ req[r].left > 0
      /\ Become(r, x) /\ UNCHANGED table /\ Fresh(c)
  BY DEF Insert, IInv, TypeOK
<1>2. /\ req[r].next \in Nat /\ req[r].left \in 0..MaxBatch
      /\ req[r].own \subseteq Candidates /\ req[r].at \in [Candidates -> Nat]
  BY <1>1 DEF Request
<1>3. /\ x.pc = "insert" /\ x.cup = req[r].cup
      /\ x.next = req[r].next + 1 /\ x.left = req[r].left - 1
      /\ x.own = req[r].own \cup {c}
      /\ x.at = [req[r].at EXCEPT ![c] = req[r].next]
  BY <1>1 DEF Request
<1>4. req[r].left - 1 \in 0..MaxBatch
  BY <1>1, <1>2, BatchAssumption DEF BatchAssumption
<1>5. x \in Request
  <2>1. /\ req[r].next + 1 \in Nat
        /\ req[r].own \cup {c} \in SUBSET Candidates
        /\ [req[r].at EXCEPT ![c] = req[r].next] \in [Candidates -> Nat]
    BY <1>2
  <2> QED
    BY <1>1, <1>4, <2>1, UpdatedRequest
<1> HIDE DEF x
<1>6. /\ req' \in [Requests -> Request]
      /\ req'[r] = x
      /\ \A q \in Requests : q # r => req'[q] = req[q]
  BY <1>1, <1>5, BecomeSetsOne DEF IInv
<1>7. /\ x.at[c] = req[r].next
      /\ \A d \in req[r].own : x.at[d] = req[r].at[d] /\ d # c
  BY <1>1, <1>2, <1>3 DEF Fresh
<1>8. TypeOK'
  BY <1>1, <1>6 DEF IInv, TypeOK, table
<1>9. LockIsExclusive'
  BY <1>1, <1>3, <1>6 DEF IInv, OpenTransactions, LockIsExclusive, Holds
<1>10. UncommittedRows'
  BY <1>1, <1>3, <1>6 DEF IInv, OpenTransactions, UncommittedRows, table, Fresh
<1>11. Continues(r)
  BY <1>1 DEF IInv, OpenTransactions
<1>12. /\ \A d \in Rows(x.cup) : order[d] < req[r].next
       /\ \A d \in Rows(x.cup) : \A e \in req[r].own : order[d] < req[r].at[e]
       /\ \A d \in req[r].own : req[r].at[d] < req[r].next
       /\ \A d, e \in req[r].own : req[r].at[d] = req[r].at[e] => d = e
       /\ \A n \in 0..(req[r].next - 1) :
             \/ \E d \in Rows(x.cup) : order[d] = n
             \/ \E d \in req[r].own : req[r].at[d] = n
  BY <1>3, <1>11 DEF Continues
<1>13. Continues(r)'
  <2>1. \A d \in Rows(x.cup) : d \in Candidates /\ order[d] \in Nat
    BY DEF IInv, TypeOK, Rows
  <2>2. \A d \in Rows(x.cup) : order[d] < x.next /\ \A e \in x.own : order[d] < x.at[e]
    BY <1>2, <1>3, <1>7, <1>12, <2>1
  <2>3. \A d \in x.own : x.at[d] < x.next
    BY <1>2, <1>3, <1>7, <1>12
  <2>4. \A d, e \in x.own : x.at[d] = x.at[e] => d = e
    BY <1>2, <1>3, <1>7, <1>12
  <2>5. \A n \in 0..(x.next - 1) :
           (\E d \in Rows(x.cup) : order[d] = n) \/ (\E d \in x.own : x.at[d] = n)
    BY <1>2, <1>3, <1>7, <1>12
  <2> QED
    BY <1>1, <1>6, <2>2, <2>3, <2>4, <2>5 DEF Continues, Rows, table
<1>14. ASSUME NEW q \in Requests, req'[q].pc = "insert", q # r
       PROVE  Continues(q)'
  BY <1>1, <1>6, <1>14 DEF IInv, OpenTransactions, Continues, Rows, table
<1>15. NumberedWithoutGaps'
  BY <1>1 DEF IInv, NumberedWithoutGaps, Rows, table
<1> QED
  BY <1>8, <1>9, <1>10, <1>13, <1>14, <1>15 DEF IInv, OpenTransactions

(* Committing a batch: its rows continue the rows of its world cup.          *)
LEMMA CommitInvariant ==
  ASSUME IInv, NEW r \in Requests, Commit(r)
  PROVE  IInv'
<1>1. /\ req[r] \in Request /\ req[r].pc = "insert" /\ Become(r, Idle)
      /\ cup' = [c \in Candidates |-> IF c \in req[r].own THEN req[r].cup ELSE cup[c]]
      /\ order' = [c \in Candidates |-> IF c \in req[r].own THEN req[r].at[c] ELSE order[c]]
      /\ deleted' = deleted
  BY DEF Commit, IInv, TypeOK
<1>2. PICK w, m, own, at : /\ w = req[r].cup /\ m = req[r].next
                           /\ own = req[r].own /\ at = req[r].at
  OBVIOUS
<1>3. /\ w \in WorldCups /\ m \in Nat /\ own \subseteq Candidates /\ at \in [Candidates -> Nat]
      /\ w # "none"
  BY <1>1, <1>2, CupAssumption DEF IInv, OpenTransactions, UncommittedRows, Request, CupAssumption
<1>4. /\ req' \in [Requests -> Request]
      /\ req'[r] = Idle
      /\ \A q \in Requests : q # r => req'[q] = req[q]
  BY <1>1, IdleIsRequest, BecomeSetsOne DEF IInv
<1>5. TypeOK'
  BY <1>1, <1>2, <1>3, <1>4 DEF IInv, TypeOK
<1>6. LockIsExclusive'
  BY <1>4, IdleIsRequest DEF IInv, OpenTransactions, LockIsExclusive, Holds
<1>7. /\ \A c \in own : cup[c] = "none"
      /\ \A q \in Requests \ {r} : own \cap req[q].own = {}
  BY <1>2 DEF IInv, OpenTransactions, UncommittedRows
<1>8. /\ \A c \in own : cup'[c] = w /\ order'[c] = at[c]
      /\ \A c \in Candidates \ own : cup'[c] = cup[c] /\ order'[c] = order[c]
  BY <1>1, <1>2, <1>3
<1>9. UncommittedRows'
  <2> SUFFICES ASSUME NEW q \in Requests
               PROVE  /\ req'[q].pc # "idle" => req'[q].cup \in WorldCups
                      /\ req'[q].pc # "insert" => req'[q].own = {}
                      /\ \A c \in req'[q].own : cup'[c] = "none"
                      /\ \A p \in Requests \ {q} : req'[q].own \cap req'[p].own = {}
    BY DEF UncommittedRows
  <2>1. CASE q = r
    BY <1>4, <2>1, IdleIsRequest
  <2>2. CASE q # r
    <3>1. req'[q] = req[q] /\ req[q].own \subseteq Candidates
      BY <1>4, <2>2 DEF IInv, TypeOK, Request
    <3>2. /\ req[q].pc # "idle" => req[q].cup \in WorldCups
          /\ req[q].pc # "insert" => req[q].own = {}
          /\ \A c \in req[q].own : cup[c] = "none"
          /\ \A p \in Requests \ {q} : req[q].own \cap req[p].own = {}
      BY DEF IInv, OpenTransactions, UncommittedRows
    <3>3. \A c \in req[q].own : cup'[c] = "none"
      BY <1>7, <1>8, <2>2, <3>1, <3>2
    <3> QED
      BY <1>4, <3>1, <3>2, <3>3, IdleIsRequest
  <2> QED
    BY <2>1, <2>2
<1>10. ASSUME NEW q \in Requests, req'[q].pc = "insert"
       PROVE  Continues(q)'
  <2>1. q # r /\ req'[q] = req[q]
    BY <1>4, <1>10, IdleIsRequest
  <2>2. req[q].cup # w /\ req[q].cup \in WorldCups
    BY <1>1, <1>2, <1>3, <1>10, <2>1
       DEF IInv, OpenTransactions, LockIsExclusive, UncommittedRows, Holds
  <2>3. PICK v : v = req[q].cup
    OBVIOUS
  <2>4. \A c \in Candidates : cup'[c] = v <=> cup[c] = v
    BY <1>3, <1>7, <1>8, <2>2, <2>3, CupAssumption DEF CupAssumption
  <2>5. \A c \in Candidates : cup[c] = v => order'[c] = order[c]
    BY <1>3, <1>7, <1>8, <2>2, <2>3, CupAssumption DEF CupAssumption
  <2>6. Continues(q)
    BY <1>10, <2>1 DEF IInv, OpenTransactions
  <2> QED
    BY <2>1, <2>3, <2>4, <2>5, <2>6 DEF Continues, Rows
<1>11. /\ \A c \in Rows(w) : order[c] < m /\ \A d \in own : order[c] < at[d]
       /\ \A d \in own : at[d] < m
       /\ \A d, e \in own : at[d] = at[e] => d = e
       /\ \A n \in 0..(m - 1) :
             (\E c \in Rows(w) : order[c] = n) \/ (\E d \in own : at[d] = n)
  BY <1>1, <1>2 DEF IInv, OpenTransactions, Continues
<1>12. NumberedWithoutGaps'
  <2> SUFFICES ASSUME NEW c \in Candidates, cup'[c] # "none"
               PROVE  /\ \A d \in Candidates : cup'[d] = cup'[c] /\ order'[d] = order'[c] => c = d
                      /\ \A n \in 0..order'[c] :
                            \E d \in Candidates : cup'[d] = cup'[c] /\ order'[d] = n
    BY DEF NumberedWithoutGaps, Rows
  <2>1. CASE c \in own
    <3>1. cup'[c] = w /\ order'[c] = at[c] /\ at[c] \in Nat /\ at[c] < m
      BY <1>3, <1>8, <1>11, <2>1
    <3>2. \A d \in Candidates : cup'[d] = w /\ order'[d] = at[c] => c = d
      <4> SUFFICES ASSUME NEW d \in Candidates, cup'[d] = w, order'[d] = at[c]
                   PROVE  c = d
        OBVIOUS
      <4>1. CASE d \in own
        BY <1>8, <1>11, <2>1, <4>1
      <4>2. CASE d \notin own
        <5>1. d \in Rows(w) /\ order[d] = at[c]
          BY <1>8, <4>2 DEF Rows
        <5>2. order[d] < at[c]
          BY <1>11, <2>1, <5>1
        <5> QED
          BY <3>1, <5>1, <5>2
      <4> QED
        BY <4>1, <4>2
    <3>3. ASSUME NEW n \in 0..at[c]
          PROVE  \E d \in Candidates : cup'[d] = w /\ order'[d] = n
      <4>1. n \in 0..(m - 1)
        BY <1>3, <3>1
      <4>2. CASE \E d \in Rows(w) : order[d] = n
        BY <1>3, <1>7, <1>8, <4>2 DEF Rows
      <4>3. CASE \E d \in own : at[d] = n
        BY <1>3, <1>8, <4>3
      <4> QED
        BY <1>11, <4>1, <4>2, <4>3
    <3> QED
      BY <3>1, <3>2, <3>3
  <2>2. CASE c \notin own
    <3>1. cup'[c] = cup[c] /\ order'[c] = order[c] /\ cup[c] # "none"
      BY <1>8, <2>2
    <3>2. ASSUME NEW d \in Candidates, cup'[d] = cup[c], order'[d] = order[c]
          PROVE  c = d
      <4>1. CASE d \in own
        <5>1. c \in Rows(w) /\ order[c] = at[d]
          BY <1>8, <3>2, <4>1 DEF Rows
        <5>2. order[c] < at[d] /\ at[d] \in Nat
          BY <1>3, <1>11, <4>1, <5>1
        <5> QED
          BY <5>1, <5>2
      <4>2. CASE d \notin own
        BY <1>8, <3>1, <3>2, <4>2 DEF IInv, NumberedWithoutGaps
      <4> QED
        BY <4>1, <4>2
    <3>3. ASSUME NEW n \in 0..order[c]
          PROVE  \E d \in Candidates : cup'[d] = cup[c] /\ order'[d] = n
      <4>1. PICK d \in Candidates : cup[d] = cup[c] /\ order[d] = n
        BY <3>1 DEF IInv, NumberedWithoutGaps, Rows
      <4>2. d \notin own
        BY <1>7, <3>1, <4>1
      <4> QED
        BY <1>8, <4>1, <4>2
    <3> QED
      BY <3>1, <3>2, <3>3
  <2> QED
    BY <2>1, <2>2
<1> QED
  BY <1>5, <1>6, <1>9, <1>10, <1>12 DEF IInv, OpenTransactions

(* Every step preserves the invariant.                                       *)
LEMMA NextInvariant == IInv /\ [Next]_vars => IInv'
<1> SUFFICES ASSUME IInv, [Next]_vars PROVE IInv'
  OBVIOUS
<1>1. ASSUME NEW r \in Requests, NEW w \in WorldCups, NEW n \in 1..MaxBatch, Create(r, w, n)
      PROVE  IInv'
  <2> DEFINE x == [Idle EXCEPT !.pc = "lock", !.cup = w, !.left = n]
  <2>1. /\ x \in Request /\ x.pc = "lock" /\ x.cup = w /\ x.own = {}
    <3>1. n \in 0..MaxBatch
      BY BatchAssumption DEF BatchAssumption
    <3> QED
      BY <3>1, IdleIsRequest DEF Request, Steps
  <2>2. Become(r, x) /\ UNCHANGED table
    BY <1>1 DEF Create
  <2> HIDE DEF x
  <2> QED
    BY <2>1, <2>2, QuietStep
<1>2. ASSUME NEW r \in Requests, Fail(r)
      PROVE  IInv'
  BY <1>2, IdleIsRequest, QuietStep DEF Fail
<1>3. ASSUME NEW c \in Candidates, Remove(c)
      PROVE  IInv'
  <2>1. deleted' = deleted \cup {c} /\ UNCHANGED <<cup, order, req>>
    BY <1>3 DEF Remove
  <2>2. TypeOK'
    BY <2>1 DEF IInv, TypeOK
  <2>3. OpenTransactions'
    BY <2>1 DEF IInv, OpenTransactions, LockIsExclusive, UncommittedRows, Continues, Holds, Rows
  <2>4. NumberedWithoutGaps'
    BY <2>1 DEF IInv, NumberedWithoutGaps, Rows
  <2> QED
    BY <2>2, <2>3, <2>4 DEF IInv
<1>4. CASE UNCHANGED vars
  <2>1. UNCHANGED <<cup, order, deleted, req>>
    BY <1>4 DEF vars
  <2>2. TypeOK'
    BY <2>1 DEF IInv, TypeOK
  <2>3. OpenTransactions'
    BY <2>1 DEF IInv, OpenTransactions, LockIsExclusive, UncommittedRows, Continues, Holds, Rows
  <2>4. NumberedWithoutGaps'
    BY <2>1 DEF IInv, NumberedWithoutGaps, Rows
  <2> QED
    BY <2>2, <2>3, <2>4 DEF IInv
<1>5. ASSUME NEW r \in Requests, NEW n \in 0..Cardinality(Candidates), ReadLast(r, n)
      PROVE  IInv'
  <2>1. n \in Nat
    OBVIOUS
  <2> QED
    BY <1>5, <2>1, ReadLastInvariant
<1> QED
  BY <1>1, <1>2, <1>3, <1>4, <1>5, LockInvariant, InsertInvariant, CommitInvariant
     DEF Next, Step

(* The invariant holds throughout.                                           *)
THEOREM Invariance == Spec => []IInv
<1> QED
  BY InitInvariant, NextInvariant, PTL DEF Spec

(* The numbers of a world cup have neither gaps nor repetitions, whatever    *)
(* requests overlap or fail and whatever candidates are soft-deleted.        *)
THEOREM NoGaps == Spec => []NumberedWithoutGaps
<1>1. IInv => NumberedWithoutGaps
  BY DEF IInv
<1> QED
  BY <1>1, Invariance, PTL

(* The unique key (worldCupId, sortOrder) never rejects an insert: the       *)
(* advisory lock alone serialises the numbering.                             *)
THEOREM InsertsSucceed == Spec => []NextOrderIsFree
<1>1. IInv => NextOrderIsFree
  <2> SUFFICES ASSUME IInv, NEW r \in Requests, req[r].pc = "insert"
               PROVE  ~Taken(r, req[r].cup, req[r].next)
    BY DEF NextOrderIsFree
  <2>1. Continues(r) /\ req[r].cup \in WorldCups /\ req[r].next \in Nat
    BY DEF IInv, OpenTransactions, UncommittedRows, TypeOK, Request
  <2>2. \A c \in Rows(req[r].cup) : order[c] \in Nat /\ order[c] < req[r].next
    BY <2>1 DEF Continues, IInv, TypeOK, Rows
  <2>3. \A q \in Requests \ {r} : req[q].cup = req[r].cup => req[q].own = {}
    BY <2>1 DEF IInv, OpenTransactions, LockIsExclusive, UncommittedRows, Holds
  <2> QED
    BY <2>1, <2>2, <2>3 DEF Taken
<1> QED
  BY <1>1, Invariance, PTL

(* A committed batch comes after every candidate its world cup ever had.     *)
THEOREM AlwaysAppended == Spec => AppendedAtTheEnd
<1> DEFINE A == \A c, d \in Candidates :
                  cup[c] = "none" /\ cup'[c] # "none" /\ cup[d] = cup'[c] => order[d] < order'[c]
<1>1. IInv /\ [Next]_vars => [A]_vars
  <2> SUFFICES ASSUME IInv, Next, NEW c \in Candidates, NEW d \in Candidates,
                      cup[c] = "none", cup'[c] # "none", cup[d] = cup'[c]
               PROVE  order[d] < order'[c]
    BY DEF vars
  <2>1. PICK r \in Requests : Commit(r)
    BY DEF Next, Step, Create, Lock, ReadLast, Insert, Fail, Remove, table
  <2>2. /\ req[r].pc = "insert" /\ Continues(r)
        /\ cup' = [e \in Candidates |-> IF e \in req[r].own THEN req[r].cup ELSE cup[e]]
        /\ order' = [e \in Candidates |-> IF e \in req[r].own THEN req[r].at[e] ELSE order[e]]
    BY <2>1 DEF Commit, IInv, OpenTransactions
  <2>3. c \in req[r].own /\ cup'[c] = req[r].cup /\ order'[c] = req[r].at[c]
    BY <2>2
  <2>4. d \in Rows(req[r].cup)
    BY <2>3 DEF Rows
  <2> QED
    BY <2>2, <2>3, <2>4 DEF Continues
<1>2. ([][A]_vars) => AppendedAtTheEnd
  BY PTL DEF AppendedAtTheEnd
<1> HIDE DEF A
<1> QED
  BY <1>1, <1>2, Invariance, PTL DEF Spec

(* The rows of the table and the open transactions have their types.         *)
THEOREM TypeCorrect == Spec => []TypeOK
<1>1. IInv => TypeOK
  BY DEF IInv
<1> QED
  BY <1>1, Invariance, PTL

(* What open transactions rely on: the advisory lock has one holder, who is  *)
(* the only one to insert.                                                   *)
THEOREM LockedInserts == Spec => []OpenTransactions
<1>1. IInv => OpenTransactions
  BY DEF IInv
<1> QED
  BY <1>1, Invariance, PTL
-----------------------------------------------------------------------------
(* The rows R have the numbers 0..n-1, each of them once.                    *)
Numbers(R, o, n) ==
  /\ n \in Nat
  /\ \A c \in R : o[c] \in 0..(n - 1)
  /\ \A c, d \in R : o[c] = o[d] => c = d
  /\ \A i \in 0..(n - 1) : \E c \in R : o[c] = i

(* Then they are a list, each at the place of its number.                    *)
LEMMA InOrderFacts ==
  ASSUME NEW R, NEW o, NEW n, Numbers(R, o, n)
  PROVE  /\ InOrder(R, o) \in Seq(R)
         /\ Len(InOrder(R, o)) = n
         /\ \A i \in 1..n : InOrder(R, o)[i] \in R /\ o[InOrder(R, o)[i]] = i - 1
         /\ \A c \in R : InOrder(R, o)[o[c] + 1] = c
<1>1. \A i \in 1..n : \E c \in R : o[c] + 1 = i
  <2> SUFFICES ASSUME NEW i \in 1..n PROVE \E c \in R : o[c] + 1 = i
    OBVIOUS
  <2>1. n \in Nat /\ i - 1 \in 0..(n - 1)
    BY DEF Numbers
  <2>2. PICK c \in R : o[c] = i - 1
    BY <2>1 DEF Numbers
  <2> QED
    BY <2>1, <2>2
<1>2. {o[c] + 1 : c \in R} = 1..n
  BY <1>1 DEF Numbers
<1>3. \A i \in 1..n : InOrder(R, o)[i] = CHOOSE c \in R : o[c] + 1 = i
  BY <1>2 DEF InOrder
<1>4. \A i \in 1..n : InOrder(R, o)[i] \in R /\ o[InOrder(R, o)[i]] + 1 = i
  BY <1>1, <1>3
<1>5. InOrder(R, o) \in [1..n -> R]
  <2>1. InOrder(R, o) = [i \in 1..n |-> InOrder(R, o)[i]]
    BY <1>2 DEF InOrder
  <2> QED
    BY <1>4, <2>1
<1>6. InOrder(R, o) \in Seq(R) /\ Len(InOrder(R, o)) = n
  <2>1. n \in Nat
    BY DEF Numbers
  <2> QED
    BY <1>5, <2>1, SeqDef, LenProperties
<1>7. ASSUME NEW i \in 1..n PROVE o[InOrder(R, o)[i]] = i - 1
  BY <1>4, <1>7 DEF Numbers
<1>8. ASSUME NEW c \in R PROVE InOrder(R, o)[o[c] + 1] = c
  <2>1. o[c] + 1 \in 1..n
    BY DEF Numbers
  <2>2. o[InOrder(R, o)[o[c] + 1]] = o[c] /\ InOrder(R, o)[o[c] + 1] \in R
    BY <1>4, <1>7, <2>1 DEF Numbers
  <2> QED
    BY <2>2 DEF Numbers
<1> QED
  BY <1>4, <1>6, <1>7, <1>8

(* The list depends on the numbers of its rows only.                         *)
LEMMA InOrderSame ==
  ASSUME NEW R, NEW o, NEW p, NEW n, Numbers(R, o, n), \A c \in R : p[c] = o[c]
  PROVE  InOrder(R, p) = InOrder(R, o)
<1>1. Numbers(R, p, n)
  BY DEF Numbers
<1>2. /\ InOrder(R, o) \in Seq(R) /\ Len(InOrder(R, o)) = n
      /\ InOrder(R, p) \in Seq(R) /\ Len(InOrder(R, p)) = n
  BY <1>1, InOrderFacts
<1>3. ASSUME NEW i \in 1..n PROVE InOrder(R, p)[i] = InOrder(R, o)[i]
  <2>1. /\ InOrder(R, o)[i] \in R /\ o[InOrder(R, o)[i]] = i - 1
        /\ InOrder(R, p)[i] \in R /\ p[InOrder(R, p)[i]] = i - 1
    BY <1>1, InOrderFacts
  <2> QED
    BY <2>1 DEF Numbers
<1> QED
  BY <1>2, <1>3, SeqEqual

(* The list s is t with k of the rows T behind.                              *)
Extended(s, t, T, k) ==
  \E b \in [1..k -> T] : (\A i, j \in 1..k : b[i] = b[j] => i = j) /\ s = t \o b

(* Rows with the next k numbers are a batch at the end of the list.          *)
LEMMA InOrderGrows ==
  ASSUME NEW R, NEW T, NEW o, NEW p, NEW n, NEW k \in Nat,
         Numbers(R, o, n), Numbers(R \cup T, p, n + k),
         \A c \in R : p[c] = o[c], \A c \in T : n <= p[c]
  PROVE  Extended(InOrder(R \cup T, p), InOrder(R, o), T, k)
<1> DEFINE l == InOrder(R \cup T, p)
           b == [i \in 1..k |-> l[n + i]]
<1>1. /\ n \in Nat /\ k \in Nat
      /\ InOrder(R, o) \in Seq(R) /\ Len(InOrder(R, o)) = n
      /\ l \in Seq(R \cup T) /\ Len(l) = n + k
      /\ \A i \in 1..(n + k) : l[i] \in R \cup T /\ p[l[i]] = i - 1
      /\ \A i \in 1..n : InOrder(R, o)[i] \in R /\ o[InOrder(R, o)[i]] = i - 1
  <2>1. n \in Nat
    BY DEF Numbers
  <2>2. /\ InOrder(R, o) \in Seq(R) /\ Len(InOrder(R, o)) = n
        /\ \A i \in 1..n : InOrder(R, o)[i] \in R /\ o[InOrder(R, o)[i]] = i - 1
    BY InOrderFacts
  <2>3. /\ l \in Seq(R \cup T) /\ Len(l) = n + k
        /\ \A i \in 1..(n + k) : l[i] \in R \cup T /\ p[l[i]] = i - 1
    <3>1. PICK m, Q : m = n + k /\ Q = R \cup T
      OBVIOUS
    <3>2. Numbers(Q, p, m)
      BY <3>1
    <3>3. /\ InOrder(Q, p) \in Seq(Q) /\ Len(InOrder(Q, p)) = m
          /\ \A i \in 1..m : InOrder(Q, p)[i] \in Q /\ p[InOrder(Q, p)[i]] = i - 1
      BY <3>2, InOrderFacts
    <3> QED
      BY <3>1, <3>3
  <2> QED
    BY <2>1, <2>2, <2>3
<1> HIDE DEF l
<1>2. \A i \in 1..n : l[i] = InOrder(R, o)[i]
  <2> SUFFICES ASSUME NEW i \in 1..n PROVE l[i] = InOrder(R, o)[i]
    OBVIOUS
  <2>1. i \in 1..(n + k)
    BY <1>1
  <2>2. l[i] \in R \cup T /\ InOrder(R, o)[i] \in R \cup T /\ p[l[i]] = p[InOrder(R, o)[i]]
    BY <1>1, <2>1
  <2> QED
    BY <2>2 DEF Numbers
<1>3. ASSUME NEW i \in 1..k PROVE b[i] = l[n + i] /\ b[i] \in T
  <2>1. n + i \in 1..(n + k) /\ n + i - 1 >= n
    BY <1>1
  <2>2. l[n + i] \in R \cup T /\ p[l[n + i]] = n + i - 1
    BY <1>1, <2>1
  <2>3. l[n + i] \notin R
    <3>1. \A c \in R : p[c] < n
      BY DEF Numbers
    <3> QED
      BY <1>1, <2>1, <2>2, <3>1
  <2> QED
    BY <2>2, <2>3
<1>4. b \in [1..k -> T] /\ b \in Seq(R \cup T) /\ Len(b) = k
  <2>1. b \in [1..k -> T] /\ b \in [1..k -> R \cup T]
    BY <1>3
  <2>2. b \in Seq(R \cup T)
    BY <1>1, <2>1, SeqDef
  <2>3. Len(b) \in Nat /\ DOMAIN b = 1..Len(b)
    BY <2>2, LenProperties
  <2> HIDE DEF b
  <2>4. DOMAIN b = 1..k
    BY <2>1
  <2> QED
    BY <1>1, <2>1, <2>2, <2>3, <2>4
<1>5. \A i, j \in 1..k : b[i] = b[j] => i = j
  <2> SUFFICES ASSUME NEW i \in 1..k, NEW j \in 1..k, b[i] = b[j] PROVE i = j
    OBVIOUS
  <2>1. n + i \in 1..(n + k) /\ n + j \in 1..(n + k)
    BY <1>1
  <2>2. l[n + i] = l[n + j]
    BY <1>3
  <2>3. p[l[n + i]] = n + i - 1 /\ p[l[n + j]] = n + j - 1
    BY <1>1, <2>1
  <2> QED
    BY <1>1, <2>2, <2>3
<1> HIDE DEF b
<1>6. InOrder(R, o) \in Seq(R \cup T)
  BY <1>1, SeqMonotonic
<1>7. /\ InOrder(R, o) \o b \in Seq(R \cup T) /\ Len(InOrder(R, o) \o b) = n + k
      /\ \A i \in 1..(n + k) : (InOrder(R, o) \o b)[i] = IF i <= n THEN InOrder(R, o)[i] ELSE b[i - n]
  BY <1>1, <1>4, <1>6, ConcatProperties
<1>8. ASSUME NEW i \in 1..(n + k) PROVE l[i] = (InOrder(R, o) \o b)[i]
  <2>1. CASE i <= n
    <3>1. i \in 1..n
      BY <1>1, <2>1
    <3> QED
      BY <1>2, <1>7, <2>1, <3>1
  <2>2. CASE ~(i <= n)
    <3>1. i - n \in 1..k /\ n + (i - n) = i
      BY <1>1, <2>2
    <3> QED
      BY <1>3, <1>7, <2>2, <3>1
  <2> QED
    BY <2>1, <2>2
<1>9. l = InOrder(R, o) \o b
  BY <1>1, <1>7, <1>8, SeqEqual
<1> QED
  BY <1>4, <1>5, <1>9 DEF l, Extended
-----------------------------------------------------------------------------
(* The next number of each world cup exists; a transaction that inserts has  *)
(* begun at it, and has inserted or will insert what it was asked for.       *)
Batches ==
  /\ \A w \in WorldCups : \E n \in Nat : IsNext(w, n)
  /\ \A r \in Requests :
        /\ IsFiniteSet(req[r].own)
        /\ req[r].pc = "idle" => req[r] = Idle
        /\ req[r].pc # "idle" => req[r].left + Cardinality(req[r].own) \in 1..MaxBatch
        /\ req[r].pc = "insert" =>
              \E n \in Nat : /\ IsNext(req[r].cup, n)
                             /\ req[r].next = n + Cardinality(req[r].own)

(* A request goes on, no row is committed.                                   *)
LEMMA BatchesMove ==
  ASSUME TypeOK, Batches, NEW r \in Requests, NEW x \in Request, Become(r, x),
         UNCHANGED <<cup, order>>, IsFiniteSet(x.own), x.pc = "idle" => x = Idle,
         x.pc # "idle" => x.left + Cardinality(x.own) \in 1..MaxBatch,
         x.pc = "insert" => \E n \in Nat : IsNext(x.cup, n) /\ x.next = n + Cardinality(x.own)
  PROVE  Batches'
<1>1. /\ req'[r] = x
      /\ \A q \in Requests : q # r => req'[q] = req[q]
  BY BecomeSetsOne
<1>2. \A w, n : IsNext(w, n)' <=> IsNext(w, n)
  BY DEF IsNext, Rows
<1>3. \A w \in WorldCups : \E n \in Nat : IsNext(w, n)'
  BY <1>2 DEF Batches
<1>4. ASSUME NEW q \in Requests
      PROVE  /\ IsFiniteSet(req'[q].own)
             /\ req'[q].pc = "idle" => req'[q] = Idle
             /\ req'[q].pc # "idle" => req'[q].left + Cardinality(req'[q].own) \in 1..MaxBatch
             /\ req'[q].pc = "insert" =>
                   \E n \in Nat : /\ IsNext(req[q].cup, n)'
                                  /\ req'[q].next = n + Cardinality(req'[q].own)
  <2>1. CASE q = r
    <3>1. \A n : IsNext(req[q].cup, n)' <=> IsNext(x.cup, n)
      BY <1>1, <2>1 DEF IsNext, Rows
    <3> QED
      BY <1>1, <2>1, <3>1
  <2>2. CASE q # r
    <3>1. \A n : IsNext(req[q].cup, n)' <=> IsNext(req[q].cup, n)
      BY <1>1, <2>2 DEF IsNext, Rows
    <3> QED
      BY <1>1, <2>2, <3>1 DEF Batches
  <2> QED
    BY <2>1, <2>2
<1> QED
  BY <1>3, <1>4 DEF Batches

(* What a commit does to the rows of each world cup.                         *)
LEMMA CommitRows ==
  ASSUME IInv, NEW r \in Requests, Commit(r)
  PROVE  \E w \in WorldCups, own \in SUBSET Candidates, m \in Nat :
            /\ w = req[r].cup /\ own = req[r].own /\ m = req[r].next /\ req[r].pc = "insert"
            /\ Rows(w)' = Rows(w) \cup own
            /\ \A v \in WorldCups \ {w} : Rows(v)' = Rows(v) /\ Rows(v) \cap own = {}
            /\ \A c \in own : order'[c] = req[r].at[c] /\ cup[c] = "none"
            /\ \A c \in Candidates \ own : order'[c] = order[c]
            /\ IsNext(w, m)'
<1>1. /\ req[r] \in Request /\ req[r].pc = "insert" /\ Continues(r)
      /\ cup' = [c \in Candidates |-> IF c \in req[r].own THEN req[r].cup ELSE cup[c]]
      /\ order' = [c \in Candidates |-> IF c \in req[r].own THEN req[r].at[c] ELSE order[c]]
  BY DEF Commit, IInv, TypeOK, OpenTransactions
<1>2. PICK w, own, m : w = req[r].cup /\ own = req[r].own /\ m = req[r].next
  OBVIOUS
<1>3. /\ w \in WorldCups /\ w # "none" /\ own \subseteq Candidates /\ m \in Nat
      /\ \A c \in own : cup[c] = "none"
  BY <1>1, <1>2, CupAssumption DEF IInv, OpenTransactions, UncommittedRows, Request, CupAssumption
<1>4. \A c \in Candidates : cup'[c] = IF c \in own THEN w ELSE cup[c]
  BY <1>1, <1>2
<1>5. Rows(w)' = Rows(w) \cup own
  BY <1>3, <1>4 DEF Rows
<1>6. \A v \in WorldCups \ {w} : Rows(v)' = Rows(v) /\ Rows(v) \cap own = {}
  BY <1>3, <1>4, CupAssumption DEF Rows, CupAssumption
<1>7. /\ \A c \in own : order'[c] = req[r].at[c]
      /\ \A c \in Candidates \ own : order'[c] = order[c]
  BY <1>1, <1>2, <1>3
<1>8. IsNext(w, m)'
  <2>1. \A c \in Rows(w) : order'[c] = order[c] /\ order[c] < m
    BY <1>1, <1>2, <1>3, <1>7 DEF Continues, Rows
  <2>2. \A c \in own : order'[c] < m
    BY <1>1, <1>2, <1>7 DEF Continues
  <2>3. m = 0 \/ \E c \in Rows(w) \cup own : order'[c] = m - 1
    <3>1. CASE m # 0
      <4>1. m - 1 \in 0..(m - 1)
        BY <1>3, <3>1
      <4>2. (\E c \in Rows(w) : order[c] = m - 1) \/ (\E c \in own : req[r].at[c] = m - 1)
        BY <1>1, <1>2, <4>1 DEF Continues
      <4> QED
        BY <1>7, <2>1, <4>2
    <3> QED
      BY <3>1
  <2> QED
    BY <1>5, <2>1, <2>2, <2>3 DEF IsNext
<1> QED
  BY <1>1, <1>2, <1>3, <1>5, <1>6, <1>7, <1>8

(* Every step preserves it.                                                  *)
LEMMA BatchesInvariant == IInv /\ Batches /\ [Next]_vars => Batches'
<1> SUFFICES ASSUME IInv, Batches, [Next]_vars PROVE Batches'
  OBVIOUS
<1> USE DEF IInv
<1>i. Idle \in Request /\ Idle.pc = "idle" /\ IsFiniteSet(Idle.own)
  BY IdleIsRequest, FS_EmptySet
<1>n. MaxBatch \in Nat /\ 0 \in 0..MaxBatch
  BY BatchAssumption DEF BatchAssumption
<1>1. ASSUME NEW r \in Requests, NEW w \in WorldCups, NEW n \in 1..MaxBatch, Create(r, w, n)
      PROVE  Batches'
  <2>1. PICK x \in Request : x = [Idle EXCEPT !.pc = "lock", !.cup = w, !.left = n]
    <3>1. n \in 0..MaxBatch
      BY <1>n
    <3> QED
      BY <3>1, IdleIsRequest DEF Request, Steps
  <2>2. x.pc = "lock" /\ x.own = {} /\ x.left = n
    BY <2>1, IdleIsRequest DEF Request
  <2>3. IsFiniteSet(x.own) /\ x.left + Cardinality(x.own) \in 1..MaxBatch
    BY <1>n, <2>2, FS_EmptySet
  <2>4. Become(r, x) /\ UNCHANGED <<cup, order>>
    BY <1>1, <2>1 DEF Create, table
  <2> QED
    BY <2>2, <2>3, <2>4, BatchesMove
<1>2. ASSUME NEW r \in Requests, Fail(r) PROVE Batches'
  BY <1>2, <1>i, BatchesMove DEF Fail, table
<1>3. ASSUME NEW r \in Requests, Lock(r) PROVE Batches'
  <2>1. req[r] \in Request /\ req[r].pc = "lock"
    BY <1>3 DEF Lock, TypeOK
  <2>2. PICK x \in Request : x = [req[r] EXCEPT !.pc = "last"]
    BY <2>1 DEF Request, Steps
  <2>3. x.pc = "last" /\ x.own = req[r].own /\ x.left = req[r].left
    BY <2>1, <2>2 DEF Request
  <2>4. Become(r, x) /\ UNCHANGED <<cup, order>>
    BY <1>3, <2>2 DEF Lock, table
  <2>5. IsFiniteSet(x.own) /\ x.left + Cardinality(x.own) \in 1..MaxBatch
    BY <2>1, <2>3 DEF Batches
  <2> QED
    BY <2>3, <2>4, <2>5, BatchesMove
<1>4. ASSUME NEW r \in Requests, NEW n \in Nat, ReadLast(r, n) PROVE Batches'
  <2>1. req[r] \in Request /\ req[r].pc = "last" /\ req[r].own = {} /\ IsNext(req[r].cup, n)
    BY <1>4 DEF ReadLast, TypeOK, OpenTransactions, UncommittedRows
  <2>2. PICK x \in Request : x = [req[r] EXCEPT !.pc = "insert", !.next = n]
    BY <2>1 DEF Request, Steps
  <2>3. x.pc = "insert" /\ x.own = {} /\ x.left = req[r].left /\ x.next = n /\ x.cup = req[r].cup
    BY <2>1, <2>2 DEF Request
  <2>4. Become(r, x) /\ UNCHANGED <<cup, order>>
    BY <1>4, <2>2 DEF ReadLast, table
  <2>5. IsFiniteSet(x.own) /\ x.left + Cardinality(x.own) \in 1..MaxBatch /\ x.next = n + Cardinality(x.own)
    BY <2>1, <2>3, FS_EmptySet DEF Batches
  <2>6. \E m \in Nat : IsNext(x.cup, m) /\ x.next = m + Cardinality(x.own)
    BY <2>1, <2>3, <2>5
  <2> QED
    BY <2>3, <2>4, <2>5, <2>6, BatchesMove
<1>5. ASSUME NEW r \in Requests, NEW c \in Candidates, Insert(r, c) PROVE Batches'
  <2>1. /\ req[r] \in Request /\ req[r].pc = "insert" /\ req[r].left > 0 /\ c \notin req[r].own
        /\ UNCHANGED <<cup, order>>
    BY <1>5 DEF Insert, TypeOK, Fresh, table
  <2>2. /\ req[r].next \in Nat /\ req[r].left \in 0..MaxBatch
        /\ req[r].own \subseteq Candidates /\ req[r].at \in [Candidates -> Nat]
    BY <2>1 DEF Request
  <2>3. /\ req[r].left - 1 \in 0..MaxBatch /\ req[r].next + 1 \in Nat
        /\ req[r].own \cup {c} \in SUBSET Candidates
        /\ [req[r].at EXCEPT ![c] = req[r].next] \in [Candidates -> Nat]
    BY <1>n, <2>1, <2>2
  <2>4. PICK x \in Request :
           x = [req[r] EXCEPT !.left = req[r].left - 1, !.next = req[r].next + 1,
                              !.own = req[r].own \cup {c},
                              !.at = [req[r].at EXCEPT ![c] = req[r].next]]
    BY <2>1, <2>3, UpdatedRequest
  <2>5. Become(r, x)
    BY <1>5, <2>4 DEF Insert
  <2>6. /\ x.pc = "insert" /\ x.cup = req[r].cup /\ x.left = req[r].left - 1
        /\ x.next = req[r].next + 1 /\ x.own = req[r].own \cup {c}
    BY <2>1, <2>4 DEF Request
  <2>7. /\ IsFiniteSet(x.own) /\ Cardinality(x.own) = Cardinality(req[r].own) + 1
        /\ Cardinality(req[r].own) \in Nat
    BY <2>1, <2>6, FS_AddElement, FS_CardinalityType DEF Batches
  <2>8. x.left + Cardinality(x.own) = req[r].left + Cardinality(req[r].own)
    BY <2>2, <2>6, <2>7
  <2>9. x.left + Cardinality(x.own) \in 1..MaxBatch
    BY <2>1, <2>8 DEF Batches
  <2>10. PICK m \in Nat : IsNext(req[r].cup, m) /\ req[r].next = m + Cardinality(req[r].own)
    BY <2>1 DEF Batches
  <2>11. IsNext(x.cup, m) /\ x.next = m + Cardinality(x.own)
    BY <2>6, <2>7, <2>10
  <2> QED
    BY <2>1, <2>5, <2>6, <2>7, <2>9, <2>11, BatchesMove
<1>6. ASSUME NEW r \in Requests, Commit(r) PROVE Batches'
  <2>1. /\ req'[r] = Idle
        /\ \A q \in Requests : q # r => req'[q] = req[q]
    BY <1>6, <1>i, BecomeSetsOne DEF Commit
  <2>3. PICK w \in WorldCups, own \in SUBSET Candidates, m \in Nat :
           /\ w = req[r].cup /\ own = req[r].own /\ m = req[r].next /\ req[r].pc = "insert"
           /\ Rows(w)' = Rows(w) \cup own
           /\ \A v \in WorldCups \ {w} : Rows(v)' = Rows(v) /\ Rows(v) \cap own = {}
           /\ \A c \in own : order'[c] = req[r].at[c] /\ cup[c] = "none"
           /\ \A c \in Candidates \ own : order'[c] = order[c]
           /\ IsNext(w, m)'
    BY <1>6, CommitRows
  <2>4. ASSUME NEW v \in WorldCups \ {w}, NEW n, IsNext(v, n) PROVE IsNext(v, n)'
    <3>1. \A c \in Rows(v) : order'[c] = order[c]
      BY <2>3 DEF Rows
    <3> QED
      BY <2>3, <2>4, <3>1 DEF IsNext
  <2>6. ASSUME NEW v \in WorldCups PROVE \E n \in Nat : IsNext(v, n)'
    BY <2>3, <2>4 DEF Batches
  <2>7. ASSUME NEW q \in Requests
        PROVE  /\ IsFiniteSet(req'[q].own)
               /\ req'[q].pc = "idle" => req'[q] = Idle
               /\ req'[q].pc # "idle" => req'[q].left + Cardinality(req'[q].own) \in 1..MaxBatch
               /\ req'[q].pc = "insert" =>
                     \E n \in Nat : /\ IsNext(req[q].cup, n)'
                                    /\ req'[q].next = n + Cardinality(req'[q].own)
    <3>1. CASE q = r
      BY <1>i, <2>1, <3>1
    <3>2. CASE q # r /\ req[q].pc # "insert"
      BY <2>1, <3>2 DEF Batches
    <3>3. CASE q # r /\ req[q].pc = "insert"
      <4>1. req[q].cup \in WorldCups \ {w}
        BY <2>3, <3>3 DEF OpenTransactions, LockIsExclusive, UncommittedRows, Holds
      <4>2. PICK n \in Nat : IsNext(req[q].cup, n) /\ req[q].next = n + Cardinality(req[q].own)
        BY <3>3 DEF Batches
      <4>3. PICK v : v = req[q].cup
        OBVIOUS
      <4>4. IsNext(v, n)'
        BY <2>4, <4>1, <4>2, <4>3
      <4>5. IsNext(req[q].cup, n)'
        BY <2>1, <3>3, <4>3, <4>4 DEF IsNext, Rows
      <4> QED
        BY <2>1, <3>3, <4>2, <4>5 DEF Batches
    <3> QED
      BY <3>1, <3>2, <3>3
  <2> QED
    BY <2>6, <2>7 DEF Batches
<1>7. CASE UNCHANGED <<cup, order, req>>
  BY <1>7 DEF Batches, IsNext, Rows
<1>8. ASSUME NEW r \in Requests, NEW n \in 0..Cardinality(Candidates), ReadLast(r, n)
      PROVE  Batches'
  <2>1. n \in Nat
    OBVIOUS
  <2> QED
    BY <1>4, <1>8, <2>1
<1> QED
  BY <1>1, <1>2, <1>3, <1>5, <1>6, <1>7, <1>8 DEF Next, Step, Remove, vars

(* The committed rows of a world cup are numbered from 0 to its next number. *)
AllNumbered == \A w \in WorldCups, n \in Nat : IsNext(w, n) => Numbers(Rows(w), order, n)

(* No number is missing, so that the next one is their count.                *)
LEMMA RowsNumbered == IInv => AllNumbered
<1> SUFFICES ASSUME IInv, NEW w \in WorldCups, NEW n \in Nat, IsNext(w, n)
             PROVE  Numbers(Rows(w), order, n)
  BY DEF AllNumbered
<1>1. \A c \in Rows(w) : c \in Candidates /\ cup[c] = w /\ cup[c] # "none" /\ order[c] \in Nat
  BY CupAssumption DEF Rows, CupAssumption, IInv, TypeOK
<1>2. \A c \in Rows(w) : order[c] \in 0..(n - 1)
  BY <1>1 DEF IsNext
<1>3. \A c, d \in Rows(w) : order[c] = order[d] => c = d
  BY <1>1 DEF IInv, NumberedWithoutGaps
<1>4. ASSUME NEW i \in 0..(n - 1) PROVE \E c \in Rows(w) : order[c] = i
  <2>1. PICK d \in Rows(w) : order[d] = n - 1
    BY <1>4 DEF IsNext
  <2>2. \A k \in 0..order[d] : \E c \in Rows(cup[d]) : order[c] = k
    BY <1>1, <2>1 DEF IInv, NumberedWithoutGaps
  <2> QED
    BY <1>1, <1>4, <2>1, <2>2
<1> QED
  BY <1>2, <1>3, <1>4 DEF Numbers

(* A candidate is in the list of its world cup from its commit on.           *)
LEMMA ListedIsCommitted ==
  ASSUME IInv, Batches, AllNumbered, NEW c \in Candidates
  PROVE  Lists!Listed(c) <=> cup[c] # "none"
<1> DEFINE l(w) == InOrder(Rows(w), order)
<1>1. ASSUME NEW w \in WorldCups
      PROVE  /\ \A i \in DOMAIN l(w) : l(w)[i] \in Rows(w)
             /\ \A d \in Rows(w) : \E i \in DOMAIN l(w) : l(w)[i] = d
  <2>1. PICK n \in Nat : IsNext(w, n)
    BY DEF Batches
  <2>2. Numbers(Rows(w), order, n)
    BY <2>1 DEF AllNumbered
  <2>3. PICK R : R = Rows(w)
    OBVIOUS
  <2>4. /\ InOrder(R, order) \in Seq(R) /\ Len(InOrder(R, order)) = n
        /\ \A i \in 1..n : InOrder(R, order)[i] \in R
        /\ \A d \in R : InOrder(R, order)[order[d] + 1] = d
    BY <2>2, <2>3, InOrderFacts
  <2>5. DOMAIN InOrder(R, order) = 1..n
    BY <2>4, LenProperties
  <2>6. \A d \in R : order[d] + 1 \in 1..n
    BY <2>2, <2>3 DEF Numbers
  <2> QED
    BY <2>3, <2>4, <2>5, <2>6
<1>2. Lists!Listed(c) <=> \E w \in WorldCups : \E i \in DOMAIN l(w) : l(w)[i] = c
  BY DEF Lists!Listed
<1>3. cup[c] # "none" <=> \E w \in WorldCups : c \in Rows(w)
  BY CupAssumption DEF Rows, CupAssumption, IInv, TypeOK
<1> HIDE DEF l
<1> QED
  BY <1>1, <1>2, <1>3

(* Adding candidates implements the list of each world cup: its promises     *)
(* hold of every interleaving of transactions, failures and removals.        *)
THEOREM Refinement == Spec => ImplementsCandidateList
<1> DEFINE lists == [w \in WorldCups |-> InOrder(Rows(w), order)]
           asked == [r \in Requests |-> Wanted(req[r])]
<1>i. Wanted(Idle) = Lists!Nothing
  BY FS_EmptySet DEF Wanted, Idle, Lists!Nothing
<1>1. ASSUME Init PROVE Lists!Init /\ Batches
  <2>1. ASSUME NEW w \in WorldCups PROVE InOrder(Rows(w), order) = <<>> /\ IsNext(w, 0)
    <3>1. Rows(w) = {}
      BY <1>1, CupAssumption DEF Init, Rows, CupAssumption
    <3>2. Numbers({}, order, 0)
      BY DEF Numbers
    <3>3. InOrder({}, order) \in Seq({}) /\ Len(InOrder({}, order)) = 0
      BY <3>2, InOrderFacts
    <3>4. InOrder({}, order) = <<>>
      BY <3>3, EmptySeq
    <3> QED
      BY <3>1, <3>4 DEF IsNext
  <2>2. Lists!Init
    BY <1>1, <1>i, <2>1 DEF Init, Lists!Init
  <2>3. Batches
    <3>1. \A r \in Requests : req[r] = Idle /\ req[r].pc = "idle" /\ IsFiniteSet(req[r].own)
      BY <1>1, FS_EmptySet, IdleIsRequest DEF Init
    <3> QED
      BY <2>1, <3>1 DEF Batches
  <2> QED
    BY <2>2, <2>3
<1>2. ASSUME IInv, Batches, AllNumbered, AllNumbered', [Next]_vars
      PROVE  [Lists!Next]_(Lists!vars)
  <2>a. /\ \A r \in Requests : asked[r] = Wanted(req[r]) /\ asked'[r] = Wanted(req'[r])
        /\ req \in [Requests -> Request]
    BY <1>2 DEF IInv, TypeOK, Wanted
  <2>b. ASSUME NEW r \in Requests
        PROVE  asked[r] # Lists!Nothing <=> req[r].pc # "idle"
    <3>1. CASE req[r].pc = "idle"
      BY <1>2, <1>i, <2>a, <3>1 DEF Batches
    <3>2. CASE req[r].pc # "idle"
      BY <1>2, <2>a, <3>2 DEF Batches, Wanted, Lists!Nothing
    <3> QED
      BY <3>1, <3>2
  <2>c. ASSUME UNCHANGED <<cup, order>> PROVE lists' = lists
    BY <2>c DEF Rows, InOrder
  <2>d. ASSUME NEW r \in Requests, NEW x, Become(r, x)
        PROVE  asked' = [asked EXCEPT ![r] = Wanted(x)]
    BY <2>a, <2>d DEF Become, Wanted
  <2> HIDE DEF asked
  <2>1. ASSUME NEW r \in Requests, NEW w \in WorldCups, NEW n \in 1..MaxBatch, Create(r, w, n)
        PROVE  Lists!Next
    <3>1. PICK x : /\ x = [Idle EXCEPT !.pc = "lock", !.cup = w, !.left = n]
                   /\ Become(r, x) /\ UNCHANGED table /\ req[r].pc = "idle"
      BY <2>1 DEF Create
    <3>2. Wanted(x) = [cup |-> w, count |-> n]
      BY <3>1, FS_EmptySet DEF Wanted, Idle
    <3>3. lists' = lists /\ deleted' = deleted
      BY <2>c, <3>1 DEF table
    <3>4. Lists!Ask(r, w, n)
      BY <2>b, <2>d, <3>1, <3>2, <3>3 DEF Lists!Ask, asked
    <3> QED
      BY <3>4 DEF Lists!Next
  <2>2. ASSUME NEW r \in Requests, Fail(r) PROVE Lists!Next
    <3>1. Become(r, Idle) /\ UNCHANGED table /\ req[r].pc # "idle"
      BY <2>2 DEF Fail
    <3>2. lists' = lists /\ deleted' = deleted
      BY <2>c, <3>1 DEF table
    <3>3. Lists!Refuse(r)
      BY <1>i, <2>b, <2>d, <3>1, <3>2 DEF Lists!Refuse, asked
    <3> QED
      BY <3>3 DEF Lists!Next
  <2>3. ASSUME NEW c \in Candidates, Remove(c) PROVE Lists!Next
    <3>1. /\ cup[c] # "none" /\ c \notin deleted /\ deleted' = deleted \cup {c}
          /\ UNCHANGED <<cup, order, req>>
      BY <2>3 DEF Remove
    <3>2. lists' = lists /\ asked' = asked
      BY <2>c, <3>1 DEF asked
    <3>3. Lists!Hide(c)
      BY <1>2, <3>1, <3>2, ListedIsCommitted DEF Lists!Hide, asked
    <3> QED
      BY <3>3 DEF Lists!Next
  <2>4. ASSUME NEW r \in Requests, NEW x, Become(r, x), UNCHANGED table, Wanted(x) = Wanted(req[r])
        PROVE  UNCHANGED Lists!vars
    <3>1. lists' = lists /\ deleted' = deleted
      BY <2>4, <2>c DEF table
    <3>2. asked' = asked
      <4>1. \A q \in Requests : Wanted(req'[q]) = Wanted(req[q])
        BY <2>4, <2>a DEF Become
      <4> QED
        BY <4>1 DEF asked
    <3> QED
      BY <3>1, <3>2 DEF Lists!vars, asked
  <2>5. ASSUME NEW r \in Requests, Lock(r) \/ \E n \in 0..Cardinality(Candidates) : ReadLast(r, n)
        PROVE  UNCHANGED Lists!vars
    <3>1. PICK x : /\ \/ x = [req[r] EXCEPT !.pc = "last"]
                      \/ \E n : x = [req[r] EXCEPT !.pc = "insert", !.next = n]
                   /\ Become(r, x) /\ UNCHANGED table
      BY <2>5 DEF Lock, ReadLast
    <3>2. x.cup = req[r].cup /\ x.left = req[r].left /\ x.own = req[r].own
      BY <2>a, <3>1 DEF Request
    <3> QED
      BY <2>4, <3>1, <3>2 DEF Wanted
  <2>6. ASSUME NEW r \in Requests, NEW c \in Candidates, Insert(r, c)
        PROVE  UNCHANGED Lists!vars
    <3>1. PICK x : /\ x = [req[r] EXCEPT !.left = @ - 1, !.next = @ + 1, !.own = @ \cup {c},
                                         !.at = [@ EXCEPT ![c] = req[r].next]]
                   /\ Become(r, x) /\ UNCHANGED table /\ c \notin req[r].own
      BY <2>6 DEF Insert, Fresh
    <3>2. /\ x.cup = req[r].cup /\ x.left = req[r].left - 1 /\ x.own = req[r].own \cup {c}
          /\ req[r].left \in Nat
      BY <2>a, <3>1, BatchAssumption DEF Request, BatchAssumption
    <3>3. /\ Cardinality(req[r].own \cup {c}) = Cardinality(req[r].own) + 1
          /\ Cardinality(req[r].own) \in Nat
      BY <1>2, <3>1, FS_AddElement, FS_CardinalityType DEF Batches
    <3>4. x.left + Cardinality(x.own) = req[r].left + Cardinality(req[r].own)
      BY <3>2, <3>3
    <3> QED
      BY <2>4, <3>1, <3>2, <3>4 DEF Wanted
  <2>7. ASSUME NEW r \in Requests, Commit(r) PROVE Lists!Next
    <3>1. PICK w \in WorldCups, own \in SUBSET Candidates, m \in Nat :
             /\ w = req[r].cup /\ own = req[r].own /\ m = req[r].next /\ req[r].pc = "insert"
             /\ Rows(w)' = Rows(w) \cup own
             /\ \A v \in WorldCups \ {w} : Rows(v)' = Rows(v) /\ Rows(v) \cap own = {}
             /\ \A c \in own : order'[c] = req[r].at[c] /\ cup[c] = "none"
             /\ \A c \in Candidates \ own : order'[c] = order[c]
             /\ IsNext(w, m)'
      BY <1>2, <2>7, CommitRows
    <3>2. Become(r, Idle) /\ deleted' = deleted /\ req[r].left = 0
      BY <2>7 DEF Commit
    <3>3. PICK n \in Nat : IsNext(w, n) /\ m = n + Cardinality(own)
      BY <1>2, <3>1 DEF Batches
    <3>4. PICK k \in 1..MaxBatch : k = Cardinality(own) /\ asked[r] = [cup |-> w, count |-> k]
      <4>1. req[r].left + Cardinality(req[r].own) \in 1..MaxBatch
        BY <1>2, <3>1 DEF Batches
      <4>2. Cardinality(req[r].own) \in Nat
        BY <1>2, FS_CardinalityType DEF Batches
      <4>3. req[r].left + Cardinality(req[r].own) = Cardinality(own)
        BY <3>1, <3>2, <4>2
      <4> QED
        BY <2>a, <3>1, <4>1, <4>3 DEF Wanted
    <3>5. k \in Nat /\ m = n + k
      BY <3>3, <3>4
    <3>6. Numbers(Rows(w), order, n) /\ Numbers(Rows(w) \cup own, order', n + k)
      <4>1. Numbers(Rows(w), order, n)
        BY <1>2, <3>3 DEF AllNumbered
      <4>2. Numbers(Rows(w)', order', m)
        BY <1>2, <3>1 DEF AllNumbered
      <4> QED
        BY <3>1, <3>5, <4>1, <4>2
    <3>7. \A c \in Rows(w) : order'[c] = order[c]
      BY <1>2, <3>1, CupAssumption DEF Rows, CupAssumption
    <3>8. ASSUME NEW c \in own PROVE n <= order'[c]
      <4>1. n = 0 \/ \E d \in Rows(w) : order[d] = n - 1 /\ order[d] < order'[c]
        BY <1>2, <3>1, <3>3 DEF IsNext, IInv, OpenTransactions, Continues
      <4>2. order'[c] \in 0..(n + k - 1)
        BY <3>6 DEF Numbers
      <4> QED
        BY <3>5, <4>1, <4>2
    <3>9. PICK b \in [1..k -> own] : /\ \A i, j \in 1..k : b[i] = b[j] => i = j
                                     /\ InOrder(Rows(w) \cup own, order') = InOrder(Rows(w), order) \o b
      <4>1. PICK R, p : R = Rows(w) /\ p = order'
        OBVIOUS
      <4>2. /\ Numbers(R, order, n) /\ Numbers(R \cup own, p, n + k)
            /\ \A c \in R : p[c] = order[c]
            /\ \A c \in own : n <= p[c]
        BY <3>6, <3>7, <3>8, <4>1
      <4>3. Extended(InOrder(R \cup own, p), InOrder(R, order), own, k)
        BY <3>5, <4>2, InOrderGrows
      <4> QED
        BY <4>1, <4>3 DEF Extended
    <3>10. b \in [1..k -> Candidates] /\ DOMAIN b = 1..k
      BY <3>9
    <3>11. \A i \in 1..k : ~Lists!Listed(b[i])
      BY <1>2, <3>1, <3>9, <3>10, ListedIsCommitted
    <3>12. ASSUME NEW v \in WorldCups, v # w PROVE InOrder(Rows(v)', order') = InOrder(Rows(v), order)
      <4>1. PICK l \in Nat : IsNext(v, l)
        BY <1>2 DEF Batches
      <4>2. Numbers(Rows(v), order, l)
        BY <1>2, <4>1 DEF AllNumbered
      <4>3. Rows(v)' = Rows(v) /\ \A c \in Rows(v) : order'[c] = order[c]
        BY <3>1, <3>12 DEF Rows
      <4>4. InOrder(Rows(v), order') = InOrder(Rows(v), order)
        BY <4>2, <4>3, InOrderSame
      <4> QED
        BY <4>3, <4>4
    <3>13. lists' = [lists EXCEPT ![w] = @ \o b]
      <4>1. lists' = [v \in WorldCups |-> InOrder(Rows(v)', order')]
        OBVIOUS
      <4>2. InOrder(Rows(w)', order') = InOrder(Rows(w), order) \o b
        BY <3>1, <3>9
      <4> QED
        BY <3>12, <4>1, <4>2
    <3>14. asked' = [asked EXCEPT ![r] = Lists!Nothing]
      BY <1>i, <2>d, <3>2
    <3>15. asked[r] # Lists!Nothing
      BY <2>b, <3>1
    <3>16. Lists!Grant(r, b)
      <4>1. asked[r].cup = w
        BY <3>4
      <4> QED
        BY <3>2, <3>9, <3>10, <3>11, <3>13, <3>14, <3>15, <4>1 DEF Lists!Grant, asked
    <3>17. asked[r].count = k
      BY <3>4
    <3> QED
      BY <3>10, <3>16, <3>17 DEF Lists!Next, asked
  <2>8. CASE UNCHANGED vars
    <3>1. lists' = lists /\ deleted' = deleted /\ asked' = asked
      BY <2>8, <2>c DEF vars, asked
    <3> QED
      BY <3>1 DEF Lists!vars, asked
  <2> QED
    BY <1>2, <2>1, <2>2, <2>3, <2>5, <2>6, <2>7, <2>8 DEF Next, Step
<1> QED
  BY <1>1, <1>2, BatchesInvariant, RowsNumbered, Invariance, PTL
     DEF Spec, ImplementsCandidateList, Lists!Spec
=============================================================================
