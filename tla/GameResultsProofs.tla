------------------------- MODULE GameResultsProofs -------------------------
(* Theorems about GameResults for every set of world cups, candidates,       *)
(* playIds, results and requests.                                            *)
EXTENDS GameResults, FiniteSetTheorems, TLAPS

(* assertSameGameResult compares counts and looks every requested placement  *)
(* up among the saved ones; that is enough to mean equality.                 *)
LEMMA SameMeansEqual ==
  ASSUME NEW x \in Results, NEW y \in Results, SameResult(x, y)
  PROVE  x = y
<1>1. IsFiniteSet(x.placements)
  BY ResultsAssumption DEF ResultsAssumption
<1>2. x.placements = y.placements
  BY <1>1, FS_Subset DEF SameResult
<1>3. /\ x \in [worldCup : WorldCups, round : Nat, placements : SUBSET Placement]
      /\ y \in [worldCup : WorldCups, round : Nat, placements : SUBSET Placement]
  BY ResultsAssumption DEF ResultsAssumption
<1> QED
  BY <1>2, <1>3 DEF SameResult

(* A repeated save is never taken for a different one.                       *)
LEMMA SameIsReflexive == \A x \in Results : SameResult(x, x)
  BY DEF SameResult

(* What an assignment to one request's record does to req.                   *)
LEMMA BecomeSetsOne ==
  ASSUME TypeOK, NEW r \in Requests, NEW x \in Request \cup {IdleRequest}, Become(r, x)
  PROVE  /\ req' \in [Requests -> Request \cup {IdleRequest}]
         /\ req'[r] = x
         /\ \A q \in Requests : q # r => req'[q] = req[q]
  BY DEF TypeOK, Become

(* A request being served carries a playId and a validated result.           *)
LEMMA BusyRequest ==
  ASSUME TypeOK, NEW r \in Requests, req[r].pc # "idle"
  PROVE  /\ req[r] \in Request
         /\ req[r].id \in PlayIds
         /\ req[r].result \in Results
  BY DEF TypeOK, IdleRequest, Request

(* Nothing is saved, answered or in flight at the start.                     *)
LEMMA InitInvariant == Init => TypeOK /\ SaveInvariant
  BY DEF Init, TypeOK, IdleRequest, SaveInvariant, InFlight, AnswersAgree,
     NothingLeft, PlacedInOwnCup

(* What moving a busy request to another step does to req.                   *)
LEMMA GotoFacts ==
  ASSUME TypeOK, NEW r \in Requests, req[r].pc # "idle", NEW s \in Steps, Goto(r, s)
  PROVE  /\ req' \in [Requests -> Request \cup {IdleRequest}]
         /\ req'[r].pc = s
         /\ req'[r].id = req[r].id
         /\ req'[r].result = req[r].result
         /\ \A q \in Requests : q # r => req'[q] = req[q]
<1> DEFINE x == [req[r] EXCEPT !.pc = s]
<1>1. /\ x \in Request
      /\ x.pc = s /\ x.id = req[r].id /\ x.result = req[r].result
  BY BusyRequest DEF Request
<1>2. Become(r, x)
  BY DEF Goto
<1> HIDE DEF x
<1> QED
  BY <1>1, <1>2, BecomeSetsOne

(* Every step of saveGameResult and of the owner preserves the invariant.    *)
LEMMA NextInvariant == TypeOK /\ SaveInvariant /\ [Next]_vars => (TypeOK /\ SaveInvariant)'
<1> SUFFICES ASSUME TypeOK, SaveInvariant, [Next]_vars
             PROVE  TypeOK' /\ SaveInvariant'
  OBVIOUS
<1> USE DEF SaveInvariant
<1>1. ASSUME NEW r \in Requests, NEW i \in PlayIds, NEW x \in Results, Save(r, i, x)
      PROVE  TypeOK' /\ SaveInvariant'
  <2> DEFINE n == [pc |-> "lookUp", id |-> i, result |-> x]
  <2>1. n \in Request /\ n.pc = "lookUp"
    BY DEF Request, Steps
  <2>2. Become(r, n) /\ UNCHANGED <<owned, stored>>
    BY <1>1 DEF Save
  <2> HIDE DEF n
  <2>3. /\ req' \in [Requests -> Request \cup {IdleRequest}]
        /\ req'[r] = n
        /\ \A q \in Requests : q # r => req'[q] = req[q]
    BY <2>1, <2>2, BecomeSetsOne
  <2> QED
    BY <2>1, <2>2, <2>3 DEF TypeOK, owned, stored, InFlight, AnswersAgree, NothingLeft, PlacedInOwnCup
<1>2. ASSUME NEW r \in Requests, Step(r) \/ Fail(r)
      PROVE  TypeOK' /\ SaveInvariant'
  <2>b. req[r].pc # "idle"
    BY <1>2 DEF Step, Fail, LookUpMissing, CompareSame, CompareDifferent, CheckCup, CheckCandidates,
       Reject, Insert, UniqueViolation, ForeignKeyViolation, RereadMissing, Commit, Respond
  <2>r. req[r] \in Request /\ req[r].id \in PlayIds /\ req[r].result \in Results
    BY <2>b, BusyRequest
  <2>1. ASSUME LookUpMissing(r) PROVE TypeOK' /\ SaveInvariant'
    <3>1. Goto(r, "cup") /\ UNCHANGED <<owned, stored>>
      BY <2>1 DEF LookUpMissing
    <3> QED
      BY <3>1, <2>b, GotoFacts DEF Steps, TypeOK, owned, stored, InFlight, AnswersAgree, NothingLeft,
         PlacedInOwnCup
  <2>2. ASSUME CompareSame(r) PROVE TypeOK' /\ SaveInvariant'
    <3>1. Goto(r, "respond") /\ UNCHANGED <<owned, stored>>
      BY <2>2 DEF CompareSame
    <3>2. play[req[r].id] = req[r].result
      BY <2>2, <2>r, SameMeansEqual DEF CompareSame, TypeOK
    <3> QED
      BY <3>1, <3>2, <2>b, GotoFacts DEF Steps, TypeOK, owned, stored, InFlight, AnswersAgree,
         NothingLeft, PlacedInOwnCup
  <2>3. ASSUME \/ CompareDifferent(r) \/ Reject(r) \/ Respond(r) \/ Fail(r)
               \/ ForeignKeyViolation(r) \/ RereadMissing(r)
        PROVE  TypeOK' /\ SaveInvariant'
    <3>1. Become(r, IdleRequest) /\ UNCHANGED <<owned, play>>
      BY <2>3 DEF CompareDifferent, Reject, Respond, Fail, ForeignKeyViolation, RereadMissing, Tell, stored
    <3>4. deletedAt' \in [PlayIds -> SUBSET Candidates]
      BY <2>3 DEF CompareDifferent, Reject, Respond, Fail, ForeignKeyViolation, RereadMissing, stored, TypeOK
    <3>2. /\ req' \in [Requests -> Request \cup {IdleRequest}]
          /\ req'[r] = IdleRequest
          /\ \A q \in Requests : q # r => req'[q] = req[q]
      BY <3>1, BecomeSetsOne
    <3>3. answers' \subseteq Answer /\ AnswersAgree'
      <4>1. CASE answers' = answers
        BY <4>1, <3>1 DEF TypeOK, AnswersAgree, owned
      <4>2. CASE CompareDifferent(r)
        <5>1. play[req[r].id] \notin {req[r].result, NoResult}
          BY <4>2, <2>r, SameIsReflexive DEF CompareDifferent
        <5> QED
          BY <4>2, <5>1, <3>1, <2>r DEF CompareDifferent, Tell, TypeOK, owned, AnswersAgree, Answer, Statuses
      <4>3. CASE Respond(r)
        <5>1. play[req[r].id] = req[r].result \/ req[r].result.worldCup \in removed
          BY <4>3 DEF Respond, InFlight
        <5> QED
          BY <4>3, <5>1, <3>1, <2>r DEF Respond, Tell, TypeOK, owned, AnswersAgree, Answer, Statuses
      <4> QED
        BY <2>3, <4>1, <4>2, <4>3 DEF Reject, Fail, ForeignKeyViolation, RereadMissing, stored
    <3> QED
      BY <3>1, <3>2, <3>3, <3>4 DEF TypeOK, owned, IdleRequest, InFlight, NothingLeft, PlacedInOwnCup
  <2>4. ASSUME CheckCup(r) PROVE TypeOK' /\ SaveInvariant'
    <3>1. Goto(r, "candidates") /\ UNCHANGED <<owned, stored>>
      BY <2>4 DEF CheckCup
    <3> QED
      BY <3>1, <2>b, GotoFacts DEF Steps, TypeOK, owned, stored, InFlight, AnswersAgree, NothingLeft,
         PlacedInOwnCup
  <2>5. ASSUME CheckCandidates(r) PROVE TypeOK' /\ SaveInvariant'
    <3>1. Goto(r, "insert") /\ UNCHANGED <<owned, stored>>
      BY <2>5 DEF CheckCandidates
    <3>2. \A c \in CandidatesOf(req[r].result) : CupOf[c] = req[r].result.worldCup
      BY <2>5 DEF CheckCandidates, AllActive
    <3> QED
      BY <3>1, <3>2, <2>b, GotoFacts DEF Steps, TypeOK, owned, stored, InFlight, AnswersAgree,
         NothingLeft, PlacedInOwnCup
  <2>6. ASSUME Insert(r) PROVE TypeOK' /\ SaveInvariant'
    <3>1. /\ Goto(r, "inserted") /\ UNCHANGED <<owned, play, answers>>
          /\ deletedAt' = [deletedAt EXCEPT ![req[r].id] = deleted]
          /\ play[req[r].id] = NoResult /\ req[r].pc = "insert" /\ ~KeyHeld(r, req[r].id)
          /\ req[r].result.worldCup \notin removed
      BY <2>6 DEF Insert
    <3> QED
      BY <3>1, <2>b, <2>r, GotoFacts DEF Steps, TypeOK, owned, KeyHeld, InFlight, AnswersAgree,
         NothingLeft, PlacedInOwnCup
  <2>7. ASSUME UniqueViolation(r) PROVE TypeOK' /\ SaveInvariant'
    <3>1. Goto(r, "reread") /\ UNCHANGED <<owned, stored>> /\ play[req[r].id] # NoResult
      BY <2>7 DEF UniqueViolation
    <3> QED
      BY <3>1, <2>b, GotoFacts DEF Steps, TypeOK, owned, stored, InFlight, AnswersAgree, NothingLeft,
         PlacedInOwnCup
  <2>8. ASSUME Commit(r) PROVE TypeOK' /\ SaveInvariant'
    <3> DEFINE i == req[r].id
    <3>1. /\ Goto(r, "respond") /\ UNCHANGED <<owned, answers>>
          /\ deletedAt' = [deletedAt EXCEPT ![i] = {}]
          /\ play' = [play EXCEPT ![i] = req[r].result]
          /\ req[r].pc = "inserted"
      BY <2>8 DEF Commit
    <3>2. /\ play[i] = NoResult
          /\ \A q \in Requests : req[q].pc = "inserted" /\ req[q].id = i => q = r
          /\ \A c \in CandidatesOf(req[r].result) : CupOf[c] = req[r].result.worldCup
          /\ req[r].result.worldCup \notin removed
      BY <3>1 DEF InFlight
    <3>3. /\ play' \in [PlayIds -> Results \cup {NoResult}]
          /\ play'[i] = req[r].result /\ play'[i] # NoResult
          /\ \A j \in PlayIds : j # i => play'[j] = play[j]
      BY <3>1, <2>r, ResultsAssumption DEF TypeOK, ResultsAssumption
    <3>4. TypeOK'
      BY <3>1, <3>3, <2>b, GotoFacts DEF Steps, TypeOK, owned
    <3>5. AnswersAgree'
      <4>1. \A a \in answers : a.id \in PlayIds /\ a.status \in Statuses
        BY DEF TypeOK, Answer
      <4>2. \A a \in answers : \/ play[a.id] # NoResult
                               \/ a.status = "saved" /\ a.result.worldCup \in removed
                               \/ a.status = "conflict" /\ removed # {}
        <5>1. \A a \in answers : a.result \in Results /\ a.result # NoResult
          BY ResultsAssumption DEF TypeOK, Answer, ResultsAssumption
        <5>2. \A a \in answers : a.status = "saved" =>
                play[a.id] # NoResult \/ a.result.worldCup \in removed
          BY <5>1 DEF AnswersAgree
        <5>3. \A a \in answers : a.status = "conflict" => play[a.id] # NoResult \/ removed # {}
          BY DEF AnswersAgree
        <5> QED
          BY <4>1, <5>2, <5>3 DEF Statuses
      <4> QED
        BY <3>1, <3>2, <3>3, <4>1, <4>2 DEF AnswersAgree, owned, Statuses
    <3>6. NothingLeft'
      BY <3>1, <3>2, <3>3 DEF NothingLeft, owned
    <3>7. PlacedInOwnCup'
      BY <3>2, <3>3 DEF PlacedInOwnCup, CandidatesOf
    <3>8. InFlight'
      <4>1. /\ \A q \in Requests : q # r => req'[q] = req[q]
            /\ req'[r].pc = "respond" /\ req'[r].id = i /\ req'[r].result = req[r].result
        BY <3>1, <2>b, GotoFacts DEF Steps
      <4>2. \A q \in Requests : q # r /\ req[q].pc = "respond" =>
                                req[q].id # i \/ req[q].result.worldCup \in removed
        BY <3>2, <2>r, BusyRequest, ResultsAssumption DEF InFlight, ResultsAssumption
      <4> QED
        BY <3>1, <3>2, <3>3, <4>1, <4>2, BusyRequest DEF InFlight, CandidatesOf, owned
    <3> QED
      BY <3>4, <3>5, <3>6, <3>7, <3>8
  <2> QED
    BY <1>2, <2>1, <2>2, <2>3, <2>4, <2>5, <2>6, <2>7, <2>8 DEF Step
<1>3. ASSUME NEW w \in WorldCups, UpdateWorldCup(w) PROVE TypeOK' /\ SaveInvariant'
  BY <1>3 DEF UpdateWorldCup, TypeOK, stored, InFlight, AnswersAgree, NothingLeft, PlacedInOwnCup
<1>4. ASSUME NEW c \in Candidates, EditCandidate(c) \/ RemoveCandidate(c) PROVE TypeOK' /\ SaveInvariant'
  BY <1>4 DEF EditCandidate, RemoveCandidate, TypeOK, stored, InFlight, AnswersAgree, NothingLeft,
     PlacedInOwnCup
<1>6. ASSUME NEW w \in WorldCups, RemoveWorldCup(w) PROVE TypeOK' /\ SaveInvariant'
  <2>1. /\ removed' = removed \cup {w} /\ UNCHANGED <<req, answers, deletedAt>>
        /\ public' = public \ {w} /\ visible' = visible \ Gone(w) /\ deleted' = deleted \ Gone(w)
        /\ \A r \in Requests : req[r].pc = "inserted" => req[r].result.worldCup # w
    BY <1>6 DEF RemoveWorldCup
  <2>2. /\ play' \in [PlayIds -> Results \cup {NoResult}]
        /\ \A i \in PlayIds : \/ play'[i] = play[i] /\ (play[i] # NoResult => play[i].worldCup # w)
                              \/ play'[i] = NoResult /\ play[i] # NoResult /\ play[i].worldCup = w
    <3>1. play' = [i \in PlayIds |-> IF i \in PlaysOf(w) THEN NoResult ELSE play[i]]
      BY <1>6 DEF RemoveWorldCup
    <3>2. \A i \in PlayIds : i \in PlaysOf(w) <=> play[i] # NoResult /\ play[i].worldCup = w
      BY DEF PlaysOf
    <3>3. \A i \in PlayIds : play[i] \in Results \cup {NoResult}
      BY DEF TypeOK
    <3>4. ASSUME NEW i \in PlayIds
          PROVE  \/ play'[i] = play[i] /\ (play[i] # NoResult => play[i].worldCup # w)
                 \/ play'[i] = NoResult /\ play[i] # NoResult /\ play[i].worldCup = w
      <4>1. CASE i \in PlaysOf(w)
        BY <4>1, <3>1, <3>2
      <4>2. CASE i \notin PlaysOf(w)
        BY <4>2, <3>1, <3>2
      <4> QED
        BY <4>1, <4>2
    <3>5. play' \in [PlayIds -> Results \cup {NoResult}]
      BY <3>1, <3>3
    <3> QED
      BY <3>4, <3>5
  <2>3. TypeOK'
    BY <2>1, <2>2 DEF TypeOK
  <2>4. InFlight'
    BY <2>1, <2>2, BusyRequest DEF InFlight, CandidatesOf
  <2>5. AnswersAgree'
    BY <2>1, <2>2 DEF AnswersAgree, TypeOK, Answer
  <2>6. NothingLeft' /\ PlacedInOwnCup'
    BY <2>1, <2>2 DEF NothingLeft, PlacedInOwnCup, CandidatesOf
  <2> QED
    BY <2>3, <2>4, <2>5, <2>6
<1>5. CASE UNCHANGED vars
  BY <1>5 DEF vars, TypeOK, InFlight, AnswersAgree, NothingLeft, PlacedInOwnCup
<1> QED
  BY <1>1, <1>2, <1>3, <1>4, <1>5, <1>6 DEF Next
-----------------------------------------------------------------------------
(* Types, and what the requests in flight have established, hold throughout. *)
THEOREM Invariance == Spec => [](TypeOK /\ SaveInvariant)
  BY InitInvariant, NextInvariant, PTL DEF Spec

(* Whatever saves overlap, fail and are repeated, all clients told "saved"   *)
(* for a playId were told of the one stored result, and a conflict is only   *)
(* reported for a different one, unless a world cup was removed since.       *)
THEOREM Idempotency == Spec => []AnswersAgree
<1>1. SaveInvariant => AnswersAgree
  BY DEF SaveInvariant
<1> QED
  BY <1>1, Invariance, PTL

(* A saved game is never rewritten, and goes only with its world cup.        *)
THEOREM NeverRewritten == Spec => SavedForGood
<1>1. ASSUME TypeOK, SaveInvariant, [Next]_vars, NEW i \in PlayIds,
             play[i] # NoResult, play'[i] # play[i]
      PROVE  play'[i] = NoResult /\ play[i].worldCup \in removed' \ removed
  <2>1. ASSUME NEW r \in Requests, Commit(r) PROVE FALSE
    BY <1>1, <2>1 DEF Commit, SaveInvariant, InFlight, TypeOK
  <2>2. CASE UNCHANGED play
    BY <1>1, <2>2
  <2>3. ASSUME NEW w \in WorldCups, RemoveWorldCup(w)
        PROVE  play'[i] = NoResult /\ play[i].worldCup \in removed' \ removed
    BY <1>1, <2>3 DEF RemoveWorldCup, PlaysOf, TypeOK
  <2> QED
    BY <1>1, <2>1, <2>2, <2>3 DEF Next, Step, Save, LookUpMissing, CompareSame, CompareDifferent, CheckCup,
       CheckCandidates, Reject, Insert, UniqueViolation, ForeignKeyViolation, RereadMissing, Respond, Fail, UpdateWorldCup, EditCandidate,
       RemoveCandidate, stored, vars
<1>2. TypeOK /\ SaveInvariant /\ [Next]_vars
        => [\A i \in PlayIds :
              play[i] # NoResult /\ play'[i] # play[i] =>
                play'[i] = NoResult /\ play[i].worldCup \in removed' \ removed]_vars
  BY <1>1
<1> QED
  BY <1>2, Invariance, PTL DEF Spec, SavedForGood

(* Type correctness, and what the saves in flight have established.          *)
THEOREM TypeCorrect == Spec => []TypeOK
  BY Invariance, PTL

THEOREM SavesRelyOn == Spec => []SaveInvariant
  BY Invariance, PTL

(* A saved game places candidates of its own world cup only.                 *)
THEOREM OwnCandidates == Spec => []PlacedInOwnCup
<1>1. SaveInvariant => PlacedInOwnCup
  BY DEF SaveInvariant
<1> QED
  BY <1>1, Invariance, PTL

(* Every save maps to a step of the store or to none: the commit stores the   *)
(* result, the answers tell of it.                                            *)
THEOREM Refinement == Spec => ImplementsResultStore
<1>1. Init => Store!Init
  BY DEF Init, Store!Init
<1>2. ASSUME TypeOK, SaveInvariant, [Next]_vars PROVE [Store!Next]_(Store!vars)
  <2>1. ASSUME NEW r \in Requests, Commit(r) PROVE Store!Next
    <3>1. req[r].id \in PlayIds /\ req[r].result \in Results
      BY <1>2, <2>1, BusyRequest DEF Commit
    <3>2. Store!Store(req[r].id, req[r].result)
      BY <1>2, <2>1 DEF Commit, Store!Store, SaveInvariant, InFlight, owned
    <3> QED
      BY <3>1, <3>2 DEF Store!Next
  <2>2. ASSUME NEW r \in Requests, CompareDifferent(r) PROVE Store!Next
    <3>1. req[r].id \in PlayIds /\ req[r].result \in Results
      BY <1>2, <2>2, BusyRequest DEF CompareDifferent
    <3>2. play[req[r].id] # NoResult /\ play[req[r].id] # req[r].result
      BY <2>2, <3>1, SameIsReflexive DEF CompareDifferent
    <3>3. Store!Tell(req[r].id, req[r].result, "conflict")
      BY <2>2, <3>2 DEF CompareDifferent, Tell, Store!Tell, owned
    <3> QED
      BY <3>1, <3>3 DEF Store!Next
  <2>3. ASSUME NEW r \in Requests, Respond(r) PROVE Store!Next
    <3>1. req[r].id \in PlayIds /\ req[r].result \in Results
      BY <1>2, <2>3, BusyRequest DEF Respond
    <3>2. play[req[r].id] = req[r].result \/ req[r].result.worldCup \in removed
      BY <1>2, <2>3 DEF Respond, SaveInvariant, InFlight
    <3>3. Store!Tell(req[r].id, req[r].result, "saved")
      BY <2>3, <3>2 DEF Respond, Tell, Store!Tell, owned
    <3> QED
      BY <3>1, <3>3 DEF Store!Next
  <2>4. CASE UNCHANGED <<play, removed, answers>>
    BY <2>4 DEF Store!vars
  <2>5. ASSUME NEW w \in WorldCups, RemoveWorldCup(w) PROVE Store!Next
    <3>1. Store!Remove(w)
      BY <1>2, <2>5 DEF RemoveWorldCup, PlaysOf, Store!Remove
    <3> QED
      BY <3>1 DEF Store!Next
  <2> QED
    BY <1>2, <2>1, <2>2, <2>3, <2>4, <2>5 DEF Next, Step, Save, LookUpMissing, CompareSame, CheckCup,
       CheckCandidates, Reject, Insert, UniqueViolation, ForeignKeyViolation, RereadMissing, Fail, owned, UpdateWorldCup, EditCandidate,
       RemoveCandidate, stored, vars
<1> QED
  BY <1>1, <1>2, Invariance, PTL DEF Spec, ImplementsResultStore, Store!Spec
=============================================================================
