---------------------------- MODULE GameResults ----------------------------
(* Saving a finished game: saveGameResult of world-cups.service.ts, run by    *)
(* concurrent requests (a client that lost the answer repeats its playId)     *)
(* while the owner hides, edits and soft-deletes candidates and removes whole *)
(* world cups.  One action is one statement at READ COMMITTED; an uncommitted *)
(* insert lives in its request and holds the key of its play.                 *)
EXTENDS Naturals, FiniteSets

CONSTANTS WorldCups, Candidates,
          CupOf,      \* candidates.world_cup_id
          PlayIds,    \* playIds drawn by the clients
          Results,    \* the validated bodies of a save, with their world cup
          Requests,   \* HTTP requests being served, reused once answered
          NoResult

(* ClearWorldCupDto lets through two or four placements with distinct ranks   *)
(* and distinct candidates.                                                   *)
Placement == [rank : 1..4, candidate : Candidates]
ResultsAssumption ==
  /\ CupOf \in [Candidates -> WorldCups]
  /\ \A x \in Results :
       /\ x \in [worldCup : WorldCups, round : Nat, placements : SUBSET Placement]
       /\ IsFiniteSet(x.placements)
       /\ \A p, q \in x.placements : p.rank = q.rank \/ p.candidate = q.candidate => p = q
  /\ NoResult \notin Results
ASSUME ResultsAssumption

VARIABLES
  public,     \* the world cups whose visibleType is PUBLIC
  removed,    \* the world cups whose rows, candidates and plays are gone
  visible,    \* the candidates whose visibleType is PUBLIC
  deleted,    \* the candidates with a deletedAt
  play,       \* game_plays with their placements; NoResult where there is no row
  req,        \* the requests in flight
  answers,    \* the definite answers clients got: saved (200) or conflict (409) (history)
  deletedAt   \* for an insert under way, the candidates already deleted then (history)

vars == <<public, removed, visible, deleted, play, req, answers, deletedAt>>
owned == <<public, removed, visible, deleted>>
stored == <<play, answers, deletedAt>>

Steps == {"idle", "lookUp", "cup", "candidates", "insert", "inserted", "reread", "respond"}
Request == [pc : Steps, id : PlayIds, result : Results]
IdleRequest == [pc |-> "idle"]
Statuses == {"saved", "conflict"}
Answer == [id : PlayIds, result : Results, status : Statuses]

(* The world cup's rows, the stored plays, the requests and the answers. *)
TypeOK == /\ public \subseteq WorldCups
          /\ removed \subseteq WorldCups
          /\ visible \subseteq Candidates
          /\ deleted \subseteq Candidates
          /\ play \in [PlayIds -> Results \cup {NoResult}]
          /\ req \in [Requests -> Request \cup {IdleRequest}]
          /\ answers \subseteq Answer
          /\ deletedAt \in [PlayIds -> SUBSET Candidates]

Init == /\ public = WorldCups
        /\ removed = {}
        /\ visible = Candidates
        /\ deleted = {}
        /\ play = [i \in PlayIds |-> NoResult]
        /\ req = [r \in Requests |-> IdleRequest]
        /\ answers = {}
        /\ deletedAt = [i \in PlayIds |-> {}]

CandidatesOf(x) == {p.candidate : p \in x.placements}

(* Variant: only the number of placements is compared. *)
SameSize(saved, x) ==
  /\ saved.worldCup = x.worldCup
  /\ saved.round = x.round
  /\ Cardinality(saved.placements) = Cardinality(x.placements)

(* assertSameGameResult: as many placements, and each requested one is saved. *)
SameResult(saved, x) ==
  /\ saved.worldCup = x.worldCup
  /\ saved.round = x.round
  /\ Cardinality(saved.placements) = Cardinality(x.placements)
  /\ x.placements \subseteq saved.placements

(* candidates.findMany found every requested candidate. *)
AllActive(x) == \A c \in CandidatesOf(x) :
                  CupOf[c] = x.worldCup /\ c \in visible /\ c \notin deleted

(* Another transaction has inserted the same playId and not yet ended. *)
KeyHeld(r, i) == \E q \in Requests \ {r} : req[q].pc = "inserted" /\ req[q].id = i

Become(r, x) == req' = [req EXCEPT ![r] = x]
Goto(r, step) == Become(r, [req[r] EXCEPT !.pc = step])
Tell(r, status) ==
  /\ answers' = answers \cup {[id |-> req[r].id, result |-> req[r].result, status |-> status]}
  /\ Become(r, IdleRequest)
-----------------------------------------------------------------------------
(* A client saves a game, or saves it again. *)
Save(r, i, x) ==
  /\ req[r].pc = "idle"
  /\ Become(r, [pc |-> "lookUp", id |-> i, result |-> x])
  /\ UNCHANGED <<owned, stored>>

(* The playId is looked up: an existing play is compared, not written again. *)
LookUpMissing(r) ==
  /\ req[r].pc = "lookUp"
  /\ play[req[r].id] = NoResult
  /\ Goto(r, "cup")
  /\ UNCHANGED <<owned, stored>>

(* The saved play, read by the first look-up or after a unique violation, is  *)
(* the answer if it is the requested result, a conflict otherwise.            *)
CompareSame(r) ==
  /\ req[r].pc \in {"lookUp", "reread"}
  /\ play[req[r].id] # NoResult
  /\ SameResult(play[req[r].id], req[r].result)
  /\ Goto(r, "respond")
  /\ UNCHANGED <<owned, stored>>

CompareDifferent(r) ==
  /\ req[r].pc \in {"lookUp", "reread"}
  /\ play[req[r].id] # NoResult
  /\ ~SameResult(play[req[r].id], req[r].result)
  /\ Tell(r, "conflict")
  /\ UNCHANGED <<owned, play, deletedAt>>

(* The world cup must be public. *)
CheckCup(r) ==
  /\ req[r].pc = "cup"
  /\ req[r].result.worldCup \in public
  /\ Goto(r, "candidates")
  /\ UNCHANGED <<owned, stored>>

(* The placed candidates must be public, active and of that world cup. *)
CheckCandidates(r) ==
  /\ req[r].pc = "candidates"
  /\ AllActive(req[r].result)
  /\ Goto(r, "insert")
  /\ UNCHANGED <<owned, stored>>

(* 404 or 400: nothing is written. *)
Reject(r) ==
  /\ \/ req[r].pc = "cup" /\ req[r].result.worldCup \notin public
     \/ req[r].pc = "candidates" /\ ~AllActive(req[r].result)
  /\ Become(r, IdleRequest)
  /\ UNCHANGED <<owned, stored>>

(* Variant: no unique key; the insert neither waits nor fails. *)
InsertAnyway(r) ==
  /\ req[r].pc = "insert"
  /\ deletedAt' = [deletedAt EXCEPT ![req[r].id] = deleted]
  /\ Goto(r, "inserted")
  /\ UNCHANGED <<owned, play, answers>>

(* Variant: the transaction is not awaited before the answer. *)
InsertAndTell(r) ==
  /\ req[r].pc = "insert"
  /\ ~KeyHeld(r, req[r].id)
  /\ play[req[r].id] = NoResult
  /\ Tell(r, "saved")
  /\ UNCHANGED <<owned, play, deletedAt>>

(* The INSERT waits for a concurrent insert of the same playId to end; the    *)
(* foreign keys want the world cup, and with it the placed candidates.        *)
Insert(r) ==
  /\ req[r].pc = "insert"
  /\ ~KeyHeld(r, req[r].id)
  /\ play[req[r].id] = NoResult
  /\ req[r].result.worldCup \notin removed
  /\ deletedAt' = [deletedAt EXCEPT ![req[r].id] = deleted]
  /\ Goto(r, "inserted")
  /\ UNCHANGED <<owned, play, answers>>

(* Variant: the save is tried again until it is not a duplicate. *)
RetryDuplicate(r) ==
  /\ req[r].pc = "insert"
  /\ ~KeyHeld(r, req[r].id)
  /\ play[req[r].id] # NoResult
  /\ Goto(r, "candidates")
  /\ UNCHANGED <<owned, stored>>

(* P2002: the playId exists; the transaction is over and the play is reread. *)
UniqueViolation(r) ==
  /\ req[r].pc = "insert"
  /\ ~KeyHeld(r, req[r].id)
  /\ play[req[r].id] # NoResult
  /\ Goto(r, "reread")
  /\ UNCHANGED <<owned, stored>>

(* The world cup was removed after it was looked up: the insert fails with    *)
(* P2003, which no one handles.                                               *)
ForeignKeyViolation(r) ==
  /\ req[r].pc = "insert"
  /\ ~KeyHeld(r, req[r].id)
  /\ play[req[r].id] = NoResult
  /\ req[r].result.worldCup \in removed
  /\ Become(r, IdleRequest)
  /\ UNCHANGED <<owned, stored>>

(* The play the insert lost to went with its world cup before the second     *)
(* look: the P2002 is passed on and the save fails.                           *)
RereadMissing(r) ==
  /\ req[r].pc = "reread"
  /\ play[req[r].id] = NoResult
  /\ Become(r, IdleRequest)
  /\ UNCHANGED <<owned, stored>>

(* The play and its placements become visible together. *)
Commit(r) ==
  /\ req[r].pc = "inserted"
  /\ play' = [play EXCEPT ![req[r].id] = req[r].result]
  /\ deletedAt' = [deletedAt EXCEPT ![req[r].id] = {}]
  /\ Goto(r, "respond")
  /\ UNCHANGED <<owned, answers>>

(* Variant: the answer does not say whether the game was saved. *)
RespondUnsure(r) ==
  /\ req[r].pc = "respond"
  /\ Tell(r, "unknown")
  /\ UNCHANGED <<owned, play, deletedAt>>

Respond(r) ==
  /\ req[r].pc = "respond"
  /\ Tell(r, "saved")
  /\ UNCHANGED <<owned, play, deletedAt>>

(* A statement fails, the transaction times out, the replica dies or the      *)
(* answer is lost; what is not committed is rolled back.                      *)
Fail(r) ==
  /\ req[r].pc # "idle"
  /\ Become(r, IdleRequest)
  /\ deletedAt' = [i \in PlayIds |-> IF req[r].pc = "inserted" /\ req[r].id = i THEN {} ELSE deletedAt[i]]
  /\ UNCHANGED <<owned, play, answers>>
-----------------------------------------------------------------------------
(* The owner's requests, as far as a save can see them: one commit each.      *)
UpdateWorldCup(w) ==
  /\ w \notin removed
  /\ public' \in {public \cup {w}, public \ {w}} \ {public}
  /\ UNCHANGED <<removed, visible, deleted, req, stored>>

EditCandidate(c) ==
  /\ c \notin deleted /\ CupOf[c] \notin removed
  /\ visible' \in {visible \cup {c}, visible \ {c}} \ {visible}
  /\ UNCHANGED <<public, removed, deleted, req, stored>>

RemoveCandidate(c) ==
  /\ c \notin deleted /\ CupOf[c] \notin removed
  /\ deleted' = deleted \cup {c}
  /\ UNCHANGED <<public, removed, visible, req, stored>>

(* Manage's remove deletes the plays of the world cup, its candidates and its *)
(* row; it waits for an insert that refers to them and has not ended.         *)
Gone(w) == {c \in Candidates : CupOf[c] = w}
PlaysOf(w) == {i \in PlayIds : play[i] # NoResult /\ play[i].worldCup = w}
RemoveWorldCup(w) ==
  /\ w \notin removed
  /\ \A r \in Requests : req[r].pc = "inserted" => req[r].result.worldCup # w
  /\ removed' = removed \cup {w}
  /\ public' = public \ {w}
  /\ visible' = visible \ Gone(w)
  /\ deleted' = deleted \ Gone(w)
  /\ play' = [i \in PlayIds |-> IF i \in PlaysOf(w) THEN NoResult ELSE play[i]]
  /\ UNCHANGED <<req, answers, deletedAt>>
-----------------------------------------------------------------------------
Step(r) == \/ LookUpMissing(r) \/ CompareSame(r) \/ CompareDifferent(r)
           \/ CheckCup(r) \/ CheckCandidates(r) \/ Reject(r)
           \/ Insert(r) \/ UniqueViolation(r) \/ ForeignKeyViolation(r)
           \/ RereadMissing(r) \/ Commit(r) \/ Respond(r)

Next == \/ \E r \in Requests : \/ \E i \in PlayIds, x \in Results : Save(r, i, x)
                               \/ Step(r) \/ Fail(r)
        \/ \E w \in WorldCups : UpdateWorldCup(w) \/ RemoveWorldCup(w)
        \/ \E c \in Candidates : EditCandidate(c) \/ RemoveCandidate(c)

Spec == Init /\ [][Next]_vars

(* Awaited statements finish; a unique-key wait ends with the other           *)
(* transaction and waiters are served in order, hence strong fairness.        *)
FairSpec == Spec /\ \A r \in Requests : SF_vars(Step(r))
-----------------------------------------------------------------------------
(* Every client told "saved" for a playId was told of the same result, the    *)
(* one that is stored, and a client told "conflict" asked for another one:    *)
(* repeating a save is safe, reusing a playId for another game is refused.    *)
(* Only the removal of a world cup takes its results away and frees playIds.  *)
AnswersAgree ==
  \A a \in answers :
     /\ a.status = "saved" => play[a.id] = a.result \/ a.result.worldCup \in removed
     /\ a.status = "conflict" => play[a.id] \notin {a.result, NoResult} \/ removed # {}

(* A saved game is never rewritten, whatever is saved, edited or soft-deleted *)
(* after it (CANDIDATE_DELETION_POLICY.md 3), as long as its world cup exists.*)
SavedForGood ==
  [][\A i \in PlayIds :
       play[i] # NoResult /\ play'[i] # play[i] =>
         play'[i] = NoResult /\ play[i].worldCup \in removed' \ removed]_vars

(* A saved game only places candidates of its own world cup, which were       *)
(* public and active when they were checked.                                  *)
PlacedInOwnCup ==
  \A i \in PlayIds : play[i] # NoResult =>
     \A c \in CandidatesOf(play[i]) : CupOf[c] = play[i].worldCup

(* Every save is answered: waiting for another insert of the playId ends.     *)
SavesFinish == \A r \in Requests : req[r].pc # "idle" ~> req[r].pc = "idle"

(* The requests, with their two looks at the table, their races for the       *)
(* primary key and their failures, implement a store that gives each playId   *)
(* its result once, until its world cup is removed, and tells every client    *)
(* which it is.                                                               *)
Store == INSTANCE ResultStore
ImplementsResultStore == Store!Spec

(* CANDIDATE_DELETION_POLICY.md 3 and 8: a new result cannot use a deleted    *)
(* candidate; if a candidate is deleted before the save, the save fails.      *)
NoDeletedCandidateSaved ==
  [][\A i \in PlayIds : play[i] = NoResult /\ play'[i] # NoResult =>
        CandidatesOf(play'[i]) \cap deletedAt[i] = {}]_vars

(* The inductive invariant: what a request in flight has established.         *)
InFlight ==
  \A r \in Requests :
     /\ req[r].pc = "inserted" =>
          /\ play[req[r].id] = NoResult
          /\ \A q \in Requests : req[q].pc = "inserted" /\ req[q].id = req[r].id => q = r
     /\ req[r].pc \in {"insert", "inserted"} =>
          \A c \in CandidatesOf(req[r].result) : CupOf[c] = req[r].result.worldCup
     /\ req[r].pc = "inserted" => req[r].result.worldCup \notin removed
     /\ req[r].pc = "respond" =>
          play[req[r].id] = req[r].result \/ req[r].result.worldCup \in removed
(* Nothing is left of a removed world cup. *)
NothingLeft == \A i \in PlayIds : play[i] # NoResult => play[i].worldCup \notin removed

(* Everything a save relies on between two of its statements. *)
SaveInvariant == InFlight /\ AnswersAgree /\ NothingLeft /\ PlacedInOwnCup
=============================================================================
