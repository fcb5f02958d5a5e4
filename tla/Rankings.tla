------------------------------ MODULE Rankings ------------------------------
(* The lists of a world cup's candidates with their ranks, read beside the    *)
(* requests that add and remove candidates: findGameResultContents of         *)
(* world-cups.service.ts for players, findAll of                              *)
(* manage-world-cup-contents.service.ts for the owner, and the ranking loop   *)
(* that both share.                                                           *)
EXTENDS CandidateOrder

CONSTANTS Scores,      \* sums of the points of saved games
          Private      \* candidates whose visibleType is not PUBLIC

ASSUME CandidatesAssumption == Candidates \subseteq Nat /\ IsFiniteSet(Candidates)
ASSUME ScoresAssumption == Scores \subseteq Nat /\ 0 \in Scores

VARIABLES
  listing,        \* "idle", or what the request does with the rows it has read
  found,          \* the candidates that the request lists
  gameScore,      \* the points of each of them, 0 without a saved game
  sorted,         \* found, sorted: a function from 1..Size
  index,          \* how many candidates have a rank
  previousScore,  \* of the last candidate ranked; -1 for undefined
  previousRank,
  rank            \* the ranks given so far

lists == <<listing, found, gameScore, sorted, index, previousScore, previousRank, rank>>

Size == Cardinality(found)

(* right.gameScore - left.gameScore || left.id - right.id *)
Before(c, d) == \/ gameScore[c] > gameScore[d]
                \/ gameScore[c] = gameScore[d] /\ c < d
IsSorted(s) == /\ \A i, j \in 1..Size : i < j => Before(s[i], s[j])
               /\ \A c \in found : \E i \in 1..Size : s[i] = c

(* The rows of a list and the variables of its loop. *)
ListTypeOK == /\ listing \in {"idle", "scores", "sort", "rank"}
              /\ found \subseteq Candidates
              /\ gameScore \in [found -> Scores]
              /\ listing = "rank" => sorted \in [1..Size -> found]
              /\ index \in 0..Size
              /\ previousScore \in Scores \cup {-1}
              /\ previousRank \in 0..Size
              /\ rank \in [found -> 0..Size]

(* The points of a game: scoreForRank. *)
ScoreForRank(r) == IF r = 1 THEN 10 ELSE IF r = 2 THEN 7 ELSE 4

NoList == /\ listing = "idle"
          /\ found = {}
          /\ gameScore = [c \in {} |-> 0]
          /\ sorted = <<>>
          /\ index = 0
          /\ previousScore = -1
          /\ previousRank = 0
          /\ rank = [c \in {} |-> 0]

InitLists == Init /\ NoList

(* The rows of w without a deletedAt. *)
Active(w) == Rows(w) \ deleted

(* The first query: the candidates. *)
Read(rows) == /\ listing = "idle"
              /\ listing' = "scores"
              /\ found' = rows
              /\ gameScore' = [c \in rows |-> 0]
              /\ rank' = [c \in rows |-> 0]
              /\ UNCHANGED <<sorted, index, previousScore, previousRank, vars>>

(* The owner's list: every candidate that is not deleted, if there is one. *)
FindAll(w) == Active(w) # {} /\ Read(Active(w))

(* The players' list: those of them whose visibleType is PUBLIC. *)
FindGameResultContents(w) == Read(Active(w) \ Private)

(* The second query: the sums of their points, 0 without a saved game. *)
GroupScores == /\ listing = "scores"
               /\ listing' = "sort"
               /\ gameScore' \in [found -> Scores]
               /\ UNCHANGED <<found, sorted, index, previousScore, previousRank, rank, vars>>

Sort == /\ listing = "sort"
        /\ listing' = "rank"
        /\ sorted' \in [1..Size -> found]
        /\ IsSorted(sorted')
        /\ UNCHANGED <<found, gameScore, index, previousScore, previousRank, rank, vars>>

(* Variants: ranks without holes after ties; the position in an array that    *)
(* counts from zero.                                                          *)
DenseRank(i) ==
  IF gameScore[sorted[i]] = previousScore THEN previousRank ELSE previousRank + 1
RankOfNext(i) ==
  IF gameScore[sorted[i]] = previousScore THEN previousRank ELSE i + 1

(* Equal to the candidate before: its rank; otherwise the position. *)
GameRank(i) == IF gameScore[sorted[i]] = previousScore THEN previousRank ELSE i

Rank == LET i == index + 1
        IN /\ listing = "rank"
           /\ i <= Size
           /\ index' = i
           /\ previousScore' = gameScore[sorted[i]]
           /\ previousRank' = GameRank(i)
           /\ rank' = [rank EXCEPT ![sorted[i]] = GameRank(i)]
           /\ UNCHANGED <<listing, found, gameScore, sorted, vars>>

(* The list is answered. *)
Answer == /\ listing = "rank"
          /\ index = Size
          /\ listing' = "idle"
          /\ found' = {}
          /\ gameScore' = [c \in {} |-> 0]
          /\ sorted' = <<>>
          /\ index' = 0
          /\ previousScore' = -1
          /\ previousRank' = 0
          /\ rank' = [c \in {} |-> 0]
          /\ UNCHANGED vars

Ranked == GroupScores \/ Sort \/ Rank \/ Answer

NextWithLists == \/ Next /\ UNCHANGED lists
                 \/ \E w \in WorldCups : FindAll(w) \/ FindGameResultContents(w)
                 \/ Ranked

SpecWithLists == InitLists /\ [][NextWithLists]_<<vars, lists>>
-----------------------------------------------------------------------------
(* A rank is the position of the first candidate with the same points, and    *)
(* the loop's two variables describe the last candidate it ranked.            *)
FirstOfEqual(i) ==
  LET r == rank[sorted[i]]
  IN /\ r \in 1..i
     /\ gameScore[sorted[r]] = gameScore[sorted[i]]
     /\ \A j \in 1..(r - 1) : gameScore[sorted[j]] > gameScore[sorted[i]]
(* The loop invariant: every rank given so far is final and right, whatever   *)
(* candidates are added and removed meanwhile.                                *)
RanksSoFar ==
  /\ listing = "rank" => IsSorted(sorted)
  /\ \A i \in 1..index : FirstOfEqual(i)
  /\ index > 0 => listing = "rank"
  /\ IF index = 0
     THEN previousScore = -1 /\ previousRank = 0
     ELSE previousScore = gameScore[sorted[index]] /\ previousRank = rank[sorted[index]]

(* Competition ranking: one more than the number of candidates with more      *)
(* points, so that ties share a rank and the ranks after a tie are skipped.   *)
CompetitionRanking ==
  listing = "rank" /\ index = Size =>
    \A c \in found : rank[c] = 1 + Cardinality({d \in found : gameScore[d] > gameScore[c]})
=============================================================================
