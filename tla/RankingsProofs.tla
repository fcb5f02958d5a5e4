--------------------------- MODULE RankingsProofs ---------------------------
(* The ranking loop is right for any number of candidates and any points.    *)
EXTENDS Rankings, FiniteSetTheorems, TLAPS

IInv == ListTypeOK /\ RanksSoFar

(* The number of listed candidates is a number.                              *)
LEMMA SizeType == ASSUME found \subseteq Candidates PROVE Size \in Nat
<1>1. IsFiniteSet(found)
  BY CandidatesAssumption, FS_Subset DEF CandidatesAssumption
<1> QED
  BY <1>1, FS_CardinalityType DEF Size

(* Without a list nothing is ranked.                                         *)
LEMMA NoListInvariant == NoList => IInv
<1> SUFFICES ASSUME NoList PROVE IInv
  OBVIOUS
<1>1. Size = 0
  BY FS_EmptySet DEF NoList, Size
<1> QED
  BY <1>1 DEF NoList, IInv, ListTypeOK, RanksSoFar

(* One round of the loop ranks the next candidate and keeps the others.      *)
LEMMA RankInvariant == IInv /\ Rank => IInv'
<1> SUFFICES ASSUME IInv, Rank PROVE IInv'
  OBVIOUS
<1> DEFINE i == index + 1
<1>1. /\ listing = "rank" /\ listing' = listing /\ i <= Size /\ index' = i
      /\ previousScore' = gameScore[sorted[i]]
      /\ previousRank' = GameRank(i)
      /\ rank' = [rank EXCEPT ![sorted[i]] = GameRank(i)]
      /\ gameScore' = gameScore /\ found' = found /\ sorted' = sorted
  BY DEF Rank
<1>2. /\ Size \in Nat /\ Size' = Size
  BY <1>1, SizeType DEF IInv, ListTypeOK, Size
<1>3. /\ sorted \in [1..Size -> found] /\ IsSorted(sorted)
      /\ index \in 0..Size /\ i \in 1..Size
      /\ gameScore \in [found -> Scores]
      /\ rank \in [found -> 0..Size]
      /\ found \subseteq Candidates
  BY <1>1, <1>2 DEF IInv, ListTypeOK, RanksSoFar
<1>4. \A j \in 1..Size : sorted[j] \in found /\ gameScore[sorted[j]] \in Nat
  BY <1>3, ScoresAssumption DEF ScoresAssumption
<1>5. \A j, k \in 1..Size : j < k => /\ sorted[j] # sorted[k]
                                     /\ gameScore[sorted[j]] >= gameScore[sorted[k]]
  <2> SUFFICES ASSUME NEW j \in 1..Size, NEW k \in 1..Size, j < k
               PROVE  sorted[j] # sorted[k] /\ gameScore[sorted[j]] >= gameScore[sorted[k]]
    OBVIOUS
  <2>1. Before(sorted[j], sorted[k])
    BY <1>3 DEF IsSorted
  <2>2. /\ sorted[j] \in Nat /\ sorted[k] \in Nat
        /\ gameScore[sorted[j]] \in Nat /\ gameScore[sorted[k]] \in Nat
    BY <1>3, <1>4, CandidatesAssumption DEF CandidatesAssumption
  <2> QED
    BY <2>1, <2>2 DEF Before
<1>6. \A j \in 1..index : FirstOfEqual(j)
  BY DEF IInv, RanksSoFar
<1>7. index = 0 => previousScore = -1
  BY DEF IInv, RanksSoFar
<1>8. index > 0 => previousScore = gameScore[sorted[index]] /\ previousRank = rank[sorted[index]]
  BY <1>3 DEF IInv, RanksSoFar
<1>9. /\ GameRank(i) \in 1..i
      /\ gameScore[sorted[GameRank(i)]] = gameScore[sorted[i]]
      /\ \A j \in 1..(GameRank(i) - 1) : gameScore[sorted[j]] > gameScore[sorted[i]]
  <2>1. CASE gameScore[sorted[i]] = previousScore
    <3>1. index > 0
      BY <1>3, <1>4, <1>7, <2>1
    <3>2. index \in 1..index /\ GameRank(i) = rank[sorted[index]]
      BY <1>3, <1>8, <2>1, <3>1 DEF GameRank
    <3>3. FirstOfEqual(index)
      BY <1>6, <3>2
    <3> QED
      BY <1>3, <1>8, <2>1, <3>1, <3>2, <3>3 DEF FirstOfEqual
  <2>2. CASE gameScore[sorted[i]] # previousScore
    <3>1. GameRank(i) = i
      BY <2>2 DEF GameRank
    <3>2. ASSUME NEW j \in 1..(i - 1)
          PROVE  gameScore[sorted[j]] > gameScore[sorted[i]]
      <4>1. index > 0 /\ index \in 1..Size /\ j \in 1..Size /\ j <= index
        BY <1>2, <1>3
      <4>2. gameScore[sorted[index]] >= gameScore[sorted[i]]
        BY <1>3, <1>5, <4>1
      <4>3. gameScore[sorted[j]] >= gameScore[sorted[index]]
        BY <1>4, <1>5, <4>1
      <4>4. gameScore[sorted[index]] # gameScore[sorted[i]]
        BY <1>8, <2>2, <4>1
      <4> QED
        BY <1>3, <1>4, <4>1, <4>2, <4>3, <4>4
    <3> QED
      BY <1>3, <3>1, <3>2
  <2> QED
    BY <2>1, <2>2
<1> HIDE DEF i
<1>10. i = index + 1 /\ GameRank(i) \in 0..Size
  BY <1>2, <1>3, <1>9 DEF i
<1>11. ListTypeOK'
  <2>1. rank' \in [found' -> 0..Size']
    BY <1>1, <1>2, <1>3, <1>10
  <2>2. previousScore' \in Scores
    BY <1>1, <1>3, <1>4
  <2> QED
    BY <1>1, <1>2, <1>3, <1>10, <2>1, <2>2 DEF ListTypeOK
<1>12. /\ rank'[sorted[i]] = GameRank(i)
       /\ \A j \in 1..index : rank'[sorted[j]] = rank[sorted[j]]
  BY <1>1, <1>2, <1>3, <1>4, <1>5, <1>10
<1>13. ASSUME NEW j \in 1..index' PROVE FirstOfEqual(j)'
  <2>1. CASE j = i
    BY <1>1, <1>9, <1>12, <2>1 DEF FirstOfEqual
  <2>2. CASE j # i
    <3>1. j \in 1..index
      BY <1>1, <1>3, <1>10, <2>2
    <3>2. FirstOfEqual(j)
      BY <1>6, <3>1
    <3> QED
      BY <1>1, <1>12, <3>1, <3>2 DEF FirstOfEqual
  <2> QED
    BY <2>1, <2>2
<1>14. IsSorted(sorted)'
  BY <1>1, <1>2, <1>3 DEF IsSorted, Before
<1>15. RanksSoFar'
  BY <1>1, <1>2, <1>3, <1>10, <1>12, <1>13, <1>14 DEF RanksSoFar
<1> QED
  BY <1>11, <1>15 DEF IInv

(* Steps that leave a list and its loop alone.                               *)
LEMMA ListUnchanged == IInv /\ UNCHANGED lists => IInv'
<1> SUFFICES ASSUME IInv, UNCHANGED lists PROVE IInv'
  OBVIOUS
<1>1. /\ UNCHANGED <<listing, found, gameScore, sorted, index, previousScore, previousRank, rank>>
      /\ Size' = Size
  BY DEF lists, Size
<1>2. ListTypeOK'
  BY <1>1 DEF IInv, ListTypeOK
<1>3. RanksSoFar'
  BY <1>1 DEF IInv, RanksSoFar, IsSorted, Before, FirstOfEqual
<1> QED
  BY <1>2, <1>3 DEF IInv

(* Nothing is ranked before the loop.                                        *)
LEMMA NothingRanked == IInv /\ listing # "rank" => index = 0 /\ previousScore = -1 /\ previousRank = 0
<1> SUFFICES ASSUME IInv, listing # "rank" PROVE index = 0 /\ previousScore = -1 /\ previousRank = 0
  OBVIOUS
<1>1. Size \in Nat /\ index \in 0..Size
  BY SizeType DEF IInv, ListTypeOK
<1> QED
  BY <1>1 DEF IInv, RanksSoFar

(* Reading, sorting and answering rank nobody; candidates are added and      *)
(* removed beside the list.                                                  *)
LEMMA NextInvariant == IInv /\ [NextWithLists]_<<vars, lists>> => IInv'
<1> SUFFICES ASSUME IInv, [NextWithLists]_<<vars, lists>> PROVE IInv'
  OBVIOUS
<1>1. ASSUME NEW rows \in SUBSET Candidates, Read(rows) PROVE IInv'
  <2>1. /\ listing = "idle" /\ listing' = "scores" /\ found' = rows
        /\ gameScore' = [c \in rows |-> 0] /\ rank' = [c \in rows |-> 0]
        /\ UNCHANGED <<sorted, index, previousScore, previousRank>>
    BY <1>1 DEF Read
  <2>2. index = 0 /\ previousScore = -1 /\ previousRank = 0
    BY <2>1, NothingRanked
  <2>3. Size' \in Nat
    <3>1. IsFiniteSet(rows)
      BY CandidatesAssumption, FS_Subset DEF CandidatesAssumption
    <3> QED
      BY <2>1, <3>1, FS_CardinalityType DEF Size
  <2>4. previousRank' \in 0..Size'
    BY <2>1, <2>2, <2>3
  <2>5. ListTypeOK'
    BY <2>1, <2>2, <2>3, <2>4, ScoresAssumption DEF ListTypeOK, ScoresAssumption
  <2>6. RanksSoFar'
    BY <2>1, <2>2 DEF RanksSoFar
  <2> QED
    BY <2>5, <2>6 DEF IInv
<1>2. CASE GroupScores
  <2>1. /\ listing = "scores" /\ listing' = "sort"
        /\ gameScore' \in [found -> Scores]
        /\ UNCHANGED <<found, sorted, index, previousScore, previousRank, rank>>
        /\ Size' = Size
    BY <1>2 DEF GroupScores, Size
  <2>2. index = 0 /\ previousScore = -1 /\ previousRank = 0
    BY <2>1, NothingRanked
  <2>3. ListTypeOK'
    BY <2>1 DEF IInv, ListTypeOK
  <2>4. RanksSoFar'
    BY <2>1, <2>2 DEF RanksSoFar
  <2> QED
    BY <2>3, <2>4 DEF IInv
<1>3. CASE Sort
  <2>1. /\ listing = "sort" /\ listing' = "rank"
        /\ sorted' \in [1..Size -> found] /\ IsSorted(sorted')
        /\ UNCHANGED <<gameScore, found, index, previousScore, previousRank, rank>>
        /\ Size' = Size
    BY <1>3 DEF Sort, Size
  <2>2. index = 0 /\ previousScore = -1 /\ previousRank = 0
    BY <2>1, NothingRanked
  <2>3. IsSorted(sorted)'
    BY <2>1 DEF IsSorted, Before
  <2>4. ListTypeOK'
    BY <2>1 DEF IInv, ListTypeOK
  <2>5. RanksSoFar'
    BY <2>1, <2>2, <2>3 DEF RanksSoFar
  <2> QED
    BY <2>4, <2>5 DEF IInv
<1>4. CASE Answer
  <2>1. NoList'
    BY <1>4 DEF Answer, NoList
  <2>2. Size' = 0
    BY <2>1, FS_EmptySet DEF NoList, Size
  <2> QED
    BY <2>1, <2>2 DEF NoList, IInv, ListTypeOK, RanksSoFar
<1>5. ASSUME NEW w \in WorldCups, FindAll(w) \/ FindGameResultContents(w) PROVE IInv'
  <2>1. Active(w) \in SUBSET Candidates
    BY DEF Active, Rows
  <2> QED
    BY <1>1, <1>5, <2>1 DEF FindAll, FindGameResultContents
<1>6. CASE Next /\ UNCHANGED lists
  BY <1>6, ListUnchanged
<1>7. CASE UNCHANGED <<vars, lists>>
  BY <1>7, ListUnchanged
<1> QED
  BY <1>2, <1>3, <1>4, <1>5, <1>6, <1>7, RankInvariant DEF NextWithLists, Ranked

(* Lists leave candidates, numbers and open transactions alone, so that what *)
(* holds of CandidateOrder, its theorems included, holds beside them.        *)
THEOREM ListsOnlyRead == SpecWithLists => Spec
<1>1. InitLists => Init
  BY DEF InitLists
<1>2. [NextWithLists]_<<vars, lists>> => [Next]_vars
  BY DEF NextWithLists, Ranked, FindAll, FindGameResultContents, Read, GroupScores, Sort, Rank,
         Answer
<1> QED
  BY <1>1, <1>2, PTL DEF SpecWithLists, Spec

(* Every rank given is the position of the first candidate with the same     *)
(* points, whatever ties there are: players with equal points share a rank,  *)
(* and the next rank is the next position.                                   *)
THEOREM RanksAreRight == SpecWithLists => []RanksSoFar
<1>1. IInv => RanksSoFar
  BY DEF IInv
<1> QED
  BY <1>1, NoListInvariant, NextInvariant, PTL DEF SpecWithLists, InitLists

(* Type correctness.                                                         *)
THEOREM ListsTypeCorrect == SpecWithLists => []ListTypeOK
<1>1. IInv => ListTypeOK
  BY DEF IInv
<1> QED
  BY <1>1, NoListInvariant, NextInvariant, PTL DEF SpecWithLists, InitLists

(* As many candidates come before a rank as there are positions.             *)
LEMMA PositionsBefore ==
  ASSUME IInv, listing = "rank", NEW r \in 1..Size
  PROVE  Cardinality({sorted[j] : j \in 1..(r - 1)}) = r - 1
<1> DEFINE B == {sorted[j] : j \in 1..(r - 1)}
           f == [j \in 1..(r - 1) |-> sorted[j]]
<1>1. Size \in Nat /\ sorted \in [1..Size -> found] /\ IsSorted(sorted) /\ found \subseteq Candidates
  BY SizeType DEF IInv, ListTypeOK, RanksSoFar
<1>2. \A j \in 1..(r - 1) : j \in 1..Size
  BY <1>1
<1>3. ASSUME NEW j \in 1..Size, NEW k \in 1..Size, j < k PROVE sorted[j] # sorted[k]
  <2>1. Before(sorted[j], sorted[k])
    BY <1>1, <1>3 DEF IsSorted
  <2>2. /\ sorted[j] \in Nat /\ sorted[k] \in Nat
        /\ gameScore[sorted[j]] \in Nat /\ gameScore[sorted[k]] \in Nat
    BY <1>1, CandidatesAssumption, ScoresAssumption
       DEF CandidatesAssumption, ScoresAssumption, IInv, ListTypeOK
  <2> QED
    BY <2>1, <2>2 DEF Before
<1>4. f \in Bijection(1..(r - 1), B)
  <2>1. f \in [1..(r - 1) -> B]
    OBVIOUS
  <2>2. \A j, k \in 1..(r - 1) : f[j] = f[k] => j = k
    <3> SUFFICES ASSUME NEW j \in 1..(r - 1), NEW k \in 1..(r - 1), f[j] = f[k] PROVE j = k
      OBVIOUS
    <3>1. j \in 1..Size /\ k \in 1..Size /\ sorted[j] = sorted[k]
      BY <1>2
    <3> QED
      BY <1>1, <1>3, <3>1
  <2>3. \A d \in B : \E j \in 1..(r - 1) : f[j] = d
    OBVIOUS
  <2> QED
    <3> HIDE DEF f, B
    <3>1. IsInjective(f)
      BY <2>1, <2>2 DEF IsInjective
    <3> QED
      BY <2>1, <2>3, <3>1 DEF Bijection, Injection, Surjection
<1>5. IsFiniteSet(1..(r - 1)) /\ Cardinality(1..(r - 1)) = r - 1
  BY <1>1, FS_Interval
<1> QED
  <2> HIDE DEF f, B
  <2>1. ExistsBijection(1..(r - 1), B)
    BY <1>4 DEF ExistsBijection
  <2>2. Cardinality(B) = r - 1
    BY <1>5, <2>1, FS_Bijection
  <2> QED
    BY <2>2 DEF B

(* The answer's ranks are a competition ranking of the points.               *)
THEOREM RanksCompete == SpecWithLists => []CompetitionRanking
<1>1. ASSUME IInv, listing = "rank", index = Size, NEW c \in found
      PROVE  rank[c] = 1 + Cardinality({d \in found : gameScore[d] > gameScore[c]})
  <2>1. Size \in Nat /\ found \subseteq Candidates /\ gameScore \in [found -> Nat]
    BY <1>1, SizeType, ScoresAssumption DEF IInv, ListTypeOK, ScoresAssumption
  <2>2. sorted \in [1..Size -> found] /\ IsSorted(sorted)
    BY <1>1 DEF IInv, ListTypeOK, RanksSoFar
  <2>3. PICK i \in 1..Size : sorted[i] = c
    BY <2>2 DEF IsSorted
  <2> DEFINE r == rank[c]
             H == {d \in found : gameScore[d] > gameScore[c]}
  <2>4. /\ r \in 1..i /\ gameScore[sorted[r]] = gameScore[c]
        /\ \A j \in 1..(r - 1) : gameScore[sorted[j]] > gameScore[c]
    BY <1>1, <2>3 DEF IInv, RanksSoFar, FirstOfEqual
  <2>5. r \in 1..Size
    BY <2>1, <2>3, <2>4
  <2>6. ASSUME NEW j \in 1..Size, ~(j \in 1..(r - 1)) PROVE ~(gameScore[sorted[j]] > gameScore[c])
    <3>1. CASE j = r
      BY <2>1, <2>2, <2>4, <3>1
    <3>2. CASE r < j
      <4>1. Before(sorted[r], sorted[j])
        BY <2>2, <2>5, <3>2 DEF IsSorted
      <4>2. gameScore[sorted[r]] \in Nat /\ gameScore[sorted[j]] \in Nat
        BY <2>1, <2>2, <2>5
      <4> QED
        BY <2>4, <4>1, <4>2 DEF Before
    <3> QED
      BY <2>1, <2>5, <2>6, <3>1, <3>2
  <2>7. H = {sorted[j] : j \in 1..(r - 1)}
    <3>1. ASSUME NEW d \in H PROVE d \in {sorted[j] : j \in 1..(r - 1)}
      <4>1. PICK j \in 1..Size : sorted[j] = d
        BY <2>2 DEF IsSorted
      <4> QED
        BY <2>6, <4>1
    <3>2. ASSUME NEW j \in 1..(r - 1) PROVE sorted[j] \in H
      <4>1. j \in 1..Size
        BY <2>1, <2>5
      <4> QED
        BY <2>2, <2>4, <4>1
    <3> QED
      BY <3>1, <3>2
  <2>8. Cardinality(H) = r - 1
    BY <1>1, <2>2, <2>5, <2>7, PositionsBefore
  <2> QED
    BY <2>1, <2>5, <2>8
<1>2. IInv => CompetitionRanking
  BY <1>1 DEF CompetitionRanking
<1> QED
  BY <1>2, NoListInvariant, NextInvariant, PTL DEF SpecWithLists, InitLists
=============================================================================
