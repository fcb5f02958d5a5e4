-------------------------- MODULE GameRoundsProofs --------------------------
(* Theorems about DraftPublishing and GameRounds for every set of candidates, *)
(* requests and rounds, and any number of edits.                              *)
EXTENDS GameRounds, FiniteSetTheorems, TLAPS

(* Shows the photo its attribution names, or is excused but not for being     *)
(* chosen: what a publication relies on.                                      *)
Good(c) == \/ source[c] /\ image[c] = "photo"
           \/ image[c] = "video"
           \/ c \in late

(* Every active candidate that a publication has not read was written since;  *)
(* after the check those it read are good, and stay so while they are locked. *)
RequestInv(r) ==
  /\ req[r].pc \in {"find", "attribute"} => \A c \in req[r].cands : image[c] # "none"
  /\ req[r].pc \in {"sources", "update"} => Active \ req[r].cands \subseteq late
  /\ req[r].pc = "update" => \A c \in req[r].cands \cap Active : Good(c)
  /\ req[r].pc = "commit" => \A c \in req[r].cands : Good(c)

RowsInv == /\ \A c \in Candidates : image[c] = "none" => c \notin visible /\ ~source[c]
           /\ \A c \in Candidates : source[c] /\ image[c] = "upload" => c \in late

DraftInv == DraftTypeOK /\ RowsInv /\ (\A r \in Requests : RequestInv(r)) /\ OfferedAreAttributed

(* What an assignment to one request's record does to req.                    *)
LEMMA BecomeSetsOne ==
  ASSUME DraftTypeOK, NEW r \in Requests, NEW x \in Request, Become(r, x)
  PROVE  /\ req' \in [Requests -> Request]
         /\ req'[r] = x
         /\ \A q \in Requests : q # r => req'[q] = req[q]
  BY DEF DraftTypeOK, Become

(* The request record without a request.                                      *)
LEMMA IdleIsRequest == Idle \in Request /\ Idle.pc = "idle"
  BY DEF Idle, Request

(* Initially nothing is there.                                                *)
LEMMA DraftStart == ASSUME DraftInit PROVE DraftInv
<1>1. DraftTypeOK
  <2>1. 0 \in 0..MaxEdits
    BY EditsAssumption DEF EditsAssumption
  <2>2. req \in [Requests -> Request] /\ \A r \in Requests : req[r].pc # "commit"
    BY IdleIsRequest DEF DraftInit
  <2> QED
    BY <2>1, <2>2 DEF DraftInit, DraftTypeOK
<1>2. RowsInv /\ OfferedAreAttributed
  BY DEF DraftInit, RowsInv, OfferedAreAttributed, Offered
<1>3. \A r \in Requests : RequestInv(r)
  BY IdleIsRequest DEF DraftInit, RequestInv
<1> QED
  BY <1>1, <1>2, <1>3 DEF DraftInv

(* A request moves on without writing a row.                                  *)
LEMMA DraftGoesOn ==
  ASSUME DraftInv, NEW r \in Requests, NEW x \in Request, Become(r, x),
         UNCHANGED <<image, source, visible, deleted, edits, chosen, late>>, public' \in BOOLEAN,
         x.pc = "commit" => x.cands \subseteq Active,
         x.pc \in {"find", "attribute"} => \A c \in x.cands : image[c] # "none",
         x.pc \in {"sources", "update"} => Active \ x.cands \subseteq late,
         x.pc = "update" => \A c \in x.cands \cap Active : Good(c),
         x.pc = "commit" => \A c \in x.cands : Good(c)
  PROVE  DraftInv'
<1>1. /\ req' \in [Requests -> Request]
      /\ req'[r] = x
      /\ \A q \in Requests : q # r => req'[q] = req[q]
  BY BecomeSetsOne DEF DraftInv
<1>2. Active' = Active /\ \A c \in Candidates : Good(c) => Good(c)'
  BY DEF Active, Good
<1>3. DraftTypeOK'
  BY <1>1, <1>2 DEF DraftInv, DraftTypeOK
<1>4. RowsInv' /\ OfferedAreAttributed'
  BY <1>2 DEF DraftInv, RowsInv, OfferedAreAttributed, Offered
<1>5. ASSUME NEW q \in Requests PROVE RequestInv(q)'
  <2>1. RequestInv(q) /\ req[q].cands \subseteq Candidates /\ x.cands \subseteq Candidates
    BY DEF DraftInv, DraftTypeOK, Request
  <2> QED
    BY <1>1, <1>2, <2>1 DEF RequestInv
<1> QED
  BY <1>3, <1>4, <1>5 DEF DraftInv

(* The owner saves one candidate with a visibility: either he chose PUBLIC,   *)
(* or it is not offered; and if a publication is checking it is late.         *)
LEMMA OwnerSaves ==
  ASSUME DraftInv, NEW c \in Candidates, NEW v \in BOOLEAN, SaveVisible(c, v), Edit,
         ~Locked(c), UNCHANGED <<deleted, public, req>>,
         image' \in [Candidates -> {"none", "photo", "upload", "video"}],
         source' \in [Candidates -> BOOLEAN],
         \A d \in Candidates \ {c} : image'[d] = image[d] /\ source'[d] = source[d],
         image'[c] # "none", source'[c] /\ image'[c] = "upload" => c \in late
  PROVE  DraftInv'
<1>1. /\ \A d \in Candidates \ {c} : /\ d \in visible' <=> d \in visible
                                     /\ d \in chosen' <=> d \in chosen
                                     /\ d \in Active' <=> d \in Active
                                     /\ d \in late' <=> d \in late
      /\ visible' \subseteq Candidates /\ chosen' \subseteq Candidates
      /\ late \subseteq late' /\ late' \subseteq Candidates
      /\ Checking => c \in late'
      /\ c \in visible' => c \in chosen'
  BY DEF SaveVisible, LateIfChecking, DraftInv, DraftTypeOK, Active
<1>2. \A d \in Candidates \ {c} : Good(d) => Good(d)'
  BY <1>1 DEF Good
<1>3. \A q \in Requests : /\ req'[q] = req[q]
                          /\ req[q].cands \subseteq Candidates
                          /\ req[q].pc = "commit" => c \notin req[q].cands
                          /\ req[q].pc \in {"sources", "update"} => c \in late'
  BY <1>1 DEF Locked, Checking, DraftInv, DraftTypeOK, Request
<1>4. DraftTypeOK'
  <2>1. \A q \in Requests : req'[q].pc = "commit" => req'[q].cands \subseteq Active'
    BY <1>1, <1>3 DEF DraftInv, DraftTypeOK
  <2>2. edits' \in 0..MaxEdits
    BY EditsAssumption DEF Edit, DraftInv, DraftTypeOK, EditsAssumption
  <2> QED
    BY <1>1, <2>1, <2>2 DEF DraftInv, DraftTypeOK
<1>5. RowsInv'
  BY <1>1 DEF DraftInv, RowsInv
<1>6. OfferedAreAttributed'
  BY <1>1 DEF DraftInv, OfferedAreAttributed, Offered
<1>7. ASSUME NEW q \in Requests PROVE RequestInv(q)'
  <2>1. RequestInv(q)
    BY DEF DraftInv
  <2>2. req[q].pc \in {"find", "attribute"} => \A d \in req[q].cands : image'[d] # "none"
    BY <1>3, <2>1 DEF RequestInv
  <2>3. req[q].pc \in {"sources", "update"} => Active' \ req[q].cands \subseteq late'
    BY <1>1, <1>3, <2>1 DEF RequestInv, Active
  <2>4. req[q].pc = "update" => \A d \in req[q].cands \cap Active' : Good(d)'
    <3>1. c \in late' => Good(c)'
      BY DEF Good
    <3> QED
      BY <1>1, <1>2, <1>3, <2>1, <3>1 DEF RequestInv
  <2>5. req[q].pc = "commit" => \A d \in req[q].cands : Good(d)'
    BY <1>2, <1>3, <2>1 DEF RequestInv
  <2> QED
    BY <1>3, <2>2, <2>3, <2>4, <2>5 DEF RequestInv
<1> QED
  BY <1>4, <1>5, <1>6, <1>7 DEF DraftInv

(* Every step of the automation or the owner preserves the invariant.         *)
LEMMA DraftStep == ASSUME DraftInv, DraftNext PROVE DraftInv'
<1> USE IdleIsRequest
<1>1. ASSUME NEW r \in Requests, NEW c \in Candidates, CreateStaticCandidate(r, c) PROVE DraftInv'
  <2> DEFINE x == [pc |-> "find", cands |-> {c}]
  <2>1. x \in Request
    BY DEF Request
  <2>2. /\ req' \in [Requests -> Request]
        /\ req'[r] = x
        /\ \A q \in Requests : q # r => req'[q] = req[q]
    BY <1>1, <2>1, BecomeSetsOne DEF DraftInv, CreateStaticCandidate
  <2>3. /\ image' \in [Candidates -> {"none", "photo", "upload", "video"}]
        /\ image'[c] = "photo" /\ image[c] = "none" /\ c \notin visible
        /\ \A d \in Candidates \ {c} : image'[d] = image[d]
        /\ \A d \in Candidates : d # c => (d \in Active' <=> d \in Active)
        /\ late \subseteq late' /\ late' \subseteq late \cup {c}
        /\ Checking => c \in late'
    BY <1>1 DEF CreateStaticCandidate, LateIfChecking, DraftInv, DraftTypeOK, RowsInv, Active
  <2>4. \A d \in Active : d # c /\ (Good(d) => Good(d)')
    BY <1>1, <2>3 DEF Good, Active, CreateStaticCandidate
  <2>5. DraftTypeOK'
    <3>1. \A q \in Requests : req'[q].pc = "commit" => req'[q].cands \subseteq Active'
      <4>1. x.pc # "commit" /\ Active \subseteq Active'
        BY <2>3, <2>4 DEF Active
      <4> QED
        BY <2>2, <4>1 DEF DraftInv, DraftTypeOK
    <3>2. late' \subseteq Candidates
      BY <2>3 DEF DraftInv, DraftTypeOK
    <3> HIDE DEF x
    <3> QED
      BY <1>1, <2>2, <2>3, <3>1, <3>2 DEF DraftInv, DraftTypeOK, CreateStaticCandidate
  <2>6. RowsInv'
    BY <1>1, <2>3 DEF DraftInv, RowsInv, CreateStaticCandidate
  <2>7. OfferedAreAttributed'
    BY <1>1, <2>3 DEF DraftInv, OfferedAreAttributed, Offered, CreateStaticCandidate, Active
  <2>8. ASSUME NEW q \in Requests PROVE RequestInv(q)'
    <3>1. CASE q = r
      BY <2>2, <2>3, <3>1 DEF RequestInv
    <3>2. CASE q # r
      <4>1. /\ RequestInv(q) /\ req'[q] = req[q] /\ req[q].cands \subseteq Candidates
            /\ req[q].pc = "commit" => req[q].cands \subseteq Active
        BY <2>2, <3>2 DEF DraftInv, DraftTypeOK, Request
      <4>2. req[q].pc \in {"sources", "update"} => c \in late'
        BY <2>3 DEF Checking
      <4>3. c \in late' => Good(c)'
        BY DEF Good
      <4>4. req[q].pc \in {"sources", "update"} => Active' \ req[q].cands \subseteq late'
        BY <2>3, <4>1, <4>2 DEF RequestInv, Active
      <4>5. req[q].pc = "update" => \A d \in req[q].cands \cap Active' : Good(d)'
        BY <2>3, <2>4, <4>1, <4>2, <4>3 DEF RequestInv
      <4>6. req[q].pc = "commit" => \A d \in req[q].cands : Good(d)'
        BY <2>4, <4>1 DEF RequestInv
      <4> QED
        BY <2>3, <4>1, <4>4, <4>5, <4>6 DEF RequestInv
    <3> QED
      BY <3>1, <3>2
  <2> QED
    BY <2>5, <2>6, <2>7, <2>8 DEF DraftInv
<1>2. ASSUME NEW r \in Requests, FindMedia(r) PROVE DraftInv'
  <2>1. [req[r] EXCEPT !.pc = "attribute"] \in Request
    BY DEF DraftInv, DraftTypeOK, Request
  <2>2. \A c \in req[r].cands : image[c] # "none"
    BY <1>2 DEF FindMedia, DraftInv, RequestInv
  <2>3. public' \in BOOLEAN
    BY <1>2 DEF FindMedia, DraftInv, DraftTypeOK
  <2>4. CASE Become(r, Idle)
    BY <1>2, <2>3, <2>4, DraftGoesOn DEF FindMedia
  <2>5. CASE Become(r, [req[r] EXCEPT !.pc = "attribute"])
    <3> DEFINE x == [req[r] EXCEPT !.pc = "attribute"]
    <3>1. x.pc = "attribute" /\ x.cands = req[r].cands
      BY DEF DraftInv, DraftTypeOK, Request
    <3>2. x \in Request /\ Become(r, x)
      BY <2>1, <2>5
    <3> HIDE DEF x
    <3> QED
      BY <1>2, <2>2, <2>3, <3>1, <3>2, DraftGoesOn DEF FindMedia
  <2> QED
    BY <1>2, <2>4, <2>5 DEF FindMedia
<1>3. ASSUME NEW r \in Requests, SaveAttribution(r) PROVE DraftInv'
  <2>1. /\ req' \in [Requests -> Request]
        /\ req'[r] = Idle
        /\ \A q \in Requests : q # r => req'[q] = req[q]
    BY <1>3, BecomeSetsOne DEF DraftInv, SaveAttribution
  <2>2. /\ source' \in [Candidates -> BOOLEAN]
        /\ late \subseteq late' /\ late' \subseteq Candidates
        /\ \A c \in Candidates : /\ source[c] => source'[c]
                                 /\ source'[c] => source[c] \/ image[c] = "photo" \/ c \in late'
                                 /\ image[c] = "none" => (source'[c] <=> source[c])
    <3>1. /\ source' = [c \in Candidates |-> c \in req[r].cands \/ source[c]]
          /\ late' = late \cup {c \in req[r].cands : image[c] # "photo"}
          /\ \A c \in req[r].cands : image[c] # "none"
          /\ req[r].cands \subseteq Candidates
          /\ late \subseteq Candidates
          /\ source \in [Candidates -> BOOLEAN]
      BY <1>3 DEF SaveAttribution, DraftInv, DraftTypeOK, RequestInv, Request
    <3>2. \A c \in Candidates : source'[c] = (c \in req[r].cands \/ source[c])
      BY <3>1, Zenon
    <3>3. source' \in [Candidates -> BOOLEAN]
      BY <3>1
    <3> QED
      BY <3>1, <3>2, <3>3
  <2>3. Active' = Active /\ image' = image /\ visible' = visible /\ chosen' = chosen
    BY <1>3 DEF SaveAttribution, Active
  <2>4. \A c \in Candidates : Good(c) => Good(c)'
    BY <2>2, <2>3 DEF Good
  <2>5. DraftTypeOK'
    BY <1>3, <2>1, <2>2, <2>3 DEF DraftInv, DraftTypeOK, SaveAttribution
  <2>6. RowsInv'
    BY <2>2, <2>3 DEF DraftInv, RowsInv
  <2>7. OfferedAreAttributed'
    BY <2>2, <2>3 DEF DraftInv, OfferedAreAttributed, Offered, Active
  <2>8. ASSUME NEW q \in Requests PROVE RequestInv(q)'
    <3>1. RequestInv(q) /\ req[q].cands \subseteq Candidates
      BY DEF DraftInv, DraftTypeOK, Request
    <3> QED
      BY <2>1, <2>2, <2>3, <2>4, <3>1 DEF RequestInv
  <2> QED
    BY <2>5, <2>6, <2>7, <2>8 DEF DraftInv
<1>4. ASSUME NEW r \in Requests, ReadCandidates(r) PROVE DraftInv'
  <2> DEFINE x == [pc |-> "sources", cands |-> Active]
  <2>1. x \in Request /\ x.pc = "sources" /\ x.cands = Active
    BY DEF Request, Active
  <2>2. Become(r, x) /\ public' \in BOOLEAN
    BY <1>4 DEF ReadCandidates, DraftInv, DraftTypeOK
  <2> HIDE DEF x
  <2> QED
    BY <1>4, <2>1, <2>2, DraftGoesOn DEF ReadCandidates
<1>5. ASSUME NEW r \in Requests, CheckSources(r) PROVE DraftInv'
  <2>1. public' \in BOOLEAN /\ req[r] \in Request
    BY <1>5 DEF CheckSources, DraftInv, DraftTypeOK
  <2>2. CASE \A c \in req[r].cands : source[c]
    <3> DEFINE x == [req[r] EXCEPT !.pc = "update"]
    <3>1. x \in Request /\ x.pc = "update" /\ x.cands = req[r].cands
      BY <2>1 DEF Request
    <3>2. Become(r, x)
      BY <1>5, <2>2 DEF CheckSources
    <3>3. Active \ req[r].cands \subseteq late
      BY <1>5 DEF CheckSources, DraftInv, RequestInv
    <3>4. \A c \in req[r].cands \cap Active : Good(c)
      BY <2>2 DEF Good, Active, DraftInv, DraftTypeOK, RowsInv
    <3> HIDE DEF x
    <3> QED
      BY <1>5, <2>1, <3>1, <3>2, <3>3, <3>4, DraftGoesOn DEF CheckSources
  <2>3. CASE ~\A c \in req[r].cands : source[c]
    BY <1>5, <2>1, <2>3, DraftGoesOn DEF CheckSources
  <2> QED
    BY <2>2, <2>3
<1>6. ASSUME NEW r \in Requests, UpdateCandidates(r) PROVE DraftInv'
  <2> DEFINE x == [pc |-> "commit", cands |-> Active]
  <2>1. x \in Request /\ x.pc = "commit" /\ x.cands = Active
    BY DEF Request, Active
  <2>2. Become(r, x) /\ public' \in BOOLEAN
    BY <1>6 DEF UpdateCandidates, DraftInv, DraftTypeOK
  <2>3. \A c \in Active : Good(c)
    BY <1>6 DEF UpdateCandidates, DraftInv, RequestInv, Good
  <2> HIDE DEF x
  <2> QED
    BY <1>6, <2>1, <2>2, <2>3, DraftGoesOn DEF UpdateCandidates
<1>7. ASSUME NEW r \in Requests, CommitPublication(r) PROVE DraftInv'
  <2>1. /\ req' \in [Requests -> Request]
        /\ req'[r] = Idle
        /\ \A q \in Requests : q # r => req'[q] = req[q]
    BY <1>7, BecomeSetsOne DEF DraftInv, CommitPublication
  <2>2. req[r].cands \subseteq Active /\ \A c \in req[r].cands : Good(c)
    BY <1>7 DEF CommitPublication, DraftInv, DraftTypeOK, RequestInv
  <2>3. Active' = Active /\ \A c \in Candidates : Good(c) => Good(c)'
    BY <1>7 DEF CommitPublication, Active, Good
  <2>4. DraftTypeOK'
    BY <1>7, <2>1, <2>2, <2>3 DEF DraftInv, DraftTypeOK, CommitPublication, Active
  <2>5. RowsInv'
    BY <1>7, <2>2 DEF DraftInv, RowsInv, CommitPublication, Active
  <2>6. OfferedAreAttributed'
    BY <1>7, <2>2, <2>3 DEF DraftInv, OfferedAreAttributed, Offered, Good, CommitPublication
  <2>7. ASSUME NEW q \in Requests PROVE RequestInv(q)'
    <3>1. RequestInv(q) /\ req[q].cands \subseteq Candidates
      BY DEF DraftInv, DraftTypeOK, Request
    <3> QED
      BY <1>7, <2>1, <2>3, <3>1 DEF RequestInv, CommitPublication
  <2> QED
    BY <2>4, <2>5, <2>6, <2>7 DEF DraftInv
<1>8. ASSUME NEW r \in Requests, Fail(r) PROVE DraftInv'
  <2>1. public' \in BOOLEAN
    BY <1>8 DEF Fail, DraftInv, DraftTypeOK
  <2> QED
    BY <1>8, <2>1, DraftGoesOn DEF Fail
<1>9. ASSUME NEW c \in Candidates, NEW x \in {"upload", "video"}, NEW v \in BOOLEAN,
             AddCandidate(c, x, v)
      PROVE DraftInv'
  <2>1. ~Locked(c) /\ ~source[c]
    BY <1>9 DEF AddCandidate, Locked, Active, DraftInv, DraftTypeOK, RowsInv
  <2> QED
    BY <1>9, <2>1, OwnerSaves DEF AddCandidate, DraftInv, DraftTypeOK
<1>10. ASSUME NEW c \in Candidates, NEW v \in BOOLEAN, ReplaceImage(c, v) PROVE DraftInv'
  BY <1>10, OwnerSaves DEF ReplaceImage, DraftInv, DraftTypeOK
<1>11. ASSUME NEW c \in Candidates, NEW v \in BOOLEAN, UpdateCandidate(c, v) PROVE DraftInv'
  <2>1. source[c] /\ image[c] = "upload" => c \in late
    BY DEF DraftInv, RowsInv
  <2> QED
    BY <1>11, <2>1, OwnerSaves DEF UpdateCandidate, DraftInv, DraftTypeOK
<1>12. ASSUME NEW c \in Candidates, NEW v \in BOOLEAN, SetVideo(c, v) PROVE DraftInv'
  BY <1>12, OwnerSaves DEF SetVideo, DraftInv, DraftTypeOK
<1>13. ASSUME NEW c \in Candidates, RemoveCandidate(c) PROVE DraftInv'
  <2>1. Active' = Active \ {c} /\ req' = req /\ Offered' \subseteq Offered
    BY <1>13 DEF RemoveCandidate, Active, Offered
  <2>2. \A d \in Candidates : Good(d) => Good(d)'
    BY <1>13 DEF RemoveCandidate, Good
  <2>3. DraftTypeOK'
    <3>1. \A q \in Requests : req[q].pc = "commit" => req[q].cands \subseteq Active'
      BY <1>13, <2>1 DEF RemoveCandidate, Locked, DraftInv, DraftTypeOK
    <3>2. edits' \in 0..MaxEdits
      BY <1>13, EditsAssumption DEF RemoveCandidate, Edit, DraftInv, DraftTypeOK, EditsAssumption
    <3> QED
      BY <1>13, <2>1, <3>1, <3>2 DEF RemoveCandidate, DraftInv, DraftTypeOK
  <2>4. RowsInv' /\ OfferedAreAttributed'
    BY <1>13, <2>1 DEF RemoveCandidate, DraftInv, RowsInv, OfferedAreAttributed
  <2>5. ASSUME NEW q \in Requests PROVE RequestInv(q)'
    <3>1. RequestInv(q) /\ req[q].cands \subseteq Candidates
      BY DEF DraftInv, DraftTypeOK, Request
    <3> QED
      BY <1>13, <2>1, <2>2, <3>1 DEF RequestInv, RemoveCandidate
  <2> QED
    BY <2>3, <2>4, <2>5 DEF DraftInv
<1>14. ASSUME NEW v \in BOOLEAN, UpdateWorldCup(v) PROVE DraftInv'
  <2>1. Active' = Active /\ Offered' = Offered /\ req' = req
    BY <1>14 DEF UpdateWorldCup, Active, Offered
  <2>2. \A d \in Candidates : Good(d) => Good(d)'
    BY <1>14 DEF UpdateWorldCup, Good
  <2>3. DraftTypeOK'
    BY <1>14, <2>1, EditsAssumption
       DEF UpdateWorldCup, Edit, DraftInv, DraftTypeOK, EditsAssumption
  <2>4. RowsInv' /\ OfferedAreAttributed'
    BY <1>14, <2>1 DEF UpdateWorldCup, DraftInv, RowsInv, OfferedAreAttributed
  <2>5. ASSUME NEW q \in Requests PROVE RequestInv(q)'
    <3>1. RequestInv(q) /\ req[q].cands \subseteq Candidates
      BY DEF DraftInv, DraftTypeOK, Request
    <3> QED
      BY <1>14, <2>1, <2>2, <3>1 DEF RequestInv, UpdateWorldCup
  <2> QED
    BY <2>3, <2>4, <2>5 DEF DraftInv
<1> QED
  BY <1>1, <1>2, <1>3, <1>4, <1>5, <1>6, <1>7, <1>8, <1>9, <1>10, <1>11, <1>12, <1>13, <1>14
     DEF DraftNext, Automation, Owner
-----------------------------------------------------------------------------
(* The answers of a round so far are as many slices of it, without a loser.   *)
SlicesInv ==
  /\ game.pc # "none" => game.round \in SUPPORTED_ROUNDS
  /\ game.pc \in {"fetch", "play"} => game.slices # 0
  /\ game.slices = 0 => game.served = 0 /\ game.got = {}
  /\ game.slices # 0 => /\ game.round % game.slices = 0
                        /\ Cardinality(game.got) = game.served * ContentsCount
  /\ game.pc \in {"count", "fetch"} /\ game.slices # 0 => game.served < game.slices
  /\ game.pc = "play" => game.served = game.slices
  /\ game.got \cap game.out = {}

(* As long as nothing was withdrawn, enough candidates are left.              *)
EnoughInv ==
  /\ game.pc = "refused" => shrunk
  /\ game.pc # "none" /\ ~shrunk => /\ public
                                   /\ game.got \subseteq Offered
                                   /\ Cardinality(Offered \ game.out) >= game.round

(* As long as no others were offered, a round is drawn among as many          *)
(* candidates as it has, the winners of the one before.                       *)
DrawnFrom(A) == /\ Cardinality(A) = game.round
                /\ Offered \ game.out \subseteq A
                /\ game.got \subseteq A
                /\ game.winners # {} => A = game.winners
WinnersInv == game.pc # "none" /\ ~spare => \E A \in SUBSET Candidates : DrawnFrom(A)

Types == game \in Game /\ shrunk \in BOOLEAN /\ spare \in BOOLEAN
GameInv == /\ Types
           /\ game.pc = "none" => game = NoGame
           /\ SlicesInv
           /\ EnoughInv
           /\ WinnersInv

(* Sets of candidates are finite, and a larger one has no fewer members.      *)
LEMMA Finite ==
  ASSUME NEW S \in SUBSET Candidates
  PROVE  IsFiniteSet(S) /\ Cardinality(S) \in Nat
<1>1. IsFiniteSet(S)
  BY CandidatesAssumption, FS_Subset DEF CandidatesAssumption
<1> QED
  BY <1>1, FS_CardinalityType

LEMMA Fewer ==
  ASSUME NEW S \in SUBSET Candidates, NEW T \in SUBSET S
  PROVE  /\ Cardinality(S) \in Nat /\ Cardinality(T) \in Nat
         /\ Cardinality(T) <= Cardinality(S)
         /\ Cardinality(T) = Cardinality(S) => T = S
         /\ Cardinality(S \ T) = Cardinality(S) - Cardinality(T)
<1>1. /\ IsFiniteSet(S) /\ Cardinality(S) \in Nat
      /\ T \in SUBSET Candidates /\ S \cap T = T
  BY Finite
<1>2. Cardinality(T) \in Nat
  BY <1>1, Finite
<1>3. Cardinality(T) <= Cardinality(S) /\ (Cardinality(S) = Cardinality(T) => S = T)
  BY <1>1, FS_Subset
<1>4. Cardinality(S \ T) = Cardinality(S) - Cardinality(S \cap T)
  BY <1>1, FS_Difference
<1> QED
  BY <1>1, <1>2, <1>3, <1>4

(* A game that has not begun is one.                                          *)
LEMMA NoGameIsGame == NoGame \in Game
<1>1. 0 \in 0..MaxSlices
  BY RoundsAssumption DEF RoundsAssumption
<1> QED
  BY <1>1 DEF NoGame, Game

(* What every game has: a positive round, and slices that make it up.         *)
LEMMA Rounds ==
  ASSUME Types, SlicesInv, game.pc # "none"
  PROVE  /\ game.round \in Nat \ {0}
         /\ game.slices \in Nat /\ game.served \in Nat
         /\ game.slices # 0 => /\ ContentsCount \in Nat
                              /\ game.slices * ContentsCount = game.round
         /\ game.got \subseteq Candidates /\ game.out \subseteq Candidates
         /\ game.winners \subseteq Candidates
<1>1. /\ game.round \in Nat \ {0}
      /\ game.slices \in Nat /\ game.served \in Nat
      /\ game.got \subseteq Candidates /\ game.out \subseteq Candidates
      /\ game.winners \subseteq Candidates
  <2>1. game.slices \in 0..MaxSlices /\ game.served \in 0..MaxSlices /\ MaxSlices \in Nat
    BY RoundsAssumption DEF Types, Game, RoundsAssumption
  <2>2. game.round \in SUPPORTED_ROUNDS
    BY DEF SlicesInv
  <2>3. game.round \in Nat \ {0}
    BY <2>2, RoundsAssumption DEF RoundsAssumption
  <2>4. /\ game.got \subseteq Candidates /\ game.out \subseteq Candidates
        /\ game.winners \subseteq Candidates
    BY DEF Types, Game
  <2> QED
    BY <2>1, <2>3, <2>4
<1>2. game.slices # 0 => game.round % game.slices = 0
  BY DEF SlicesInv
<1>3. ASSUME NEW n \in Nat, NEW s \in Nat \ {0}, n % s = 0 PROVE n \div s \in Nat /\ s * (n \div s) = n
  BY <1>3, SMTT(30)
<1> QED
  BY <1>1, <1>2, <1>3 DEF ContentsCount

(* Initially there is no game.                                                *)
LEMMA GameStart == ASSUME Init PROVE GameInv
<1>1. /\ NoGame \in Game /\ game = NoGame /\ game.pc = "none" /\ game.slices = 0 /\ game.served = 0
      /\ game.got = {} /\ shrunk = FALSE /\ spare = FALSE
  BY NoGameIsGame DEF Init, NoGame
<1> QED
  BY <1>1 DEF GameInv, Types, SlicesInv, EnoughInv, WinnersInv

(* Edits leave the game alone, and say when they withdraw or add something.   *)
LEMMA GameChanges == ASSUME GameInv, Change PROVE GameInv'
<1>1. game' = game /\ Types' /\ SlicesInv' /\ (game.pc = "none" => game = NoGame)
  BY DEF GameInv, Types, Change, SlicesInv, ContentsCount
<1>2. game.pc # "none" => game # NoGame
  BY DEF NoGame
<1>3. ASSUME game.pc # "none" PROVE EnoughInv'
  <2>1. shrunk => shrunk'
    BY <1>2, <1>3 DEF Change
  <2>2. ~shrunk' => Offered \subseteq Offered' /\ public'
    BY <1>2, <1>3 DEF Change, Withdrawn, GameInv, Types, EnoughInv
  <2>3. Offered' \subseteq Candidates /\ game.out \subseteq Candidates /\ game.round \in Nat
    BY <1>3, Rounds DEF Offered, Active, GameInv
  <2>4. Offered \subseteq Offered' => Cardinality(Offered \ game.out) <= Cardinality(Offered' \ game.out)
    <3>1. SUFFICES ASSUME Offered \subseteq Offered'
                   PROVE  Cardinality(Offered \ game.out) <= Cardinality(Offered' \ game.out)
      OBVIOUS
    <3>2. /\ Offered' \ game.out \in SUBSET Candidates
          /\ Offered \ game.out \in SUBSET (Offered' \ game.out)
      BY <2>3, <3>1
    <3> QED
      BY <3>2, Fewer
  <2>5. Cardinality(Offered' \ game.out) \in Nat /\ Cardinality(Offered \ game.out) \in Nat
    <3>1. Offered' \ game.out \in SUBSET Candidates /\ Offered \ game.out \in SUBSET Candidates
      BY <2>3 DEF Offered, Active
    <3> QED
      BY <3>1, Finite
  <2> QED
    BY <1>1, <1>3, <2>1, <2>2, <2>3, <2>4, <2>5 DEF GameInv, EnoughInv
<1>4. ASSUME game.pc # "none" PROVE WinnersInv'
  <2>1. ~spare' => ~spare /\ Offered' \subseteq Offered
    BY <1>2, <1>4 DEF Change, Joined
  <2>2. ASSUME ~spare' PROVE \E A \in SUBSET Candidates : DrawnFrom(A)'
    <3>1. PICK A \in SUBSET Candidates : DrawnFrom(A)
      BY <1>4, <2>1, <2>2 DEF GameInv, WinnersInv
    <3> QED
      BY <1>1, <2>1, <2>2, <3>1 DEF DrawnFrom
  <2> QED
    BY <2>2 DEF WinnersInv
<1>5. game.pc = "none" => EnoughInv' /\ WinnersInv'
  BY <1>1 DEF EnoughInv, WinnersInv
<1> QED
  BY <1>1, <1>3, <1>4, <1>5 DEF GameInv

(* What the player and findContents do.                                       *)
LEMMA GamePlays == ASSUME GameInv, Play PROVE GameInv'
<1> USE DEF GameInv
<1>1. ASSUME NEW n \in SUPPORTED_ROUNDS, FindAvailableRounds(n) PROVE GameInv'
  <2>1. /\ game' \in Game
        /\ game'.pc = "count" /\ game'.round = n /\ game'.slices = 0 /\ game'.served = 0
        /\ game'.out = {} /\ game'.winners = {} /\ game'.got = {}
    <3>1. game' = [NoGame EXCEPT !.pc = "count", !.round = n]
      BY <1>1 DEF FindAvailableRounds
    <3>2. [NoGame EXCEPT !.pc = "count", !.round = n] \in Game
      BY NoGameIsGame DEF Game
    <3> QED
      BY <3>1, <3>2 DEF NoGame
  <2>2. Offered' = Offered /\ public' = public /\ Offered \subseteq Candidates
    BY <1>1 DEF FindAvailableRounds, draft, Offered, Active
  <2>3. n \in Nat /\ Cardinality(Offered) \in Nat
    <3>1. Offered \in SUBSET Candidates
      BY <2>2
    <3> QED
      BY <3>1, Finite, RoundsAssumption DEF RoundsAssumption
  <2>4. Types' /\ SlicesInv'
    <3>1. spare' = (n < Cardinality(Offered)) /\ shrunk' = FALSE
      BY <1>1 DEF FindAvailableRounds
    <3>2. spare' \in BOOLEAN
      <4>1. ASSUME NEW x, NEW k \in Nat, NEW l \in Nat, x = (k < l) PROVE x \in BOOLEAN
        BY <4>1
      <4> QED
        BY <2>3, <3>1, <4>1, Zenon
    <3>3. Types'
      BY <2>1, <3>1, <3>2 DEF Types
    <3>4. SlicesInv'
      BY <2>1 DEF SlicesInv
    <3> QED
      BY <3>3, <3>4
  <2>5. EnoughInv'
    <3>1. Offered \ {} = Offered
      OBVIOUS
    <3> QED
      BY <1>1, <2>1, <2>2, <2>3, <3>1 DEF EnoughInv, FindAvailableRounds
  <2>6. ~spare' => Cardinality(Offered) = n
    <3>1. spare' = (n < Cardinality(Offered)) /\ n <= Cardinality(Offered)
      BY <1>1 DEF FindAvailableRounds
    <3>2. ~spare' => ~(n < Cardinality(Offered))
      BY <3>1, Zenon
    <3>3. ~(n < Cardinality(Offered)) => Cardinality(Offered) = n
      BY <2>3, <3>1
    <3> QED
      BY <3>2, <3>3
  <2>7. WinnersInv'
    BY <2>1, <2>2, <2>6 DEF WinnersInv, DrawnFrom
  <2> QED
    BY <2>1, <2>4, <2>5, <2>7
<1>2. ASSUME NEW s \in 1..MaxSlices, CountCandidates(s) PROVE GameInv'
  <2>1. /\ game' \in Game
        /\ game'.pc = (IF public /\ Cardinality(Offered) >= game.round THEN "fetch" ELSE "refused")
        /\ game'.round = game.round /\ game'.slices = s /\ game'.served = game.served
        /\ game'.out = game.out /\ game'.winners = game.winners /\ game'.got = game.got
    <3> DEFINE x == IF public /\ Cardinality(Offered) >= game.round THEN "fetch" ELSE "refused"
    <3>1. game' = [game EXCEPT !.pc = x, !.slices = s] /\ game \in Game
      BY <1>2 DEF CountCandidates, Types
    <3>2. x \in {"fetch", "refused"} /\ s \in 0..MaxSlices
      BY RoundsAssumption DEF RoundsAssumption
    <3> HIDE DEF x
    <3>3. /\ game' \in Game /\ game'.pc = x
          /\ game'.round = game.round /\ game'.slices = s /\ game'.served = game.served
          /\ game'.out = game.out /\ game'.winners = game.winners /\ game'.got = game.got
      BY <3>1, <3>2 DEF Game
    <3> QED
      BY <3>3 DEF x
  <2>2. /\ Offered' = Offered /\ public' = public /\ shrunk' = shrunk /\ spare' = spare
        /\ Offered \subseteq Candidates /\ game.pc = "count"
    BY <1>2 DEF CountCandidates, draft, history, Offered, Active
  <2>3. game.round \in Nat \ {0} /\ s \in Nat \ {0} /\ game.served \in Nat
    BY <2>2, Rounds
  <2>4. SlicesInv'
    <3>1. CASE game.slices = s
      BY <1>2, <2>1, <2>2, <2>3, <3>1 DEF SlicesInv, ContentsCount, CountCandidates
    <3>2. CASE game.slices = 0
      <4>1. game.served = 0 /\ game.got = {} /\ Cardinality({}) = 0
        BY <3>2, FS_EmptySet DEF SlicesInv
      <4>2. ContentsCount' \in Nat
        BY <2>1, <2>3, SMTT(30) DEF ContentsCount
      <4>3. ASSUME NEW k \in Nat PROVE 0 = 0 * k
        OBVIOUS
      <4>4. 0 = 0 * ContentsCount'
        BY <4>2, <4>3, Zenon
      <4>5. game'.served = 0 /\ game'.got = {} /\ game'.slices = s /\ game'.round = game.round
        BY <2>1, <4>1
      <4>6. Cardinality(game'.got) = game'.served * ContentsCount'
        BY <4>1, <4>4, <4>5, Zenon
      <4>7. game'.round \in SUPPORTED_ROUNDS /\ game'.round % game'.slices = 0
        BY <1>2, <2>2, <4>5 DEF CountCandidates, SlicesInv
      <4>8. s # 0 /\ 0 < s
        BY <2>3
      <4> QED
        BY <2>1, <4>5, <4>6, <4>7, <4>8 DEF SlicesInv
    <3> QED
      BY <1>2, <3>1, <3>2 DEF CountCandidates
  <2>5. EnoughInv'
    <3>1. Offered \in SUBSET Candidates /\ Offered \ game.out \in SUBSET Offered
      BY <2>2
    <3>2. /\ Cardinality(Offered \ game.out) <= Cardinality(Offered)
          /\ Cardinality(Offered \ game.out) \in Nat /\ Cardinality(Offered) \in Nat
      BY <3>1, Fewer
    <3> QED
      BY <2>1, <2>2, <2>3, <3>2 DEF EnoughInv
  <2>6. WinnersInv'
    BY <2>1, <2>2 DEF WinnersInv, DrawnFrom
  <2> QED
    BY <1>2, <2>1, <2>2, <2>4, <2>5, <2>6 DEF Types
<1>3. ASSUME NEW S \in SUBSET Candidates, FetchContents(S) PROVE GameInv'
  <2> DEFINE Left == Offered \ ExcludedContents
  <2>1. /\ Offered' = Offered /\ public' = public /\ shrunk' = shrunk /\ spare' = spare
        /\ Offered \subseteq Candidates /\ game.pc = "fetch"
    BY <1>3 DEF FetchContents, draft, history, Offered, Active
  <2>2. /\ game.round \in Nat \ {0} /\ game.slices \in Nat \ {0} /\ game.served \in Nat
        /\ ContentsCount \in Nat /\ game.slices * ContentsCount = game.round
        /\ game.got \subseteq Candidates /\ game.out \subseteq Candidates
        /\ game.served < game.slices
        /\ Cardinality(game.got) = game.served * ContentsCount
        /\ game.served + 1 \in 0..MaxSlices
    <3>1. game.slices # 0
      BY <2>1 DEF SlicesInv
    <3>2. game.slices \in 0..MaxSlices /\ MaxSlices \in Nat
      BY RoundsAssumption DEF Types, Game, RoundsAssumption
    <3> QED
      BY <2>1, <3>1, <3>2, Rounds DEF SlicesInv
  <2>3. CASE EnoughContents(Left)
    <3>1. /\ S \subseteq Left /\ Cardinality(S) = ContentsCount
          /\ game' = [game EXCEPT !.got = @ \cup S, !.served = @ + 1,
                        !.pc = IF game.served + 1 = game.slices THEN "play" ELSE "count"]
      BY <1>3, <2>3 DEF FetchContents
    <3>2. /\ game' \in Game
          /\ game'.pc = (IF game.served + 1 = game.slices THEN "play" ELSE "count")
          /\ game'.round = game.round /\ game'.slices = game.slices /\ game'.served = game.served + 1
          /\ game'.out = game.out /\ game'.winners = game.winners /\ game'.got = game.got \cup S
      BY <2>2, <3>1 DEF Game, Types
    <3>3. S \cap game.got = {} /\ S \cap game.out = {} /\ S \subseteq Offered
      BY <3>1 DEF ExcludedContents
    <3>4. Cardinality(game.got \cup S) = game.served * ContentsCount + ContentsCount
      <4>1. /\ IsFiniteSet(S) /\ IsFiniteSet(game.got)
            /\ Cardinality(S) \in Nat /\ Cardinality(game.got) \in Nat
        BY <2>2, Finite
      <4>2. game.got \cap S = {} /\ Cardinality({}) = 0
        BY <3>3, FS_EmptySet
      <4>3. Cardinality(game.got \cup S)
              = Cardinality(game.got) + Cardinality(S) - Cardinality(game.got \cap S)
        BY <4>1, FS_Union
      <4>4. Cardinality(game.got \cup S) = Cardinality(game.got) + Cardinality(S)
        BY <4>1, <4>2, <4>3
      <4> QED
        BY <2>2, <3>1, <4>4
    <3>5. SlicesInv'
      <4>1. ContentsCount' = ContentsCount
        BY <3>2 DEF ContentsCount
      <4>2. (game.served + 1) * ContentsCount = game.served * ContentsCount + ContentsCount
        BY <2>2
      <4>3. game.got' \cap game.out' = {} /\ game.round \in SUPPORTED_ROUNDS
            /\ game.round % game.slices = 0
        BY <2>1, <2>2, <3>2, <3>3 DEF SlicesInv
      <4> QED
        BY <2>2, <3>2, <3>4, <4>1, <4>2, <4>3 DEF SlicesInv
    <3>6. EnoughInv'
      BY <2>1, <3>2, <3>3 DEF EnoughInv
    <3>7. WinnersInv'
      <4>1. ASSUME NEW A \in SUBSET Candidates, DrawnFrom(A) PROVE DrawnFrom(A)'
        BY <2>1, <3>2, <3>3, <4>1 DEF DrawnFrom
      <4> QED
        BY <2>1, <3>2, <4>1 DEF WinnersInv
    <3> QED
      BY <2>1, <3>2, <3>5, <3>6, <3>7 DEF Types
  <2>4. CASE ~EnoughContents(Left)
    <3>1. game' = [game EXCEPT !.pc = "refused"]
      BY <1>3, <2>4 DEF FetchContents
    <3>2. /\ game' \in Game /\ game'.pc = "refused"
          /\ game'.round = game.round /\ game'.slices = game.slices /\ game'.served = game.served
          /\ game'.out = game.out /\ game'.winners = game.winners /\ game'.got = game.got
      BY <3>1 DEF Game, Types
    <3>3. SlicesInv'
      <4>1. ContentsCount' = ContentsCount
        BY <3>2 DEF ContentsCount
      <4> QED
        BY <2>1, <2>2, <3>2, <4>1 DEF SlicesInv
    <3>4. ASSUME ~shrunk PROVE FALSE
      <4>1. game.got \subseteq Offered \ game.out /\ Cardinality(Offered \ game.out) >= game.round
        BY <2>1, <3>4 DEF EnoughInv, SlicesInv
      <4>2. Left = (Offered \ game.out) \ game.got
        BY DEF ExcludedContents
      <4>3. Offered \ game.out \in SUBSET Candidates
        BY <2>1
      <4>4. /\ Cardinality(Left) = Cardinality(Offered \ game.out) - Cardinality(game.got)
            /\ Cardinality(Offered \ game.out) \in Nat
        BY <4>1, <4>2, <4>3, Fewer
      <4>5. game.served * ContentsCount + ContentsCount <= game.slices * ContentsCount
        BY <2>2
      <4>6. game.served * ContentsCount \in Nat
        BY <2>2
      <4>7. Cardinality(Left) >= ContentsCount
        BY <2>2, <4>1, <4>4, <4>5, <4>6
      <4> QED
        BY <2>4, <4>7 DEF EnoughContents
    <3>5. EnoughInv' /\ WinnersInv'
      BY <2>1, <3>2, <3>4 DEF EnoughInv, WinnersInv, DrawnFrom
    <3> QED
      BY <2>1, <3>2, <3>3, <3>5 DEF Types
  <2> QED
    BY <2>3, <2>4
<1>4. ASSUME NEW W \in SUBSET Candidates, NextRound(W) PROVE GameInv'
  <2>1. /\ Offered' = Offered /\ public' = public /\ shrunk' = shrunk /\ spare' = spare
        /\ Offered \subseteq Candidates /\ game.pc = "play" /\ W \subseteq game.got
        /\ Cardinality(W) = game.round \div 2 /\ game.round > 2
    BY <1>4 DEF NextRound, draft, history, Offered, Active
  <2>2. /\ game.round \in Nat \ {0} /\ Cardinality(game.got) = game.round
        /\ game.got \subseteq Candidates /\ game.out \subseteq Candidates
        /\ game.round \in SUPPORTED_ROUNDS
    BY <2>1, Rounds DEF SlicesInv
  <2>3. game.round \div 2 \in SUPPORTED_ROUNDS /\ game.round % 2 = 0
    BY <2>1, <2>2, RoundsAssumption DEF RoundsAssumption
  <2>4. game.round \div 2 \in Nat \ {0} /\ game.round - (game.round \div 2) = game.round \div 2
    BY <2>1, <2>2, <2>3
  <2>5. /\ game'.pc = "count" /\ game'.round = game.round \div 2
        /\ game'.slices = 0 /\ game'.served = 0 /\ game'.got = {}
        /\ game'.out = game.out \cup (game.got \ W) /\ game'.winners = W
        /\ game' \in Game
    <3>1. game' = [NoGame EXCEPT !.pc = "count", !.round = game.round \div 2, !.winners = W,
                                 !.out = game.out \cup (game.got \ W)]
      BY <1>4 DEF NextRound
    <3>2. game.out \cup (game.got \ W) \in SUBSET Candidates /\ W \in SUBSET Candidates
      BY <2>2
    <3>3. game' \in Game
      BY <2>3, <3>1, <3>2, NoGameIsGame DEF Game
    <3> QED
      BY <3>1, <3>3 DEF NoGame
  <2>6. SlicesInv'
    BY <2>3, <2>5 DEF SlicesInv
  <2>7. ASSUME ~shrunk PROVE Cardinality(Offered \ game'.out) >= game.round \div 2
    <3>1. /\ game.got \subseteq Offered \ game.out
          /\ Cardinality(Offered \ game.out) >= game.round
      BY <2>1, <2>7 DEF EnoughInv, SlicesInv
    <3>2. Offered \ game'.out = (Offered \ game.out) \ (game.got \ W)
      BY <2>5
    <3>3. Cardinality(game.got \ W) = game.round \div 2
      <4>1. game.got \in SUBSET Candidates /\ W \in SUBSET game.got
        BY <2>1, <2>2
      <4>2. Cardinality(game.got \ W) = Cardinality(game.got) - Cardinality(W)
        BY <4>1, Fewer
      <4> QED
        BY <2>1, <2>2, <2>4, <4>2
    <3>4. /\ Cardinality(Offered \ game'.out) = Cardinality(Offered \ game.out) - (game.round \div 2)
          /\ Cardinality(Offered \ game.out) \in Nat
      <4>1. Offered \ game.out \in SUBSET Candidates /\ game.got \ W \in SUBSET (Offered \ game.out)
        BY <2>1, <3>1
      <4>2. /\ Cardinality((Offered \ game.out) \ (game.got \ W))
                 = Cardinality(Offered \ game.out) - Cardinality(game.got \ W)
            /\ Cardinality(Offered \ game.out) \in Nat
        BY <4>1, Fewer
      <4> QED
        BY <3>2, <3>3, <4>2
    <3> QED
      BY <2>2, <2>4, <3>1, <3>4
  <2>8. EnoughInv'
    BY <2>1, <2>5, <2>7 DEF EnoughInv
  <2>9. WinnersInv'
    <3>1. ASSUME NEW A \in SUBSET Candidates, DrawnFrom(A) PROVE DrawnFrom(W)'
      <4>1. A = game.got
        <5>1. game.got \in SUBSET A /\ Cardinality(A) = Cardinality(game.got)
          BY <2>2, <3>1 DEF DrawnFrom
        <5> QED
          BY <5>1, Fewer
      <4> QED
        BY <2>1, <2>5, <3>1, <4>1 DEF DrawnFrom
    <3> QED
      BY <2>1, <3>1 DEF WinnersInv
  <2> QED
    BY <2>1, <2>5, <2>6, <2>8, <2>9 DEF Types
<1>5. ASSUME GameOver PROVE GameInv'
  <2>1. /\ NoGame \in Game /\ game' = NoGame /\ game'.pc = "none" /\ game'.slices = 0
        /\ game'.served = 0 /\ game'.got = {} /\ shrunk' = FALSE /\ spare' = FALSE
    BY <1>5, NoGameIsGame DEF GameOver, NoGame
  <2> QED
    BY <2>1 DEF Types, SlicesInv, EnoughInv, WinnersInv
<1> QED
  BY <1>1, <1>2, <1>3, <1>4, <1>5 DEF Play

(* The inductive invariant of the composition.                                *)
IInv == DraftInv /\ GameInv

LEMMA Invariance == Spec => []IInv
<1>1. Init => IInv
  BY DraftStart, GameStart DEF Init, IInv
<1>2. IInv /\ [Next]_vars => IInv'
  <2>1. CASE Change
    BY <2>1, DraftStep, GameChanges DEF IInv, Change
  <2>2. CASE IInv /\ Play
    <3>1. UNCHANGED draft
      BY <2>2 DEF Play, FindAvailableRounds, CountCandidates, FetchContents, NextRound, GameOver
    <3>2. DraftInv'
      BY <2>2, <3>1 DEF IInv, draft, DraftInv, DraftTypeOK, RowsInv, RequestInv, Good,
                        OfferedAreAttributed, Offered, Active
    <3> QED
      BY <2>2, <3>2, GamePlays DEF IInv
  <2>3. CASE IInv /\ UNCHANGED vars
    BY <2>3 DEF IInv, vars, draft, DraftInv, DraftTypeOK, RowsInv, RequestInv, Good,
                OfferedAreAttributed, Offered, Active, GameInv, Types, SlicesInv, ContentsCount,
                EnoughInv, WinnersInv, DrawnFrom
  <2> QED
    BY <2>1, <2>2, <2>3 DEF Next
<1> QED
  BY <1>1, <1>2, PTL DEF Spec

(* Type correctness.                                                          *)
THEOREM TypeCorrect == Spec => []TypeOK
<1>1. IInv => TypeOK
  BY DEF IInv, DraftInv, GameInv, Types, TypeOK
<1> QED
  BY <1>1, Invariance, PTL

(* What players are offered was attributed, but for the exceptions it names.  *)
THEOREM PublishedWithSource == Spec => []OfferedAreAttributed
<1>1. IInv => OfferedAreAttributed
  BY DEF IInv, DraftInv
<1> QED
  BY <1>1, Invariance, PTL

(* A round that is played is complete and has no loser in it.                 *)
THEOREM CompleteRounds == Spec => []RoundsComplete
<1>1. IInv => RoundsComplete
  BY Rounds DEF IInv, GameInv, SlicesInv, RoundsComplete
<1> QED
  BY <1>1, Invariance, PTL

(* A game goes on to its end unless something was withdrawn.                  *)
THEOREM NeverRefused == Spec => []RefusedOnlyIfWithdrawn
<1>1. IInv => RefusedOnlyIfWithdrawn
  BY DEF IInv, GameInv, EnoughInv, RefusedOnlyIfWithdrawn
<1> QED
  BY <1>1, Invariance, PTL

(* Only winners go on, unless others than the first round's were offered.     *)
THEOREM OnlyWinnersGoOn == Spec => []WinnersGoOn
<1>1. IInv => WinnersGoOn
  BY DEF IInv, GameInv, NoGame, WinnersInv, DrawnFrom, WinnersGoOn
<1> QED
  BY <1>1, Invariance, PTL
-----------------------------------------------------------------------------
(* What is recorded of a game is forgotten with it, and a round that a player *)
(* has is whole: as many candidates as it says, all winners' if none joined.  *)
Forgotten == game.pc = "none" => shrunk = FALSE /\ spare = FALSE
Whole == game.pc = "play" =>
           /\ Cardinality(game.got) = game.round /\ game.got \cap game.out = {}
           /\ game.winners = {} \/ game.got = game.winners \/ spare
RInv == IInv /\ Forgotten /\ Whole

(* The slices make up the round, and a set as large as the winners among them *)
(* is all of them.                                                            *)
LEMMA WholeRounds == IInv => Whole
<1> SUFFICES ASSUME IInv, game.pc = "play"
             PROVE  /\ Cardinality(game.got) = game.round /\ game.got \cap game.out = {}
                    /\ game.winners = {} \/ game.got = game.winners \/ spare
  BY DEF Whole
<1>1. Cardinality(game.got) = game.round /\ game.got \cap game.out = {}
  BY Rounds DEF IInv, GameInv, SlicesInv
<1>2. ASSUME ~spare, game.winners # {} PROVE game.got = game.winners
  <2>1. PICK A \in SUBSET Candidates : DrawnFrom(A)
    BY <1>2 DEF IInv, GameInv, WinnersInv
  <2>2. PICK G : G = game.got
    OBVIOUS
  <2>3. A = game.winners /\ G \in SUBSET A /\ Cardinality(G) = Cardinality(A)
    BY <1>1, <1>2, <2>1, <2>2 DEF DrawnFrom
  <2>4. G = A
    BY <2>3, Fewer
  <2> QED
    BY <2>2, <2>3, <2>4
<1> QED
  BY <1>1, <1>2

(* A game that is over has no history: the invariant of the refinement.       *)
LEMMA GamesAreForgotten == Spec => []RInv
<1>1. Init => Forgotten
  BY DEF Init, Forgotten
<1>2. IInv /\ Forgotten /\ [Next]_vars => Forgotten'
  <2> SUFFICES ASSUME IInv, Forgotten, [Next]_vars PROVE Forgotten'
    OBVIOUS
  <2>1. CASE Change
    <3>1. game' = game /\ (game.pc = "none" => game = NoGame)
      BY <2>1 DEF Change, IInv, GameInv
    <3>2. game = NoGame => shrunk' = FALSE /\ spare' = FALSE
      BY <2>1 DEF Change
    <3> QED
      BY <3>1, <3>2 DEF Forgotten
  <2>2. CASE GameOver
    BY <2>2 DEF GameOver, Forgotten
  <2>3. ASSUME NEW n \in SUPPORTED_ROUNDS, FindAvailableRounds(n) PROVE Forgotten'
    BY <2>3 DEF FindAvailableRounds, NoGame, Forgotten
  <2>4. ASSUME NEW s \in 1..MaxSlices, CountCandidates(s) PROVE Forgotten'
    <3>1. game'.pc # "none"
      BY <2>4 DEF CountCandidates, IInv, GameInv, Types, Game
    <3> QED
      BY <3>1 DEF Forgotten
  <2>5. ASSUME NEW S \in SUBSET Candidates, FetchContents(S) PROVE Forgotten'
    <3>1. game'.pc # "none"
      BY <2>5 DEF FetchContents, IInv, GameInv, Types, Game
    <3> QED
      BY <3>1 DEF Forgotten
  <2>6. ASSUME NEW W \in SUBSET Candidates, NextRound(W) PROVE Forgotten'
    <3>1. game'.pc # "none"
      BY <2>6 DEF NextRound, NoGame
    <3> QED
      BY <3>1 DEF Forgotten
  <2>7. CASE UNCHANGED vars
    BY <2>7 DEF vars, Forgotten
  <2> QED
    BY <2>1, <2>2, <2>3, <2>4, <2>5, <2>6, <2>7 DEF Next, Play
<1> QED
  BY <1>1, <1>2, Invariance, WholeRounds, PTL DEF Spec, RInv

(* Initially no game is on.                                                   *)
LEMMA TournamentStart == ASSUME Init PROVE Promised!Init
  BY DEF Init, NoGame, Promised!Init, Phase, Hand

(* A hand is counted the same in both modules.                                *)
LEMMA SameCount == \A S : Promised!Cardinality(S) = Cardinality(S)
  BY Zenon DEF Promised!Cardinality, Cardinality

(* A flag that is never taken back.                                           *)
LEMMA Raised == ASSUME NEW a \in BOOLEAN, NEW b \in BOOLEAN, a => b PROVE b \in {a, TRUE}
  OBVIOUS

(* Edits during a game are edits of the tournament, others are nothing to it. *)
LEMMA ChangesRefine == ASSUME RInv, RInv', Change PROVE [Promised!Next]_(Promised!vars)
<1>1. game' = game /\ Phase' = Phase /\ Hand' = Hand
  BY DEF Change, Phase, Hand
<1>2. CASE game.pc = "none"
  <2>1. shrunk' = shrunk /\ spare' = spare
    BY <1>1, <1>2 DEF RInv, Forgotten
  <2> QED
    BY <1>1, <2>1 DEF Promised!vars
<1>3. CASE game.pc # "none"
  <2>1. game # NoGame /\ shrunk \in BOOLEAN /\ spare \in BOOLEAN
        /\ shrunk' \in BOOLEAN /\ spare' \in BOOLEAN
    BY <1>3 DEF RInv, IInv, GameInv, Types, NoGame
  <2>2. (shrunk => shrunk') /\ (spare => spare')
    BY <2>1, Zenon DEF Change
  <2>3. shrunk' \in {shrunk, TRUE} /\ spare' \in {spare, TRUE}
    BY <2>1, <2>2, Raised, Zenon
  <2>4. Phase # "over"
    BY <1>3 DEF Phase, RInv, IInv, GameInv, Types, Game
  <2>5. Promised!Edit
    BY <1>1, <2>3, <2>4 DEF Promised!Edit
  <2> QED
    BY <2>5 DEF Promised!Next
<1> QED
  BY <1>2, <1>3

(* The last slice draws a round, a refusal is one, the others are nothing yet. *)
LEMMA RequestsRefine ==
  ASSUME RInv, RInv', Play
  PROVE  [Promised!Next]_(Promised!vars)
<1>1. ASSUME NEW n \in SUPPORTED_ROUNDS, FindAvailableRounds(n) PROVE Promised!Begin(n)
  <2>1. /\ game.pc = "none" /\ game = NoGame /\ shrunk = FALSE /\ spare = FALSE
        /\ game' = [NoGame EXCEPT !.pc = "count", !.round = n] /\ shrunk' = FALSE
        /\ spare' \in BOOLEAN
    BY <1>1 DEF FindAvailableRounds, RInv, Forgotten, IInv, GameInv, Types
  <2>2. /\ game'.pc = "count" /\ game'.round = n /\ game'.out = game.out
        /\ game'.winners = game.winners
    BY <2>1 DEF NoGame
  <2>3. Phase = "over" /\ Phase' = "open" /\ Hand = {} /\ Hand' = {}
    BY <2>1, <2>2 DEF Phase, Hand
  <2> QED
    BY <2>1, <2>2, <2>3 DEF Promised!Begin
<1>2. ASSUME game.pc \in {"count", "fetch"}, UNCHANGED history, game'.pc \in {"count", "fetch"},
             game'.round = game.round, game'.out = game.out, game'.winners = game.winners
      PROVE  UNCHANGED Promised!vars
  <2>1. Phase = "open" /\ Phase' = "open" /\ Hand = {} /\ Hand' = {}
    BY <1>2 DEF Phase, Hand
  <2> QED
    BY <1>2, <2>1 DEF Promised!vars, history
<1>3. ASSUME game.pc \in {"count", "fetch"}, UNCHANGED history, game' = [game EXCEPT !.pc = "refused", !.slices = game'.slices]
      PROVE  Promised!Refuse
  <2>1. /\ game'.pc = "refused" /\ game'.round = game.round /\ game'.out = game.out
        /\ game'.winners = game.winners
    BY <1>3 DEF RInv, IInv, GameInv, Types, Game
  <2>2. Phase = "open" /\ Phase' = "refused" /\ Hand = {} /\ Hand' = {}
    BY <1>3, <2>1 DEF Phase, Hand
  <2>3. shrunk' /\ shrunk' = shrunk /\ spare' = spare
    BY <1>3, <2>1 DEF history, RInv, IInv, GameInv, EnoughInv
  <2> QED
    BY <2>1, <2>2, <2>3 DEF Promised!Refuse
<1>4. ASSUME NEW s \in 1..MaxSlices, CountCandidates(s)
      PROVE  Promised!Refuse \/ UNCHANGED Promised!vars
  <2>1. /\ game.pc = "count" /\ UNCHANGED history /\ game \in Game
        /\ \E x \in {"fetch", "refused"} : game' = [game EXCEPT !.pc = x, !.slices = s]
    BY <1>4 DEF CountCandidates, RInv, IInv, GameInv, Types
  <2>2. CASE game' = [game EXCEPT !.pc = "fetch", !.slices = s]
    <3>1. /\ game'.pc = "fetch" /\ game'.round = game.round /\ game'.out = game.out
          /\ game'.winners = game.winners
      BY <2>1, <2>2 DEF Game
    <3> QED
      BY <1>2, <2>1, <3>1
  <2>3. CASE game' = [game EXCEPT !.pc = "refused", !.slices = s]
    <3>1. game'.slices = s
      BY <2>1, <2>3 DEF Game
    <3> QED
      BY <1>3, <2>1, <2>3, <3>1
  <2> QED
    BY <2>1, <2>2, <2>3
<1>5. ASSUME NEW S \in SUBSET Candidates, FetchContents(S)
      PROVE  \/ Promised!Refuse \/ UNCHANGED Promised!vars
             \/ \E T \in SUBSET Candidates : Promised!Draw(T)
  <2>1. game.pc = "fetch" /\ UNCHANGED history /\ game \in Game
    BY <1>5 DEF FetchContents, RInv, IInv, GameInv, Types
  <2>2. CASE EnoughContents(Offered \ ExcludedContents)
    <3>1. /\ game'.pc = (IF game.served + 1 = game.slices THEN "play" ELSE "count")
          /\ game'.round = game.round /\ game'.out = game.out /\ game'.winners = game.winners
      BY <1>5, <2>1, <2>2 DEF FetchContents, Game
    <3>2. CASE game'.pc = "count"
      BY <1>2, <2>1, <3>1, <3>2
    <3>3. CASE game'.pc = "play"
      <4>1. Phase = "open" /\ Phase' = "drawn" /\ Hand = {} /\ Hand' = game'.got
        BY <2>1, <3>3 DEF Phase, Hand
      <4>2. /\ Cardinality(game'.got) = game'.round /\ game'.got \cap game'.out = {}
            /\ game'.winners = {} \/ game'.got = game'.winners \/ spare'
        BY <3>3 DEF RInv, Whole
      <4>3. shrunk' = shrunk /\ spare' = spare
        BY <2>1 DEF history
      <4>4. game'.got \in SUBSET Candidates
        BY DEF RInv, IInv, GameInv, Types, Game
      <4>5. PICK H \in SUBSET Candidates : H = game'.got
        BY <4>4
      <4>6. /\ H \cap game.out = {} /\ Cardinality(H) = game.round
            /\ game.winners = {} \/ H = game.winners \/ spare
        BY <3>1, <4>2, <4>3, <4>5, Zenon
      <4>7. /\ Hand' = H /\ game'.round = game.round /\ game'.out = game.out
            /\ game'.winners = game.winners
        BY <3>1, <4>1, <4>5, Zenon
      <4>8. Promised!Draw(H)
        BY <4>1, <4>3, <4>6, <4>7, SameCount, Zenon DEF Promised!Draw
      <4> QED
        BY <4>8
    <3> QED
      BY <3>1, <3>2, <3>3
  <2>3. CASE ~EnoughContents(Offered \ ExcludedContents)
    <3>1. game' = [game EXCEPT !.pc = "refused"]
      BY <1>5, <2>3 DEF FetchContents
    <3>2. game' = [game EXCEPT !.pc = "refused", !.slices = game'.slices]
      BY <2>1, <3>1 DEF Game
    <3> QED
      BY <1>3, <2>1, <3>2
  <2> QED
    BY <2>2, <2>3
<1>6. ASSUME NEW W \in SUBSET Candidates, NextRound(W) PROVE Promised!Advance(W)
  <2>1. /\ game.pc = "play" /\ game.round > 2 /\ W \subseteq game.got
        /\ Cardinality(W) = game.round \div 2 /\ UNCHANGED history
        /\ game'.pc = "count" /\ game'.round = game.round \div 2 /\ game'.winners = W
        /\ game'.out = game.out \cup (game.got \ W)
    BY <1>6 DEF NextRound, NoGame
  <2>2. Phase = "drawn" /\ Phase' = "open" /\ Hand = game.got /\ Hand' = {}
    BY <2>1 DEF Phase, Hand
  <2>3. /\ W \subseteq Hand /\ game'.out = game.out \cup (Hand \ W)
        /\ shrunk' = shrunk /\ spare' = spare
    BY <2>1, <2>2 DEF history
  <2> QED
    BY <2>1, <2>2, <2>3, SameCount, Zenon DEF Promised!Advance
<1>7. ASSUME GameOver PROVE Promised!End
  <2>1. game' = NoGame /\ shrunk' = FALSE /\ spare' = FALSE
        /\ (game.pc = "refused" \/ (game.pc = "play" /\ game.round = 2))
    BY <1>7 DEF GameOver
  <2>2. game'.pc = "none" /\ game'.round = 0 /\ game'.out = {} /\ game'.winners = {}
    BY <2>1 DEF NoGame
  <2>3. Phase' = "over" /\ Hand' = {} /\ (game.pc = "refused" => Phase = "refused")
        /\ (game.pc = "play" => Phase = "drawn")
    BY <2>2 DEF Phase, Hand
  <2> QED
    BY <2>1, <2>2, <2>3 DEF Promised!End
<1> QED
  BY <1>1, <1>4, <1>5, <1>6, <1>7 DEF Play, Promised!Next

(* The requests of a game, sliced and refused, between the edits and the      *)
(* publication of the world cup, implement a tournament: whole rounds, each   *)
(* among the winners of the one before unless others joined.                  *)
THEOREM Refinement == Spec => ImplementsTournament
<1>1. Init => Promised!Init
  BY TournamentStart
<1>2. RInv /\ RInv' /\ [Next]_vars => [Promised!Next]_(Promised!vars)
  <2>1. ASSUME UNCHANGED vars PROVE UNCHANGED Promised!vars
    BY <2>1 DEF vars, Promised!vars, Phase, Hand
  <2> QED
    BY <2>1, ChangesRefine, RequestsRefine DEF Next
<1> QED
  BY <1>1, <1>2, GamesAreForgotten, PTL DEF Spec, ImplementsTournament, Promised!Spec
=============================================================================
