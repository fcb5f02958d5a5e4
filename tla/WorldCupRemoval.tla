--------------------------- MODULE WorldCupRemoval ---------------------------
(* remove of manage-world-cups.service.ts: one transaction that deletes a     *)
(* world cup with its results, comments, candidates and orphan media, then    *)
(* the objects of the bucket.  Composed with the requests that write below    *)
(* the same world cup: saves of games, comments, creations and replacements   *)
(* of candidate images, and other removals.  Row locks and foreign keys are   *)
(* PostgreSQL's: an INSERT takes FOR KEY SHARE on the rows it references,     *)
(* which only a DELETE of them conflicts with.                                *)
EXTENDS Naturals, FiniteSets

CONSTANTS MaxImages,   \* how many images the clients upload
          Plays,       \* ids of the games saved
          Comments,    \* ids of the comments written
          Requests,    \* HTTP requests being served, reused once answered
          Attempts     \* STORAGE_DELETE_ATTEMPTS

ASSUME BoundsAssumption == MaxImages \in Nat /\ Attempts \in Nat \ {0}
ASSUME RowsAssumption == "none" \notin Plays \cup Comments

(* Object keys, numbered as they are drawn; 0 is no key.  A candidate and its *)
(* media row are named by the key of the candidate's first image.             *)
Images == 1..MaxImages
Rows == Plays \cup Comments

VARIABLES
  cup,        \* the world cup's row is there
  candidates, \* the committed candidate rows
  key,        \* the object key in each committed media row; 0 without a row
  on,         \* the candidates of each committed play or comment; {} without a row
  stored,     \* the objects in the bucket
  drawn,      \* how many keys have been drawn
  late,       \* candidates committed during a removal (history)
  abandoned,  \* objects whose deletion was given up or never tried (history)
  req         \* the requests in flight

vars == <<cup, candidates, key, on, stored, drawn, late, abandoned, req>>
database == <<cup, candidates, key, on>>
history == <<late, abandoned>>

Steps == {"idle", "refer", "candidates", "media", "candidate", "commit", "clean",
          "comments", "plays", "cup", "objects"}
Request == [pc : Steps,
            op : {"none", "save", "create", "replace", "remove"},
            row : Rows \cup {"none"},  \* the play or comment being inserted
            key : 0..MaxImages,        \* the upload
            old : 0..MaxImages,        \* the key a replacement read first
            media : SUBSET Images,     \* the media rows it read
            todo : SUBSET Images,      \* the candidate rows its statement has still to visit
            held : SUBSET Images,      \* the candidate rows it has referenced or deleted
            gone : SUBSET Rows,        \* the plays and comments it has deleted
            keys : SUBSET Images,      \* the objects of the media rows it deletes
            attempt : 0..(Attempts - 1)]  \* failed deletions of the present object
Idle == [pc |-> "idle", op |-> "none", row |-> "none", key |-> 0, old |-> 0, media |-> {},
         todo |-> {}, held |-> {}, gone |-> {}, keys |-> {}, attempt |-> 0]

(* The rows, the bucket and the requests in flight. *)
TypeOK == /\ cup \in BOOLEAN
          /\ candidates \subseteq Images
          /\ key \in [Images -> 0..MaxImages]
          /\ on \in [Rows -> SUBSET Images]
          /\ stored \subseteq Images
          /\ drawn \in 0..MaxImages
          /\ late \subseteq Images
          /\ abandoned \subseteq Images
          /\ req \in [Requests -> Request]

Init == /\ cup = TRUE
        /\ candidates = {}
        /\ key = [c \in Images |-> 0]
        /\ on = [i \in Rows |-> {}]
        /\ stored = {}
        /\ drawn = 0
        /\ late = {}
        /\ abandoned = {}
        /\ req = [r \in Requests |-> Idle]

Committed == {i \in Rows : on[i] # {}}
(* A removal between its first read and its commit. *)
Removing(q) == req[q].op = "remove" /\ req[q].pc # "objects"

(* The row locks of open transactions: FOR KEY SHARE on the world cup and on  *)
(* candidates, updates and deletes.                                           *)
SharesCup(q) == \/ req[q].op = "save" /\ req[q].pc \in {"candidates", "commit"}
                \/ req[q].op = "create" /\ req[q].pc = "commit"
DeletesCup(q) == req[q].op = "remove" /\ req[q].pc = "commit"
SharesCandidate(q, c) == req[q].op = "save" /\ c \in req[q].held
UpdatesCandidate(q, c) == req[q].op = "replace" /\ req[q].pc = "commit" /\ c \in req[q].media
DeletesCandidate(q, c) == Removing(q) /\ c \in req[q].held
UpdatesMedia(q, c) ==
  req[q].op = "replace" /\ req[q].pc \in {"candidate", "commit"} /\ c \in req[q].media
DeletesMedia(q, c) ==
  req[q].op = "remove" /\ req[q].pc \in {"cup", "commit"} /\ c \in req[q].media

(* Variant: saves check their candidates FOR UPDATE. *)
HoldsCandidateForUpdate(q, r, c) ==
  /\ q # r
  /\ \/ DeletesCandidate(q, c)
     \/ req[r].op # "save" /\ UpdatesCandidate(q, c)
     \/ SharesCandidate(q, c)

(* q holds the row of candidate c against the next statement of r. *)
HoldsCandidate(q, r, c) ==
  /\ q # r
  /\ \/ DeletesCandidate(q, c)
     \/ req[r].op # "save" /\ UpdatesCandidate(q, c)
     \/ req[r].op = "remove" /\ SharesCandidate(q, c)
CandidateFree(r, c) == \A q \in Requests : ~HoldsCandidate(q, r, c)
HoldsMedia(q, r) ==
  q # r /\ \E c \in req[r].media : UpdatesMedia(q, c) \/ DeletesMedia(q, c)
HoldsCup(q, r) == q # r /\ (DeletesCup(q) \/ (req[r].op = "remove" /\ SharesCup(q)))
HoldsRows(q, r) == q # r /\ Removing(q) /\ req[q].gone \cap Committed # {}

(* The next statement of r waits for the end of q. *)
Waits(r, q) ==
  \/ req[r].pc \in {"refer", "cup"} /\ HoldsCup(q, r)
  \/ req[r].pc = "cup" /\ \E c \in candidates : HoldsCandidate(q, r, c)
  \/ req[r].pc \in {"comments", "plays"} /\ HoldsRows(q, r)
  \/ req[r].pc = "media" /\ HoldsMedia(q, r)
  \/ req[r].pc = "candidate" /\ \E c \in req[r].media : HoldsCandidate(q, r, c)
  \/ /\ req[r].pc = "candidates"
     /\ \A c \in req[r].todo : ~CandidateFree(r, c)
     /\ \E c \in req[r].todo : HoldsCandidate(q, r, c)

Circle(S) == S # {} /\ \A r \in S : \E q \in S : Waits(r, q)

Become(r, x) == req' = [req EXCEPT ![r] = x]
Goto(r, s) == Become(r, [req[r] EXCEPT !.pc = s])
(* Rollback; the error path of an upload deletes it (CandidateMedia has the   *)
(* failures of that).                                                         *)
Abort(r) == /\ stored' = stored \ {req[r].key}
            /\ Become(r, Idle)
            /\ UNCHANGED <<database, drawn, history>>
-----------------------------------------------------------------------------
(* saveGameResult and the creation of a comment, from their checks on: a game *)
(* places two candidates or more, a comment is about one.                     *)
Save(r, i, S) ==
  /\ req[r].pc = "idle"
  /\ on[i] = {}
  /\ \A q \in Requests : req[q].row # i
  /\ S \subseteq candidates /\ S # {}
  /\ i \in Comments <=> Cardinality(S) = 1
  /\ Become(r, [Idle EXCEPT !.pc = "refer", !.op = "save", !.row = i, !.todo = S])
  /\ UNCHANGED <<database, stored, drawn, history>>

(* createStaticImage and updateStaticImage, from their upload on. *)
Create(r) ==
  /\ req[r].pc = "idle"
  /\ cup
  /\ drawn < MaxImages
  /\ drawn' = drawn + 1
  /\ stored' = stored \cup {drawn'}
  /\ Become(r, [Idle EXCEPT !.pc = "refer", !.op = "create", !.key = drawn'])
  /\ UNCHANGED <<database, history>>

Replace(r, c) ==
  /\ req[r].pc = "idle"
  /\ c \in candidates
  /\ drawn < MaxImages
  /\ drawn' = drawn + 1
  /\ stored' = stored \cup {drawn'}
  /\ Become(r, [Idle EXCEPT !.pc = "media", !.op = "replace", !.key = drawn',
                            !.old = key[c], !.media = {c}])
  /\ UNCHANGED <<database, history>>

(* Variant: world_cup_id is no foreign key. *)
ReferUnchecked(r) ==
  /\ req[r].pc = "refer"
  /\ Goto(r, IF req[r].op = "save" THEN "candidates" ELSE "commit")
  /\ UNCHANGED <<database, stored, drawn, history>>

(* The INSERT checks its foreign key on the world cup, the one created first. *)
ReferToCup(r) ==
  /\ req[r].pc = "refer"
  /\ \A q \in Requests : ~HoldsCup(q, r)
  /\ IF ~cup THEN Abort(r)
     ELSE /\ Goto(r, IF req[r].op = "save" THEN "candidates" ELSE "commit")
          /\ UNCHANGED <<database, stored, drawn, history>>

(* Variant: the first candidate is the only one that is checked. *)
ReferToFirstCandidate(r, c) ==
  /\ req[r].pc = "candidates" /\ req[r].op = "save"
  /\ c \in req[r].todo
  /\ CandidateFree(r, c)
  /\ IF c \notin candidates THEN Abort(r)
     ELSE /\ Become(r, [req[r] EXCEPT !.held = @ \cup {c}, !.pc = "commit"])
          /\ UNCHANGED <<database, stored, drawn, history>>

(* Then, row by row, the one on the candidates. *)
ReferToCandidate(r, c) ==
  /\ req[r].pc = "candidates" /\ req[r].op = "save"
  /\ c \in req[r].todo
  /\ CandidateFree(r, c)
  /\ IF c \notin candidates THEN Abort(r)
     ELSE /\ Become(r, [req[r] EXCEPT !.todo = @ \ {c}, !.held = @ \cup {c},
                                      !.pc = IF req[r].todo = {c} THEN "commit" ELSE @])
          /\ UNCHANGED <<database, stored, drawn, history>>

CommitSave(r) ==
  /\ req[r].pc = "commit" /\ req[r].op = "save"
  /\ on' = [on EXCEPT ![req[r].row] = req[r].held]
  /\ Become(r, Idle)
  /\ UNCHANGED <<cup, candidates, key, stored, drawn, history>>

CommitCreate(r) ==
  /\ req[r].pc = "commit" /\ req[r].op = "create"
  /\ candidates' = candidates \cup {req[r].key}
  /\ key' = [key EXCEPT ![req[r].key] = req[r].key]
  /\ late' = IF \E q \in Requests : Removing(q) THEN late \cup {req[r].key} ELSE late
  /\ Become(r, Idle)
  /\ UNCHANGED <<cup, on, stored, drawn, abandoned>>

(* mediaFile.update, then candidate.update: each waits for its row, and       *)
(* throws when the row is gone.                                               *)
UpdateMedia(r) ==
  /\ req[r].pc = "media" /\ req[r].op = "replace"
  /\ \A q \in Requests : ~HoldsMedia(q, r)
  /\ IF \E c \in req[r].media : key[c] = 0 THEN Abort(r)
     ELSE /\ Goto(r, "candidate")
          /\ UNCHANGED <<database, stored, drawn, history>>

UpdateCandidate(r) ==
  /\ req[r].pc = "candidate"
  /\ \A c \in req[r].media : CandidateFree(r, c)
  /\ IF ~(req[r].media \subseteq candidates) THEN Abort(r)
     ELSE /\ Goto(r, "commit")
          /\ UNCHANGED <<database, stored, drawn, history>>

(* An image saved since this request read its key is abandoned: two           *)
(* overlapping replacements both delete the first image.                      *)
CommitReplace(r) ==
  /\ req[r].pc = "commit" /\ req[r].op = "replace"
  /\ key' = [c \in Images |-> IF c \in req[r].media THEN req[r].key ELSE key[c]]
  /\ abandoned' = abandoned \cup ({key[c] : c \in req[r].media} \ {req[r].old})
  /\ Goto(r, "clean")
  /\ UNCHANGED <<cup, candidates, on, stored, drawn, late>>

Clean(r) ==
  /\ req[r].pc = "clean"
  /\ stored' = stored \ {req[r].old}
  /\ Become(r, Idle)
  /\ UNCHANGED <<database, drawn, history>>
-----------------------------------------------------------------------------
(* remove: the world cup is found and the media ids of its candidates read. *)
Remove(r) ==
  /\ req[r].pc = "idle"
  /\ cup
  /\ Become(r, [Idle EXCEPT !.pc = "comments", !.op = "remove", !.media = candidates])
  /\ UNCHANGED <<database, stored, drawn, history>>

(* gamePlacement.deleteMany and comment.deleteMany. *)
DeleteComments(r) ==
  /\ req[r].pc = "comments"
  /\ \A q \in Requests : ~HoldsRows(q, r)
  /\ Become(r, [req[r] EXCEPT !.pc = "plays", !.gone = Committed])
  /\ UNCHANGED <<database, stored, drawn, history>>

(* gamePlay.deleteMany; the next statement then sees the candidates. *)
DeletePlays(r) ==
  /\ req[r].pc = "plays"
  /\ \A q \in Requests : ~HoldsRows(q, r)
  /\ Become(r, [req[r] EXCEPT !.pc = "candidates", !.todo = candidates,
                              !.gone = @ \cup (Committed \cap Plays)])
  /\ UNCHANGED <<database, stored, drawn, history>>

(* candidate.deleteMany, row by row. *)
DeleteCandidate(r, c) ==
  /\ req[r].pc = "candidates" /\ req[r].op = "remove"
  /\ c \in req[r].todo
  /\ CandidateFree(r, c)
  /\ Become(r, [req[r] EXCEPT !.todo = @ \ {c}, !.held = @ \cup ({c} \cap candidates)])
  /\ UNCHANGED <<database, stored, drawn, history>>

(* Its end: no other play or comment may refer to the deleted rows (NO        *)
(* ACTION).  Then mediaFile.findMany: the media rows nobody refers to.        *)
CheckReferences(r) ==
  /\ req[r].pc = "candidates" /\ req[r].op = "remove"
  /\ req[r].todo = {}
  /\ IF \E i \in Rows \ req[r].gone : on[i] \cap req[r].held # {} THEN Abort(r)
     ELSE LET orphans == {c \in req[r].media : key[c] # 0 /\ c \notin candidates \ req[r].held}
          IN /\ Become(r, [req[r] EXCEPT !.pc = "media", !.media = orphans,
                                         !.keys = {key[c] : c \in orphans}])
             /\ UNCHANGED <<database, stored, drawn, history>>

(* Variant: the objects are deleted in the transaction. *)
DeleteMediaAndObjects(r) ==
  /\ req[r].pc = "media" /\ req[r].op = "remove"
  /\ \A q \in Requests : ~HoldsMedia(q, r)
  /\ stored' = stored \ req[r].keys
  /\ Goto(r, "cup")
  /\ UNCHANGED <<database, drawn, history>>

(* mediaFile.deleteMany waits for replacements of these rows. *)
DeleteMedia(r) ==
  /\ req[r].pc = "media" /\ req[r].op = "remove"
  /\ \A q \in Requests : ~HoldsMedia(q, r)
  /\ Goto(r, "cup")
  /\ UNCHANGED <<database, stored, drawn, history>>

(* worldCup.deleteMany waits for inserts below it, and for the candidates     *)
(* inserted meanwhile, which go by CASCADE; 404 if the world cup is gone.     *)
DeleteCup(r) ==
  /\ req[r].pc = "cup"
  /\ \A q \in Requests : ~HoldsCup(q, r)
  /\ \A c \in candidates : CandidateFree(r, c)
  /\ IF ~cup THEN Abort(r)
     ELSE /\ Become(r, [req[r] EXCEPT !.pc = "commit", !.held = candidates])
          /\ UNCHANGED <<database, stored, drawn, history>>

(* The rows of all tables go together, media rows only if they were read. *)
CommitRemove(r) ==
  /\ req[r].pc = "commit" /\ req[r].op = "remove"
  /\ cup' = FALSE
  /\ candidates' = {}
  /\ on' = [i \in Rows |-> {}]
  /\ key' = [c \in Images |-> IF c \in req[r].media THEN 0 ELSE key[c]]
  /\ Goto(r, "objects")
  /\ UNCHANGED <<stored, drawn, history>>

(* Variant: the first successful deletion ends the loop over the keys too. *)
DeleteFirstObject(r, k) ==
  /\ req[r].pc = "objects"
  /\ k \in req[r].keys
  /\ stored' = stored \ {k}
  /\ Become(r, [req[r] EXCEPT !.keys = {}, !.attempt = 0])
  /\ UNCHANGED <<database, drawn, history>>

(* deleteStorageObjectWithRetry for each key, then the answer.  Which object  *)
(* failed attempts were for shows only when it is deleted or given up.        *)
DeleteObject(r, k) ==
  /\ req[r].pc = "objects"
  /\ k \in req[r].keys
  /\ stored' = stored \ {k}
  /\ Become(r, [req[r] EXCEPT !.keys = @ \ {k}, !.attempt = 0])
  /\ UNCHANGED <<database, drawn, history>>

(* Variants: the attempts are not counted, or counted from 0 again. *)
RetryForever(r) ==
  /\ req[r].pc = "objects"
  /\ req[r].keys # {}
  /\ Become(r, [req[r] EXCEPT !.attempt = @ + 1])
  /\ UNCHANGED <<database, stored, drawn, history>>

RetryAgain(r) ==
  /\ req[r].pc = "objects"
  /\ req[r].keys # {}
  /\ Become(r, [req[r] EXCEPT !.attempt = (@ + 1) % Attempts])
  /\ UNCHANGED <<database, stored, drawn, history>>

RetryObject(r) ==
  /\ req[r].pc = "objects"
  /\ req[r].keys # {}
  /\ req[r].attempt + 1 < Attempts
  /\ Become(r, [req[r] EXCEPT !.attempt = @ + 1])
  /\ UNCHANGED <<database, stored, drawn, history>>

GiveUpObject(r, k) ==
  /\ req[r].pc = "objects"
  /\ k \in req[r].keys
  /\ req[r].attempt + 1 = Attempts
  /\ abandoned' = abandoned \cup {k}
  /\ Become(r, [req[r] EXCEPT !.keys = @ \ {k}, !.attempt = 0])
  /\ UNCHANGED <<database, stored, drawn, late>>

Answer(r) ==
  /\ req[r].pc = "objects"
  /\ req[r].keys = {}
  /\ Become(r, Idle)
  /\ UNCHANGED <<database, stored, drawn, history>>
-----------------------------------------------------------------------------
(* PostgreSQL aborts a transaction of a circle of waiting ones. *)
BreakCircle(r) ==
  /\ \E S \in SUBSET Requests : r \in S /\ Circle(S)
  /\ Abort(r)

(* A statement fails or the transaction times out. *)
Fail(r) ==
  /\ req[r].pc \notin {"idle", "clean", "objects"}
  /\ Abort(r)

(* The replica stops between the commit and the end of the clean-up (before   *)
(* it, CandidateMedia has it). *)
Stop(r) ==
  /\ req[r].pc \in {"clean", "objects"}
  /\ abandoned' = abandoned \cup ({req[r].old} \ {0}) \cup req[r].keys
  /\ Become(r, Idle)
  /\ UNCHANGED <<database, stored, drawn, late>>

(* Nobody has a request to send. *)
Quiet == (\A r \in Requests : req[r] = Idle) /\ UNCHANGED vars

Step(r) == \/ ReferToCup(r) \/ (\E c \in Images : ReferToCandidate(r, c)) \/ CommitSave(r)
           \/ CommitCreate(r)
           \/ UpdateMedia(r) \/ UpdateCandidate(r) \/ CommitReplace(r) \/ Clean(r)
           \/ DeleteComments(r) \/ DeletePlays(r) \/ (\E c \in Images : DeleteCandidate(r, c))
           \/ CheckReferences(r) \/ DeleteMedia(r) \/ DeleteCup(r) \/ CommitRemove(r)
           \/ (\E k \in Images : DeleteObject(r, k) \/ GiveUpObject(r, k))
           \/ RetryObject(r) \/ Answer(r)
           \/ BreakCircle(r)

Next == \/ \E r \in Requests : \/ \E i \in Rows, S \in SUBSET Images : Save(r, i, S)
                               \/ Create(r)
                               \/ \E c \in Images : Replace(r, c)
                               \/ Remove(r)
                               \/ Step(r) \/ Fail(r) \/ Stop(r)
        \/ Quiet

Spec == Init /\ [][Next]_vars

(* Statements that can run do, attempts to delete an object end one way or    *)
(* the other, waiters get their row in turn, and the deadlock detector runs.  *)
FairSpec == Spec /\ \A r \in Requests : SF_vars(Step(r))
-----------------------------------------------------------------------------
(* Every candidate that players can see has its image: objects go only after  *)
(* the commit that deletes their rows, never when the removal is rolled back, *)
(* and never another candidate's.                                             *)
ImagesStored == \A c \in candidates : key[c] \in stored

(* No row outlives its world cup, and no result or comment its candidate,     *)
(* whatever is inserted while the removal is under way.                       *)
NoRowOutlives ==
  /\ ~cup => candidates = {} /\ Committed = {}
  /\ \A i \in Rows : on[i] \subseteq candidates

(* An upload that is being saved, or an object about to be deleted. *)
InFlight(k) ==
  \E r \in Requests : \/ req[r].pc # "clean" /\ req[r].key = k
                      \/ req[r].pc = "clean" /\ req[r].old = k
                      \/ req[r].pc = "objects" /\ k \in req[r].keys

(* HANDOFF.md, removal of a world cup: the objects of its media go, failures  *)
(* are logged.  Every object of the bucket belongs to a candidate or to a     *)
(* request that will save or delete it, or its deletion was given up, or its  *)
(* candidate was created while a removal was under way, which had read the    *)
(* media ids before.  Replacements, retries and rollbacks leave nothing else  *)
(* of what this module has: that a rolled-back upload may fail to be deleted  *)
(* is in CandidateMedia, that updateOne drops an image in neither.            *)
ObjectsAccounted ==
  \A k \in stored : \/ \E c \in candidates \cup late : key[c] = k
                    \/ InFlight(k)
                    \/ k \in abandoned

(* Saves, comments, creations and replacements never wait for each other in a *)
(* circle: in every circle that PostgreSQL must break there is a removal.     *)
OnlyRemovalsDeadlock ==
  \A S \in SUBSET Requests : Circle(S) => \E r \in S : req[r].op = "remove"

(* What is seen of a candidate: the image of its row, if the bucket has it;   *)
(* and the candidates that the request inserting a row refers to.             *)
ImageOf(c) == IF c \in candidates /\ key[c] \in stored THEN key[c] ELSE 0
SavedOn(i) == UNION {req[r].held \cup req[r].todo :
                       r \in {q \in Requests : req[q].op = "save" /\ req[q].row = i}}
Store == INSTANCE WorldCupStore WITH
           image <- [c \in Images |-> ImageOf(c)],
           asked <- [i \in Rows |-> SavedOn(i)]

(* The statements of removals, saves, creations and replacements, their locks *)
(* and rollbacks and the calls of the bucket add up to a store in which each  *)
(* happens at once: no candidate is without its image for a moment, no result *)
(* is about some of its candidates only, a removal takes everything.          *)
ImplementsWorldCupStore == Store!Spec

(* How many steps a request takes at most until it is answered: the rows its  *)
(* statement has still to visit, then Attempts for each object it deletes.    *)
StepsLeft(x) ==
  LET cleanUp == Attempts * MaxImages + 2
  IN CASE x.pc = "idle" -> 0
       [] x.pc = "clean" -> 1
       [] x.pc = "objects" -> (Attempts * Cardinality(x.keys) + 1) - x.attempt
       [] x.pc = "commit" -> cleanUp
       [] x.pc \in {"cup", "candidate"} -> cleanUp + 1
       [] x.pc = "media" -> cleanUp + 2
       [] x.pc = "candidates" -> cleanUp + 3 + Cardinality(x.todo)
       [] x.pc \in {"plays", "refer"} -> cleanUp + 4 + MaxImages
       [] x.pc = "comments" -> cleanUp + 5 + MaxImages

(* No request goes round in circles: whatever the others insert, hold or      *)
(* delete, and however often the bucket fails, each step brings it nearer to  *)
(* its answer.                                                                *)
WorkEnds ==
  [][\A r \in Requests : req[r].pc # "idle" /\ req'[r] # req[r]
       => StepsLeft(req'[r]) < StepsLeft(req[r])]_vars

(* Every request is answered; circles of row locks are broken.                *)
RequestsFinish == \A r \in Requests : req[r].pc # "idle" ~> req[r].pc = "idle"
=============================================================================
