--------------------------- MODULE CandidateMedia ---------------------------
(* The images of a world cup's candidates: rows of media_files in the         *)
(* database and objects in an S3 bucket, which no transaction spans.          *)
(* createStaticImage, updateStaticImage, updateOne and remove of              *)
(* manage-world-cup-contents.service.ts, for requests of the owner.           *)
EXTENDS Naturals, FiniteSets

CONSTANTS Candidates,  \* ids the sequence of the candidates table will hand out
          Keys,        \* object keys that randomUUID will draw
          Requests,    \* HTTP requests being served, reused once answered
          Operations,  \* the handlers in use
          Faults       \* what may go wrong

ASSUME OperationsAssumption == Operations \subseteq {"create", "replace", "rename", "video"}
ASSUME FaultsAssumption ==
  Faults \subseteq {"put", "delete", "transaction", "unclearCommit", "stop"}
ASSUME KeysAssumption == Keys \cap {"none", "video", "missing"} = {}
ASSUME RequestsAssumption == "none" \notin Requests

VARIABLES
  media,    \* the candidate's committed media row: an object key, an external
            \* video, or "none" while the candidate does not exist
  name,     \* the request whose contentsName the committed candidate row holds
  deleted,  \* the candidates with a deletedAt
  stored,   \* the keys in the bucket
  drawn,    \* the keys randomUUID has returned
  unclear,  \* the keys saved by a COMMIT whose answer was lost (history)
  req       \* the requests in flight

vars == <<media, name, deleted, stored, drawn, unclear, req>>
database == <<media, name, deleted>>

Steps == {"idle", "upload", "find", "media", "name", "commit", "clean", "discard"}
Request == [pc : Steps,
            op : Operations \cup {"none"},
            candidate : Candidates \cup {"none"},
            old : Keys \cup {"none"},   \* the key read before the transaction
            key : Keys \cup {"none"}]   \* the key of the upload
Idle == [pc |-> "idle", op |-> "none", candidate |-> "none", old |-> "none", key |-> "none"]

(* The rows, the bucket and the requests in flight. *)
TypeOK == /\ media \in [Candidates -> Keys \cup {"none", "video"}]
          /\ name \in [Candidates -> Requests \cup {"none"}]
          /\ deleted \subseteq Candidates
          /\ stored \subseteq drawn
          /\ drawn \subseteq Keys
          /\ unclear \subseteq drawn
          /\ req \in [Requests -> Request]

Init == /\ media = [c \in Candidates |-> "none"]
        /\ name = [c \in Candidates |-> "none"]
        /\ deleted = {}
        /\ stored = {}
        /\ drawn = {}
        /\ unclear = {}
        /\ req = [r \in Requests |-> Idle]

(* The bound on creations: an id for each one in flight. *)
CandidatesLeft == Cardinality({c \in Candidates : media[c] = "none"})
                    > Cardinality({q \in Requests : req[q].op = "create"})

Active(c) == media[c] # "none" /\ c \notin deleted
Image(c) == Active(c) /\ media[c] \in Keys

(* Row locks of the open transactions: the media row is updated first, the    *)
(* candidate row last.                                                        *)
MediaLocked(r, c) == \E q \in Requests \ {r} :
                        /\ req[q].candidate = c
                        /\ req[q].op \in {"replace", "video"}
                        /\ req[q].pc \in {"name", "commit"}
CandidateLocked(c) == \E q \in Requests : req[q].candidate = c /\ req[q].pc = "commit"

Become(r, x) == req' = [req EXCEPT ![r] = x]
Goto(r, s) == Become(r, [req[r] EXCEPT !.pc = s])
(* The error path: the upload, if there is one, is to be deleted. *)
Abort(r) == IF req[r].key = "none" THEN Become(r, Idle) ELSE Goto(r, "discard")
-----------------------------------------------------------------------------
(* createStaticImage and updateStaticImage up to their putObject; the latter  *)
(* remembers the key of the image it is about to replace.                     *)
Create(r, k) ==
  /\ "create" \in Operations
  /\ CandidatesLeft
  /\ req[r].pc = "idle"
  /\ k \notin drawn
  /\ drawn' = drawn \cup {k}
  /\ Become(r, [Idle EXCEPT !.pc = "upload", !.op = "create", !.key = k])
  /\ UNCHANGED <<database, stored, unclear>>

(* Variant: the fileType is not looked at. *)
ReplaceAny(r, c, k) ==
  /\ "replace" \in Operations
  /\ req[r].pc = "idle"
  /\ Active(c)
  /\ k \notin drawn
  /\ drawn' = drawn \cup {k}
  /\ Become(r, [pc |-> "upload", op |-> "replace", candidate |-> c, old |-> media[c], key |-> k])
  /\ UNCHANGED <<database, stored, unclear>>

Replace(r, c, k) ==
  /\ "replace" \in Operations
  /\ req[r].pc = "idle"
  /\ Image(c)
  /\ k \notin drawn
  /\ drawn' = drawn \cup {k}
  /\ Become(r, [pc |-> "upload", op |-> "replace", candidate |-> c, old |-> media[c], key |-> k])
  /\ UNCHANGED <<database, stored, unclear>>

(* updateStaticImage without a file, and updateOne. *)
Edit(r, c, op) ==
  /\ op \in Operations \cap {"rename", "video"}
  /\ req[r].pc = "idle"
  /\ op = "rename" => Image(c)
  /\ Become(r, [Idle EXCEPT !.pc = "find", !.op = op, !.candidate = c])
  /\ UNCHANGED <<database, stored, drawn, unclear>>

(* Variant: the upload after the transaction. *)
UploadUnchecked(r) ==
  /\ req[r].pc = "upload"
  /\ UNCHANGED <<database, stored, drawn, unclear>>
  /\ Goto(r, IF req[r].op = "create" THEN "commit" ELSE "find")

Upload(r) ==
  /\ req[r].pc = "upload"
  /\ stored' = stored \cup {req[r].key}
  /\ Goto(r, IF req[r].op = "create" THEN "commit" ELSE "find")
  /\ UNCHANGED <<database, drawn, unclear>>

(* putObject throws outside the try: nothing is cleaned up, stored or not. *)
UploadFails(r) ==
  /\ "put" \in Faults
  /\ req[r].pc = "upload"
  /\ stored' \in {stored, stored \cup {req[r].key}}
  /\ Become(r, Idle)
  /\ UNCHANGED <<database, drawn, unclear>>

Find(r) ==
  /\ req[r].pc = "find"
  /\ IF req[r].op = "video" THEN Active(req[r].candidate) ELSE Image(req[r].candidate)
  /\ Goto(r, IF req[r].op = "rename" THEN "name" ELSE "media")
  /\ UNCHANGED <<database, stored, drawn, unclear>>

FindNothing(r) ==
  /\ req[r].pc = "find"
  /\ ~(IF req[r].op = "video" THEN Active(req[r].candidate) ELSE Image(req[r].candidate))
  /\ Abort(r)
  /\ UNCHANGED <<database, stored, drawn, unclear>>

(* mediaFile.update waits for the row. *)
SetMedia(r) ==
  /\ req[r].pc = "media"
  /\ ~MediaLocked(r, req[r].candidate)
  /\ Goto(r, "name")
  /\ UNCHANGED <<database, stored, drawn, unclear>>

(* Variant: updateOne without deletedAt: null in its last update. *)
SetNameAnyway(r) ==
  /\ req[r].pc = "name"
  /\ ~CandidateLocked(req[r].candidate)
  /\ Goto(r, "commit")
  /\ UNCHANGED <<database, stored, drawn, unclear>>

(* updateOne updates the candidate only while it is active, and counts;       *)
(* updateStaticImage updates it by its id.                                    *)
SetName(r) ==
  /\ req[r].pc = "name"
  /\ ~CandidateLocked(req[r].candidate)
  /\ IF req[r].op = "video" /\ req[r].candidate \in deleted
     THEN Abort(r)
     ELSE Goto(r, "commit")
  /\ UNCHANGED <<database, stored, drawn, unclear>>

(* Variant: only one of the two writes. *)
WriteName(r, c) ==
  /\ IF req[r].op = "create" THEN media[c] = "none" ELSE c = req[r].candidate
  /\ media' = [media EXCEPT ![c] = IF req[r].op = "create" THEN req[r].key ELSE @]
  /\ name' = [name EXCEPT ![c] = r]
  /\ UNCHANGED <<deleted, drawn, stored>>

(* What the transaction of r writes, for a candidate c of its own. *)
Write(r, c) ==
  /\ IF req[r].op = "create" THEN media[c] = "none" ELSE c = req[r].candidate
  /\ media' = [media EXCEPT ![c] = CASE req[r].op = "video" -> "video"
                                     [] req[r].op = "rename" -> @
                                     [] OTHER -> req[r].key]
  /\ name' = [name EXCEPT ![c] = r]
  /\ UNCHANGED <<deleted, drawn, stored>>

Commit(r, c) ==
  /\ req[r].pc = "commit"
  /\ Write(r, c)
  /\ UNCHANGED unclear
  /\ IF req[r].op = "replace" THEN Goto(r, "clean") ELSE Become(r, Idle)

(* The commit succeeds and its answer is lost: $transaction rejects. *)
CommitUnclear(r, c) ==
  /\ "unclearCommit" \in Faults
  /\ req[r].pc = "commit"
  /\ Write(r, c)
  /\ unclear' = unclear \cup ({req[r].key} \ {"none"})
  /\ Abort(r)

(* Variant: the transaction is tried again. *)
TransactionRetried(r) ==
  /\ "transaction" \in Faults
  /\ req[r].pc \in {"find", "media", "name", "commit"}
  /\ Goto(r, IF req[r].op = "create" THEN "commit" ELSE "find")
  /\ UNCHANGED <<database, stored, drawn, unclear>>

TransactionFails(r) ==
  /\ "transaction" \in Faults
  /\ req[r].pc \in {"find", "media", "name", "commit"}
  /\ Abort(r)
  /\ UNCHANGED <<database, stored, drawn, unclear>>

(* deleteObject of the replaced image, or of the upload after an error; a     *)
(* failure is only logged, and the request is answered.                       *)
Delete(r) ==
  LET key == IF req[r].pc = "clean" THEN req[r].old ELSE req[r].key
  IN /\ req[r].pc \in {"clean", "discard"}
     /\ stored' = stored \ {key}
     /\ Become(r, Idle)
     /\ UNCHANGED <<database, drawn, unclear>>

DeleteFails(r) ==
  /\ "delete" \in Faults
  /\ req[r].pc \in {"clean", "discard"}
  /\ Become(r, Idle)
  /\ UNCHANGED <<database, stored, drawn, unclear>>

(* The replica stops: the database rolls back, the bucket keeps what it has. *)
Stop(r) ==
  /\ "stop" \in Faults
  /\ req[r].pc # "idle"
  /\ Become(r, Idle)
  /\ UNCHANGED <<database, stored, drawn, unclear>>

(* remove: one conditional update, which waits for the candidate's row. *)
Remove(c) ==
  /\ Active(c)
  /\ ~CandidateLocked(c)
  /\ deleted' = deleted \cup {c}
  /\ UNCHANGED <<media, name, stored, drawn, unclear, req>>

(* Nobody has a request to send. *)
Quiet == (\A r \in Requests : req[r] = Idle) /\ UNCHANGED vars

Step(r) == \/ Upload(r)
           \/ Find(r) \/ FindNothing(r) \/ SetMedia(r) \/ SetName(r)
           \/ \E c \in Candidates : Commit(r, c)
           \/ Delete(r)

Fault(r) == \/ UploadFails(r) \/ TransactionFails(r) \/ DeleteFails(r) \/ Stop(r)
            \/ \E c \in Candidates : CommitUnclear(r, c)

Next == \/ \E r \in Requests : \/ \E k \in Keys : Create(r, k)
                               \/ \E c \in Candidates, k \in Keys : Replace(r, c, k)
                               \/ \E c \in Candidates, op \in Operations : Edit(r, c, op)
                               \/ Step(r) \/ Fault(r)
        \/ \E c \in Candidates : Remove(c)
        \/ Quiet

Spec == Init /\ [][Next]_vars

(* A request that can go on, or that gets the row it waits for again and      *)
(* again, goes on.                                                            *)
FairSpec == Spec /\ \A r \in Requests : SF_vars(Step(r))
-----------------------------------------------------------------------------
(* What requests in flight carry, operation by operation.                     *)
KeysAreKnown ==
  /\ \A c \in Candidates : media[c] \in drawn \cup {"none", "video"}
  /\ \A r \in Requests : {req[r].key, req[r].old} \subseteq drawn \cup {"none"}
OneRowPerKey ==
  \A c, d \in Candidates : media[c] \in Keys /\ media[c] = media[d] => c = d
Shape(r) ==
  /\ req[r].pc = "idle" => req[r] = Idle
  /\ req[r].pc # "idle" => req[r].op # "none"
  /\ req[r].pc = "upload" => req[r].op \in {"create", "replace"}
  /\ req[r].pc = "clean" => req[r].op = "replace"
  /\ req[r].op \in {"create", "replace"} => req[r].key # "none"
  /\ req[r].op \in {"rename", "video"} => req[r].key = "none" /\ req[r].old = "none"
  /\ req[r].op # "create" /\ req[r].pc # "idle" => req[r].candidate \in Candidates
  /\ req[r].op = "replace" =>
        /\ req[r].old \notin {"none", req[r].key}
        /\ \A c \in Candidates : media[c] = req[r].old => c = req[r].candidate

(* What is about to be deleted from the bucket shows in no row, and what is   *)
(* about to be saved in a row is in the bucket: uploads come before their     *)
(* rows, deletions after, and no two requests or rows share a key that no     *)
(* unclear COMMIT has saved.                                                  *)
Pending(r) == req[r].key # "none" /\ req[r].key \notin unclear /\ req[r].pc # "clean"
Safe(r) ==
  /\ req[r].key \in unclear => req[r].pc = "discard"
  /\ Pending(r) =>
        /\ req[r].pc \notin {"upload", "discard"} => req[r].key \in stored
        /\ \A c \in Candidates : media[c] # req[r].key
        /\ \A q \in Requests \ {r} : req[r].key \notin {req[q].key, req[q].old}
  /\ req[r].pc = "clean" => \A c \in Candidates : media[c] # req[r].old
(* Every pending upload and deletion is safe, in every request at once. *)
DeletionsAreSafe == /\ KeysAreKnown
                    /\ OneRowPerKey
                    /\ \A r \in Requests : Shape(r) /\ Safe(r)

(* Every image a candidate row points to is in the bucket, at every moment    *)
(* and whatever requests overlap, fail or stop half-way: players get a broken *)
(* image only where the answer to a COMMIT was lost and the error path of the *)
(* code deletes what it has just saved.                                       *)
LiveKeysStored ==
  \A c \in Candidates : media[c] \in Keys => media[c] \in stored \cup unclear

(* Once no request is in flight the bucket holds only images that a candidate *)
(* row points to: failed saves and replacements clean up after themselves.    *)
NothingLeftBehind ==
  (\A r \in Requests : req[r] = Idle) => \A k \in stored : \E c \in Candidates : media[c] = k

(* CANDIDATE_DELETION_POLICY.md 8: if the deletion is the first to complete,  *)
(* the edit fails and its media change is rolled back.                        *)
EditsSpareDeleted == [][\A c \in deleted : media'[c] = media[c] /\ name'[c] = name[c]]_vars

(* updateOne keeps to that, although it found the candidate active before:    *)
(* what still changes a deleted one is updateStaticImage.                     *)
VideosSpareDeleted ==
  [][\A c \in deleted : media'[c] # media[c] \/ name'[c] # name[c]
        => \E r \in Requests : /\ req[r].candidate = c
                              /\ req[r].pc = "commit"
                              /\ req[r].op \in {"replace", "rename"}]_vars

(* What is seen of a candidate, and what a request is still to save.          *)
Seen(c) == IF media[c] \in Keys \ stored THEN "missing" ELSE media[c]
Demand(x) == IF x.pc \in {"upload", "find", "media", "name", "commit"}
             THEN [op |-> x.op, candidate |-> x.candidate, image |-> x.key]
             ELSE [op |-> "none", candidate |-> "none", image |-> "none"]
Gallery == INSTANCE ImageStore WITH
          Images <- Keys,
          image <- [c \in Candidates |-> Seen(c)],
          doubtful <- unclear,
          asked <- [r \in Requests |-> Demand(req[r])]

(* Uploads, statements, commits and deletions of overlapping requests, with   *)
(* every fault, add up to requests that save an image and a name at once and  *)
(* once, or nothing; no image is lost but by an answer that was lost.  The    *)
(* store does not say what a removal forbids: that is EditsSpareDeleted.      *)
ImplementsImageStore == Gallery!Spec

(* Every request is answered: nobody waits for a row lock for ever.           *)
RequestsFinish == \A r \in Requests : req[r].pc # "idle" ~> req[r].pc = "idle"
=============================================================================
