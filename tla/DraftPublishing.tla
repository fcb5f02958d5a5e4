--------------------------- MODULE DraftPublishing ---------------------------
(* The draft of a world cup that the automation writes: each candidate is     *)
(* committed PRIVATE and then attributed to its photo's source in a second    *)
(* request step, and publishAutomationDraft checks the attributions and makes *)
(* the draft PUBLIC.  The member who owns it may edit it all the while with   *)
(* the management API (CandidateMedia has the objects of these images).       *)
EXTENDS Naturals, FiniteSets

CONSTANTS Candidates, Requests,
          MaxEdits   \* how many edits the owner makes

ASSUME CandidatesAssumption == IsFiniteSet(Candidates)
ASSUME EditsAssumption == MaxEdits \in Nat

VARIABLES
  image,    \* what each candidate shows
  source,   \* its media row has the five source fields
  visible,  \* candidates whose visibleType is PUBLIC
  deleted,  \* candidates with a deletedAt
  public,   \* the world cup's visibleType is PUBLIC
  req,      \* the automation's requests in flight
  edits,    \* how many edits there have been
  chosen,   \* candidates the owner saved as PUBLIC last (history)
  late      \* candidates written between a publication's check and its commit,
            \* or attributed after their photo was replaced (history)

draft == <<image, source, visible, deleted, public, req, edits, chosen, late>>

Request == [pc : {"idle", "find", "attribute", "sources", "update", "commit"},
            cands : SUBSET Candidates]  \* the candidate created, or those to publish
Idle == [pc |-> "idle", cands |-> {}]

(* The candidates that are there. *)
Active == {c \in Candidates : image[c] # "none"} \ deleted
(* The candidates players are offered. *)
Offered == visible \cap Active

(* The rows and the requests in flight; what a publication has updated is     *)
(* there until it commits.                                                    *)
DraftTypeOK == /\ image \in [Candidates -> {"none", "photo", "upload", "video"}]
               /\ source \in [Candidates -> BOOLEAN]
               /\ visible \subseteq Candidates
               /\ deleted \subseteq Candidates
               /\ public \in BOOLEAN
               /\ req \in [Requests -> Request]
               /\ \A r \in Requests : req[r].pc = "commit" => req[r].cands \subseteq Active
               /\ edits \in 0..MaxEdits
               /\ chosen \subseteq Candidates
               /\ late \subseteq Candidates

DraftInit == /\ image = [c \in Candidates |-> "none"]
             /\ source = [c \in Candidates |-> FALSE]
             /\ visible = {}
             /\ deleted = {}
             /\ public = FALSE
             /\ req = [r \in Requests |-> Idle]
             /\ edits = 0
             /\ chosen = {}
             /\ late = {}

(* A publication has read the candidates and not yet updated them. *)
Checking == \E r \in Requests : req[r].pc \in {"sources", "update"}
(* updateMany holds the row of c until the commit. *)
Locked(c) == \E r \in Requests : req[r].pc = "commit" /\ c \in req[r].cands

LateIfChecking(c) == late' = IF Checking THEN late \cup {c} ELSE late
Become(r, x) == req' = [req EXCEPT ![r] = x]
-----------------------------------------------------------------------------
(* createStaticCandidate: createStaticImage commits a PRIVATE candidate, *)
CreateStaticCandidate(r, c) ==
  /\ req[r] = Idle
  /\ image[c] = "none"
  /\ image' = [image EXCEPT ![c] = "photo"]
  /\ LateIfChecking(c)
  /\ Become(r, [pc |-> "find", cands |-> {c}])
  /\ UNCHANGED <<source, visible, deleted, public, edits, chosen>>

(* then saveCandidateAttribution finds its media row, 404 if it was deleted, *)
FindMedia(r) ==
  /\ req[r].pc = "find"
  /\ IF req[r].cands \subseteq Active THEN Become(r, [req[r] EXCEPT !.pc = "attribute"])
     ELSE Become(r, Idle)
  /\ UNCHANGED <<image, source, visible, deleted, public, edits, chosen, late>>

(* and updates it, whatever it shows by now. *)
SaveAttribution(r) ==
  /\ req[r].pc = "attribute"
  /\ source' = [c \in Candidates |-> c \in req[r].cands \/ source[c]]
  /\ late' = late \cup {c \in req[r].cands : image[c] # "photo"}
  /\ Become(r, Idle)
  /\ UNCHANGED <<image, visible, deleted, public, edits, chosen>>

(* publishAutomationDraft: the active candidates are read, *)
ReadCandidates(r) ==
  /\ req[r] = Idle
  /\ Cardinality(Active) >= 2
  /\ Become(r, [pc |-> "sources", cands |-> Active])
  /\ UNCHANGED <<image, source, visible, deleted, public, edits, chosen, late>>

(* then their media rows; a missing attribution refuses the publication.      *)
CheckSources(r) ==
  /\ req[r].pc = "sources"
  /\ IF \A c \in req[r].cands : source[c] THEN Become(r, [req[r] EXCEPT !.pc = "update"])
     ELSE Become(r, Idle)
  /\ UNCHANGED <<image, source, visible, deleted, public, edits, chosen, late>>

(* Variant: the candidates that were read are updated, deleted or not. *)
UpdateReadCandidates(r) ==
  /\ req[r].pc = "update"
  /\ \A c \in req[r].cands : ~Locked(c)
  /\ Become(r, [req[r] EXCEPT !.pc = "commit"])
  /\ UNCHANGED <<image, source, visible, deleted, public, edits, chosen, late>>

(* Every candidate active by now is updated: not only those checked. *)
UpdateCandidates(r) ==
  /\ req[r].pc = "update"
  /\ \A c \in Active : ~Locked(c)
  /\ Become(r, [pc |-> "commit", cands |-> Active])
  /\ UNCHANGED <<image, source, visible, deleted, public, edits, chosen, late>>

CommitPublication(r) ==
  /\ req[r].pc = "commit"
  /\ visible' = visible \cup req[r].cands
  /\ public' = TRUE
  /\ Become(r, Idle)
  /\ UNCHANGED <<image, source, deleted, edits, chosen, late>>

(* An error, a rollback or a stop: a created candidate stays, unattributed. *)
Fail(r) ==
  /\ req[r] # Idle
  /\ Become(r, Idle)
  /\ UNCHANGED <<image, source, visible, deleted, public, edits, chosen, late>>
-----------------------------------------------------------------------------
Edit == edits < MaxEdits /\ edits' = edits + 1

(* The owner's transactions save the visibility they are given.               *)
SaveVisible(c, v) ==
  /\ visible' = IF v THEN visible \cup {c} ELSE visible \ {c}
  /\ chosen' = IF v THEN chosen \cup {c} ELSE chosen \ {c}
  /\ LateIfChecking(c)

(* createStaticImage, createOne and createMany. *)
AddCandidate(c, x, v) ==
  /\ Edit
  /\ image[c] = "none"
  /\ image' = [image EXCEPT ![c] = x]
  /\ SaveVisible(c, v)
  /\ UNCHANGED <<source, deleted, public, req>>

(* Variant: replacing an image leaves its attribution. *)
ReplaceImageOnly(c, v) ==
  /\ Edit
  /\ c \in Active /\ ~Locked(c)
  /\ image[c] \in {"photo", "upload"}
  /\ image' = [image EXCEPT ![c] = "upload"]
  /\ SaveVisible(c, v)
  /\ UNCHANGED <<source, deleted, public, req>>

(* updateStaticImage with a file: the attribution goes with the old image. *)
ReplaceImage(c, v) ==
  /\ Edit
  /\ c \in Active /\ ~Locked(c)
  /\ image[c] \in {"photo", "upload"}
  /\ image' = [image EXCEPT ![c] = "upload"]
  /\ source' = [source EXCEPT ![c] = FALSE]
  /\ SaveVisible(c, v)
  /\ UNCHANGED <<deleted, public, req>>

(* updateStaticImage without one. *)
UpdateCandidate(c, v) ==
  /\ Edit
  /\ c \in Active /\ ~Locked(c)
  /\ image[c] \in {"photo", "upload"}
  /\ SaveVisible(c, v)
  /\ UNCHANGED <<image, source, deleted, public, req>>

(* updateOne: a video takes the image's place and keeps its attribution. *)
SetVideo(c, v) ==
  /\ Edit
  /\ c \in Active /\ ~Locked(c)
  /\ image' = [image EXCEPT ![c] = "video"]
  /\ SaveVisible(c, v)
  /\ UNCHANGED <<source, deleted, public, req>>

(* remove of manage-world-cup-contents.service.ts. *)
RemoveCandidate(c) ==
  /\ Edit
  /\ c \in Active /\ ~Locked(c)
  /\ deleted' = deleted \cup {c}
  /\ UNCHANGED <<image, source, visible, public, req, chosen, late>>

(* update of manage-world-cups.service.ts. *)
UpdateWorldCup(v) ==
  /\ Edit
  /\ public' = v
  /\ UNCHANGED <<image, source, visible, deleted, req, chosen, late>>
-----------------------------------------------------------------------------
Automation == \E r \in Requests :
  \/ \E c \in Candidates : CreateStaticCandidate(r, c)
  \/ FindMedia(r) \/ SaveAttribution(r)
  \/ ReadCandidates(r) \/ CheckSources(r) \/ UpdateCandidates(r) \/ CommitPublication(r)
  \/ Fail(r)

Owner == \/ \E c \in Candidates, v \in BOOLEAN :
              \/ \E x \in {"upload", "video"} : AddCandidate(c, x, v)
              \/ ReplaceImage(c, v) \/ UpdateCandidate(c, v) \/ SetVideo(c, v)
         \/ \E c \in Candidates : RemoveCandidate(c)
         \/ \E v \in BOOLEAN : UpdateWorldCup(v)

DraftNext == Automation \/ Owner

DraftSpec == DraftInit /\ [][DraftNext]_draft

(* publishWorldCup: published after its sources were verified.  A candidate   *)
(* offered to players shows the photo its attribution names, unless the owner *)
(* made it PUBLIC himself or into a video, or it was written after the check  *)
(* of a publication that then published it, or its photo was replaced while   *)
(* its attribution was being saved.                                           *)
OfferedAreAttributed ==
  \A c \in Offered : \/ source[c] /\ image[c] = "photo"
                     \/ image[c] = "video"
                     \/ c \in chosen \cup late
=============================================================================
