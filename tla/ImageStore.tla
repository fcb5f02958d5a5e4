----------------------------- MODULE ImageStore -----------------------------
(* What an owner is promised about the images of his candidates, whatever     *)
(* fails: a request saves its image and its name at once, or nothing, and     *)
(* once; the image can be seen until it is replaced.  One is lost only if the *)
(* owner was told of a failure that was none.  Whether a removed candidate    *)
(* may still be edited is no concern of this store.                           *)
CONSTANTS Candidates, Images, Requests

VARIABLES image,    \* what is seen of a candidate: an image, "video", "missing",
                    \* or "none" before there is one
          name,     \* the request that named it
          doubtful, \* images saved by requests that seemed to fail
          asked     \* what each request is to save

vars == <<image, name, doubtful, asked>>

Nothing == [op |-> "none", candidate |-> "none", image |-> "none"]

Init == /\ image = [c \in Candidates |-> "none"]
        /\ name = [c \in Candidates |-> "none"]
        /\ doubtful = {}
        /\ asked = [r \in Requests |-> Nothing]

Unused(k) == /\ k \notin doubtful
             /\ \A c \in Candidates : image[c] # k
             /\ \A r \in Requests : asked[r].image # k

AskCreate(r, k) ==
  /\ asked[r] = Nothing /\ Unused(k)
  /\ asked' = [asked EXCEPT ![r] = [op |-> "create", candidate |-> "none", image |-> k]]
  /\ UNCHANGED <<image, name, doubtful>>

AskReplace(r, c, k) ==
  /\ asked[r] = Nothing /\ Unused(k)
  /\ image[c] \notin {"none", "video"}
  /\ asked' = [asked EXCEPT ![r] = [op |-> "replace", candidate |-> c, image |-> k]]
  /\ UNCHANGED <<image, name, doubtful>>

AskEdit(r, c, op) ==
  /\ asked[r] = Nothing
  /\ asked' = [asked EXCEPT ![r] = [op |-> op, candidate |-> c, image |-> "none"]]
  /\ UNCHANGED <<image, name, doubtful>>

(* A new candidate is one that was not there. *)
Target(r, c) == IF asked[r].op = "create" THEN image[c] = "none" ELSE c = asked[r].candidate
Saved(r, c) == CASE asked[r].op = "video" -> "video"
                 [] asked[r].op = "rename" -> image[c]
                 [] OTHER -> asked[r].image

(* Saved, and answered so or not. *)
Save(r, c) ==
  /\ asked[r] # Nothing /\ Target(r, c)
  /\ image' = [image EXCEPT ![c] = Saved(r, c)]
  /\ name' = [name EXCEPT ![c] = r]
  /\ asked' = [asked EXCEPT ![r] = Nothing]
  /\ doubtful' \in {doubtful, doubtful \cup ({asked[r].image} \ {"none"})}

Refuse(r) == /\ asked[r] # Nothing
             /\ asked' = [asked EXCEPT ![r] = Nothing]
             /\ UNCHANGED <<image, name, doubtful>>

Lose(c) == /\ image[c] \in doubtful
           /\ image' = [image EXCEPT ![c] = "missing"]
           /\ UNCHANGED <<name, doubtful, asked>>

Next == \/ \E r \in Requests :
             \/ \E k \in Images : AskCreate(r, k) \/ \E c \in Candidates : AskReplace(r, c, k)
             \/ \E c \in Candidates, op \in {"rename", "video"} : AskEdit(r, c, op)
             \/ \E c \in Candidates : Save(r, c)
             \/ Refuse(r)
        \/ \E c \in Candidates : Lose(c)

Spec == Init /\ [][Next]_vars
=============================================================================
