----------------------- MODULE WorldCupRemovalProofs -----------------------
(* Theorems about WorldCupRemoval for any number of images, plays, comments,  *)
(* requests and attempts.                                                     *)
EXTENDS WorldCupRemoval, FiniteSetTheorems, TLAPS

(* What a request record says of its request.                                 *)
Pending(x) == x.op \in {"create", "replace"} /\ x.pc # "clean"
Refers(x) == \/ x.op = "save" /\ x.pc \in {"candidates", "commit"}
             \/ x.op = "create" /\ x.pc = "commit"
Replaces(x) == x.op = "replace" /\ x.pc = "commit"
Deleting(x) == x.op = "remove" /\ x.pc # "objects"
Drops(x) == x.op = "remove" /\ x.pc = "commit"
(* InFlight, for one request. *)
Keeps(x, k) == \/ x.pc # "clean" /\ x.key = k
               \/ x.pc = "clean" /\ x.old = k
               \/ x.pc = "objects" /\ k \in x.keys

(* The steps of each operation, and the fields it uses.                       *)
Shape(x) ==
  /\ x.pc = "idle" <=> x.op = "none"
  /\ x.op \in {"none", "save", "remove"} => x.key = 0
  /\ x.op = "save" => x.pc \in {"refer", "candidates", "commit"} /\ x.row \in Rows
  /\ x.op = "save" /\ x.pc = "refer" => x.held = {}
  /\ x.op = "create" => x.pc \in {"refer", "commit"} /\ x.key # 0
  /\ x.op = "replace" => /\ x.pc \in {"media", "candidate", "commit", "clean"}
                         /\ x.key # 0 /\ x.old # 0 /\ x.key # x.old
                         /\ \E c \in Images : x.media = {c}
  /\ x.op = "remove" => x.pc \in {"comments", "plays", "candidates", "media", "cup",
                                  "commit", "objects"}

(* An upload is in no row yet, and in the bucket while it may be saved.       *)
UploadOK(x) == Pending(x) => /\ x.key <= drawn
                             /\ key[x.key] = 0
                             /\ \A c \in Images : key[c] # x.key
                             /\ cup => x.key \in stored
(* The key a replacement read first is in no row but its own.                 *)
OldOK(x) == x.op = "replace" => /\ x.old <= drawn
                                /\ \A d \in Images : key[d] = x.old => x.pc # "clean" /\ d \in x.media
(* Row locks keep the rows that a request refers to, updates or deletes.      *)
CupOK(x) == /\ Refers(x) => cup
            /\ x.op = "save" => x.held \subseteq candidates
            /\ Replaces(x) => x.media \subseteq candidates
            /\ Drops(x) => cup /\ candidates \subseteq x.held
            /\ x.pc = "objects" => ~cup
(* What a removal has read is still so when it commits, but for what was      *)
(* created meanwhile.                                                         *)
RemovalOK(x) ==
  Deleting(x) /\ cup =>
    /\ candidates \ x.media \subseteq late
    /\ x.pc = "candidates" => candidates \ (x.todo \cup x.held) \subseteq late
    /\ x.pc \in {"media", "cup", "commit"} => /\ x.keys = {key[c] : c \in x.media}
                                              /\ \A c \in x.media : key[c] # 0
                                              /\ x.media \cap candidates \subseteq x.held
Own(x) == UploadOK(x) /\ OldOK(x) /\ CupOK(x) /\ RemovalOK(x)

(* Two requests: keys are drawn once, and row locks exclude each other.       *)
Apart(x, y) ==
  /\ Pending(x) /\ Pending(y) => x.key # y.key
  /\ x.op = "replace" /\ Pending(y) => y.key # x.old
  /\ Deleting(x) /\ Replaces(y) => x.held \cap y.media = {}
  /\ Drops(x) => ~Refers(y) /\ ~Replaces(y) /\ ~Drops(y)

(* The media rows: an image is in one row, and the rows of candidates have    *)
(* theirs in the bucket.                                                      *)
KeysInv == /\ \A c \in Images : key[c] <= drawn /\ (key[c] # 0 => c <= drawn)
           /\ \A c, d \in Images : key[c] = key[d] /\ key[c] # 0 => c = d
           /\ \A c \in candidates : key[c] # 0 /\ key[c] \in stored

IInv == /\ TypeOK
        /\ KeysInv
        /\ NoRowOutlives
        /\ ObjectsAccounted
        /\ \A r \in Requests : Shape(req[r]) /\ Own(req[r])
        /\ \A r, q \in Requests : r # q => Apart(req[r], req[q])

(* The keys are natural numbers, 0 is none of an image.                       *)
LEMMA ImagesAreNumbers ==
  /\ MaxImages \in Nat /\ Images \subseteq Nat \ {0} /\ 0 \in 0..MaxImages
  /\ Images \subseteq 0..MaxImages /\ 0 \in 0..(Attempts - 1) /\ Attempts \in Nat \ {0}
  BY BoundsAssumption DEF BoundsAssumption, Images

(* What an assignment to one request's record does to req.                    *)
LEMMA BecomeSetsOne ==
  ASSUME TypeOK, NEW r \in Requests, NEW x \in Request, Become(r, x)
  PROVE  /\ req' \in [Requests -> Request]
         /\ req'[r] = x
         /\ \A q \in Requests : q # r => req'[q] = req[q]
  BY DEF TypeOK, Become

(* The request record without a request.                                      *)
LEMMA IdleIsRequest ==
  /\ Idle \in Request /\ Idle.pc = "idle" /\ Idle.op = "none" /\ Idle.key = 0 /\ Idle.old = 0
  /\ Idle.media = {} /\ Idle.todo = {} /\ Idle.held = {} /\ Idle.keys = {}
  BY ImagesAreNumbers DEF Idle, Request, Steps

(* A record that only has another step.                                       *)
LEMMA GotoFacts ==
  ASSUME TypeOK, NEW r \in Requests, NEW s \in Steps
  PROVE  LET y == req[r]
             x == [y EXCEPT !.pc = s]
         IN /\ x \in Request /\ x.pc = s /\ x.op = y.op /\ x.row = y.row /\ x.key = y.key
            /\ x.old = y.old /\ x.media = y.media /\ x.todo = y.todo /\ x.held = y.held
            /\ x.gone = y.gone /\ x.keys = y.keys /\ x.attempt = y.attempt
  BY DEF TypeOK, Request

(* Initially there is a world cup and nothing below it.                       *)
LEMMA InitInvariant == Init => IInv
<1> SUFFICES ASSUME Init PROVE IInv
  OBVIOUS
<1>1. TypeOK
  BY IdleIsRequest, ImagesAreNumbers DEF Init, TypeOK
<1>2. KeysInv /\ NoRowOutlives /\ ObjectsAccounted
  BY ImagesAreNumbers DEF Init, KeysInv, NoRowOutlives, ObjectsAccounted, Committed
<1>3. ASSUME NEW r \in Requests PROVE Shape(req[r]) /\ Own(req[r])
  BY IdleIsRequest DEF Init, Shape, Own, UploadOK, OldOK, CupOK, RemovalOK, Pending, Refers, Replaces,
                       Drops, Deleting
<1>4. ASSUME NEW r \in Requests, NEW q \in Requests PROVE Apart(req[r], req[q])
  BY IdleIsRequest DEF Init, Apart, Pending, Refers, Replaces, Drops, Deleting
<1> QED
  BY <1>1, <1>2, <1>3, <1>4 DEF IInv
-----------------------------------------------------------------------------
(* A request goes on or ends; the media rows stay, objects may go.            *)
LEMMA Moves ==
  ASSUME IInv, NEW r \in Requests, NEW x \in Request, Become(r, x),
         UNCHANGED <<cup, candidates, key, drawn, late>>,
         on' \in [Rows -> SUBSET Images], NoRowOutlives',
         stored' \subseteq stored, abandoned \subseteq abandoned', abandoned' \subseteq Images,
         \A c \in candidates : key[c] \in stored',
         \A q \in Requests \ {r} : Pending(req[q]) /\ cup => req[q].key \in stored',
         \A k \in stored' : Keeps(req[r], k) => Keeps(x, k) \/ k \in abandoned',
         Shape(x), Own(x)', \A q \in Requests \ {r} : Apart(x, req[q]) /\ Apart(req[q], x)
  PROVE  IInv'
<1>1. /\ req' \in [Requests -> Request]
      /\ req'[r] = x
      /\ \A q \in Requests : q # r => req'[q] = req[q]
  BY BecomeSetsOne DEF IInv
<1>2. TypeOK'
  BY <1>1 DEF IInv, TypeOK
<1>3. KeysInv'
  BY DEF IInv, KeysInv
<1>4. ObjectsAccounted'
  <2> SUFFICES ASSUME NEW k \in stored', k \notin abandoned',
                      ~\E c \in candidates \cup late : key[c] = k
               PROVE  \E q \in Requests : Keeps(req'[q], k)
    BY DEF ObjectsAccounted, InFlight, Keeps
  <2>1. PICK q \in Requests : Keeps(req[q], k)
    BY DEF IInv, ObjectsAccounted, InFlight, Keeps
  <2>2. CASE q = r
    BY <1>1, <2>1, <2>2
  <2>3. CASE q # r
    BY <1>1, <2>1, <2>3
  <2> QED
    BY <2>2, <2>3
<1>5. ASSUME NEW q \in Requests PROVE Shape(req[q])' /\ Own(req[q])'
  <2>1. CASE q = r
    BY <1>1, <2>1 DEF Shape, Own, UploadOK, OldOK, CupOK, RemovalOK
  <2>2. CASE q # r
    <3>1. req'[q] = req[q] /\ Shape(req[q]) /\ Own(req[q])
      BY <1>1, <2>2 DEF IInv
    <3>2. Pending(req[q]) /\ cup => req[q].key \in stored'
      BY <2>2
    <3> QED
      BY <3>1, <3>2 DEF Shape, Own, UploadOK, OldOK, CupOK, RemovalOK, Pending
  <2> QED
    BY <2>1, <2>2
<1>6. ASSUME NEW p \in Requests, NEW q \in Requests, p # q PROVE Apart(req[p], req[q])'
  <2>1. CASE p # r /\ q # r
    BY <1>1, <1>6, <2>1 DEF IInv, Apart
  <2>2. CASE p = r
    BY <1>1, <1>6, <2>2 DEF Apart
  <2>3. CASE q = r
    BY <1>1, <1>6, <2>3 DEF Apart
  <2> QED
    BY <2>1, <2>2, <2>3
<1> QED
  BY <1>2, <1>3, <1>4, <1>5, <1>6 DEF IInv

(* A request goes on and nothing else changes.                                *)
LEMMA GoesOn ==
  ASSUME IInv, NEW r \in Requests, NEW x \in Request, Become(r, x),
         UNCHANGED <<database, stored, drawn, history>>,
         \A k \in Images : Keeps(req[r], k) => Keeps(x, k),
         Shape(x), Own(x), \A q \in Requests \ {r} : Apart(x, req[q]) /\ Apart(req[q], x)
  PROVE  IInv'
<1>1. UNCHANGED <<cup, candidates, key, on, stored, drawn, late, abandoned>>
  BY DEF database, history
<1>2. on' \in [Rows -> SUBSET Images] /\ abandoned' \subseteq Images /\ stored' \subseteq Images
  BY <1>1 DEF IInv, TypeOK
<1>3. NoRowOutlives'
  BY <1>1 DEF IInv, NoRowOutlives, Committed
<1>4. \A c \in candidates : key[c] \in stored'
  BY <1>1 DEF IInv, KeysInv
<1>5. \A q \in Requests \ {r} : Pending(req[q]) /\ cup => req[q].key \in stored'
  BY <1>1 DEF IInv, Own, UploadOK
<1>6. Own(x)'
  BY <1>1 DEF Own, UploadOK, OldOK, CupOK, RemovalOK
<1> QED
  BY <1>1, <1>2, <1>3, <1>4, <1>5, <1>6, Moves

(* A request that only has objects left to delete, or is over.                *)
Over(x) == x = Idle \/ (x.op = "remove" /\ x.pc = "objects" /\ x.key = 0 /\ ~cup)

(* It stands in nobody's way.                                                *)
LEMMA OverIsApart ==
  ASSUME NEW x \in Request, Over(x)
  PROVE  Shape(x) /\ Own(x) /\ \A y \in Request : Apart(x, y) /\ Apart(y, x)
  BY IdleIsRequest DEF Over, Shape, Own, UploadOK, OldOK, CupOK, RemovalOK, Apart, Pending, Refers,
                       Replaces, Drops, Deleting

(* It ends, or deletes objects, which are in no row and pending for nobody.   *)
LEMMA Ends ==
  ASSUME IInv, NEW r \in Requests, NEW x \in Request, Become(r, x), Over(x),
         UNCHANGED <<database, drawn, late>>, stored' \subseteq stored,
         abandoned \subseteq abandoned', abandoned' \subseteq Images,
         \A c \in candidates : key[c] \in stored',
         \A q \in Requests \ {r} : Pending(req[q]) /\ cup => req[q].key \in stored',
         \A k \in stored' : Keeps(req[r], k) => Keeps(x, k) \/ k \in abandoned'
  PROVE  IInv'
<1>1. UNCHANGED <<cup, candidates, key, on, drawn, late>>
  BY DEF database
<1>2. on' \in [Rows -> SUBSET Images] /\ NoRowOutlives'
  BY <1>1 DEF IInv, TypeOK, NoRowOutlives, Committed
<1>3. Shape(x) /\ \A q \in Requests \ {r} : Apart(x, req[q]) /\ Apart(req[q], x)
  BY OverIsApart DEF IInv, TypeOK
<1>4. Own(x)'
  BY <1>1, IdleIsRequest DEF Over, Own, UploadOK, OldOK, CupOK, RemovalOK, Pending, Refers, Replaces,
                             Drops, Deleting
<1> QED
  BY <1>1, <1>2, <1>3, <1>4, Moves

(* A rollback: the upload it deletes is in no row.                            *)
LEMMA AbortInvariant ==
  ASSUME IInv, NEW r \in Requests, Abort(r), req[r].pc \notin {"idle", "clean", "objects"}
  PROVE  IInv'
<1>1. /\ stored' = stored \ {req[r].key} /\ Become(r, Idle) /\ UNCHANGED <<database, drawn, history>>
      /\ Shape(req[r]) /\ Own(req[r])
  BY DEF Abort, IInv
<1>2. Idle \in Request /\ Over(Idle) /\ 0 \notin stored
  BY IdleIsRequest, ImagesAreNumbers DEF Over, IInv, TypeOK
<1>3. \A c \in candidates : key[c] \in stored'
  <2>1. CASE Pending(req[r])
    BY <1>1, <2>1 DEF Own, UploadOK, IInv, KeysInv, TypeOK
  <2>2. CASE ~Pending(req[r])
    BY <1>1, <1>2, <2>2 DEF Pending, Shape, IInv, KeysInv, TypeOK, Request
  <2> QED
    BY <2>1, <2>2
<1>4. ASSUME NEW q \in Requests \ {r}, Pending(req[q]), cup PROVE req[q].key \in stored'
  <2>1. req[q].key \in stored /\ req[q].key # 0 /\ Apart(req[q], req[r])
    BY <1>4 DEF IInv, Own, UploadOK, Shape, Pending
  <2>2. req[q].key # req[r].key
    BY <1>1, <1>4, <2>1 DEF Apart, Pending, Shape, IInv, TypeOK, Request
  <2> QED
    BY <1>1, <2>1, <2>2
<1>5. \A k \in stored' : ~Keeps(req[r], k)
  BY <1>1 DEF Keeps
<1>6. abandoned' = abandoned /\ late' = late /\ abandoned \subseteq Images
  BY <1>1 DEF history, IInv, TypeOK
<1> QED
  BY <1>1, <1>2, <1>3, <1>4, <1>5, <1>6, Ends
-----------------------------------------------------------------------------
(* An upload with a new key.                                                  *)
LEMMA UploadInvariant ==
  ASSUME IInv, NEW r \in Requests, NEW x \in Request, Become(r, x), UNCHANGED <<database, history>>,
         req[r].pc = "idle", drawn < MaxImages, drawn' = drawn + 1,
         stored' = stored \cup {drawn'}, x.key = drawn',
         \/ x.op = "create" /\ x.pc = "refer"
         \/ /\ x.op = "replace" /\ x.pc = "media"
            /\ \E c \in candidates : x.old = key[c] /\ x.media = {c}
  PROVE  IInv'
<1>1. /\ req' \in [Requests -> Request]
      /\ req'[r] = x
      /\ \A q \in Requests : q # r => req'[q] = req[q]
  BY BecomeSetsOne DEF IInv
<1>2. /\ UNCHANGED <<cup, candidates, key, on, late, abandoned>>
      /\ drawn \in Nat /\ drawn' \in Images /\ drawn' = drawn + 1 /\ stored \subseteq stored'
      /\ \A c \in Images : key[c] \in Nat
      /\ candidates \subseteq Images
  BY ImagesAreNumbers DEF database, history, IInv, TypeOK, Images
<1>3. TypeOK'
  BY <1>1, <1>2, ImagesAreNumbers DEF IInv, TypeOK, Images
<1>4. KeysInv'
  BY <1>2, ImagesAreNumbers DEF IInv, KeysInv
<1>5. NoRowOutlives'
  BY <1>2 DEF IInv, NoRowOutlives, Committed
<1>6. \A c \in Images : key[c] # drawn' /\ key[drawn'] = 0
  BY <1>2, ImagesAreNumbers DEF IInv, KeysInv
<1>7. Shape(x)
  BY <1>2, <1>6, ImagesAreNumbers DEF Shape, IInv, KeysInv
<1>8. Own(x)'
  <2>1. UploadOK(x)'
    BY <1>2, <1>6 DEF UploadOK
  <2>2. OldOK(x)'
    BY <1>2 DEF OldOK, IInv, KeysInv
  <2>3. CupOK(x)' /\ RemovalOK(x)'
    BY DEF CupOK, RemovalOK, Refers, Replaces, Drops, Deleting
  <2> QED
    BY <2>1, <2>2, <2>3 DEF Own
<1>9. ASSUME NEW q \in Requests, q # r
      PROVE  Own(req[q])' /\ Apart(x, req[q]) /\ Apart(req[q], x)
  <2>1. req'[q] = req[q] /\ Own(req[q]) /\ Shape(req[q]) /\ req[q] \in Request
    BY <1>1, <1>9 DEF IInv, TypeOK
  <2>2. req[q].key \in Nat /\ req[q].old \in Nat
    BY <2>1, ImagesAreNumbers DEF Request
  <2>3. Own(req[q])'
    BY <1>2, <2>1, <2>2 DEF Own, UploadOK, OldOK, CupOK, RemovalOK
  <2>4. /\ Pending(req[q]) => req[q].key # drawn'
        /\ req[q].op = "replace" => req[q].old # drawn'
        /\ Pending(req[q]) => \A c \in Images : key[c] # req[q].key
    BY <1>2, <2>1, <2>2 DEF Own, UploadOK, OldOK
  <2>5. Apart(x, req[q]) /\ Apart(req[q], x)
    BY <1>2, <2>4 DEF Apart, Pending, Replaces, Deleting, Drops, Refers
  <2> QED
    BY <2>3, <2>5
<1>10. ObjectsAccounted'
  <2> SUFFICES ASSUME NEW k \in stored', k \notin abandoned,
                      ~\E c \in candidates \cup late : key[c] = k
               PROVE  \E q \in Requests : Keeps(req'[q], k)
    BY <1>2 DEF ObjectsAccounted, InFlight, Keeps
  <2>1. CASE k = drawn'
    BY <1>1, <2>1 DEF Keeps
  <2>2. CASE k # drawn'
    <3>1. k \in stored /\ k # 0
      BY <2>2, ImagesAreNumbers DEF IInv, TypeOK
    <3>2. PICK q \in Requests : Keeps(req[q], k)
      BY <3>1 DEF IInv, ObjectsAccounted, InFlight, Keeps
    <3>3. q # r
      BY <3>1, <3>2 DEF IInv, Shape, Keeps
    <3> QED
      BY <1>1, <3>2, <3>3
  <2> QED
    BY <2>1, <2>2
<1>11. ASSUME NEW q \in Requests PROVE Shape(req[q])' /\ Own(req[q])'
  <2>1. CASE q = r
    BY <1>1, <1>7, <1>8, <2>1 DEF Shape, Own, UploadOK, OldOK, CupOK, RemovalOK
  <2>2. CASE q # r
    BY <1>1, <1>9, <2>2 DEF IInv, Shape
  <2> QED
    BY <2>1, <2>2
<1>12. ASSUME NEW p \in Requests, NEW q \in Requests, p # q PROVE Apart(req[p], req[q])'
  <2>1. CASE p # r /\ q # r
    BY <1>1, <1>12, <2>1 DEF IInv, Apart
  <2>2. CASE p = r
    BY <1>1, <1>9, <1>12, <2>2 DEF Apart
  <2>3. CASE q = r
    BY <1>1, <1>9, <1>12, <2>3 DEF Apart
  <2> QED
    BY <2>1, <2>2, <2>3
<1> QED
  BY <1>3, <1>4, <1>5, <1>10, <1>11, <1>12 DEF IInv
-----------------------------------------------------------------------------
(* The commit of a save: its world cup and its candidates are there.          *)
LEMMA SaveInvariant ==
  ASSUME IInv, NEW r \in Requests, CommitSave(r)
  PROVE  IInv'
<1>1. /\ Own(req[r]) /\ Shape(req[r]) /\ req[r].op = "save" /\ req[r].pc = "commit"
      /\ req[r].row \in Rows /\ req[r].held \subseteq candidates /\ cup
  BY DEF CommitSave, IInv, Shape, Own, CupOK, Refers
<1>2. /\ UNCHANGED <<cup, candidates, key, stored, drawn, late, abandoned>> /\ Become(r, Idle)
      /\ on' = [on EXCEPT ![req[r].row] = req[r].held]
  BY DEF CommitSave, history
<1>3. on' \in [Rows -> SUBSET Images] /\ \A i \in Rows : on'[i] \subseteq candidates
  BY <1>1, <1>2 DEF IInv, TypeOK, NoRowOutlives
<1>4. NoRowOutlives'
  BY <1>1, <1>2, <1>3 DEF NoRowOutlives
<1>5. Idle \in Request /\ Over(Idle)
  BY IdleIsRequest DEF Over
<1>6. Shape(Idle) /\ Own(Idle) /\ \A q \in Requests \ {r} : Apart(Idle, req[q]) /\ Apart(req[q], Idle)
  BY <1>5, OverIsApart DEF IInv, TypeOK
<1>7. Own(Idle)'
  BY <1>2, <1>6 DEF Own, UploadOK, OldOK, CupOK, RemovalOK
<1>8. \A c \in candidates : key[c] \in stored'
  BY <1>2 DEF IInv, KeysInv
<1>9. \A q \in Requests \ {r} : Pending(req[q]) /\ cup => req[q].key \in stored'
  BY <1>2 DEF IInv, Own, UploadOK
<1>10. \A k \in stored' : ~Keeps(req[r], k)
  BY <1>1, <1>2, ImagesAreNumbers DEF Keeps, Shape, IInv, TypeOK
<1>11. abandoned' \subseteq Images
  BY <1>2 DEF IInv, TypeOK
<1> QED
  BY <1>2, <1>3, <1>4, <1>5, <1>6, <1>7, <1>8, <1>9, <1>10, <1>11, Moves

(* The three commits that write candidates or media rows have this in common. *)
LEMMA Assembled ==
  ASSUME IInv, NEW r \in Requests, NEW x \in Request, Become(r, x),
         TypeOK', KeysInv', NoRowOutlives', ObjectsAccounted', Shape(x), Own(x)',
         \A q \in Requests \ {r} : \A y \in Request : y = req[q] => Own(y)',
         \A q \in Requests \ {r} : Apart(x, req[q]) /\ Apart(req[q], x)
  PROVE  IInv'
<1>1. /\ req' \in [Requests -> Request]
      /\ req'[r] = x
      /\ \A q \in Requests : q # r => req'[q] = req[q]
  BY BecomeSetsOne DEF IInv
<1>2. ASSUME NEW q \in Requests PROVE Shape(req[q])' /\ Own(req[q])'
  <2>1. CASE q = r
    BY <1>1, <2>1 DEF Shape, Own, UploadOK, OldOK, CupOK, RemovalOK
  <2>2. CASE q # r
    <3>1. req'[q] = req[q] /\ req[q] \in Request /\ Shape(req[q])
      BY <1>1, <2>2 DEF IInv, TypeOK
    <3>2. PICK y \in Request : y = req[q]
      BY <3>1
    <3>3. Own(y)'
      BY <2>2, <3>2
    <3>4. Own(req[q])'
      BY <3>1, <3>2, <3>3 DEF Own, UploadOK, OldOK, CupOK, RemovalOK
    <3> QED
      BY <3>1, <3>4 DEF Shape
  <2> QED
    BY <2>1, <2>2
<1>3. ASSUME NEW p \in Requests, NEW q \in Requests, p # q PROVE Apart(req[p], req[q])'
  <2>1. CASE p # r /\ q # r
    BY <1>1, <1>3, <2>1 DEF IInv, Apart
  <2>2. CASE p = r
    BY <1>1, <1>3, <2>2 DEF Apart
  <2>3. CASE q = r
    BY <1>1, <1>3, <2>3 DEF Apart
  <2> QED
    BY <2>1, <2>2, <2>3
<1> QED
  BY <1>2, <1>3 DEF IInv

(* What is known of two requests, together.                                   *)
LEMMA Others ==
  ASSUME IInv, NEW r \in Requests, NEW q \in Requests, q # r
  PROVE  /\ req[q] \in Request /\ Shape(req[q]) /\ Own(req[q])
         /\ Apart(req[q], req[r]) /\ Apart(req[r], req[q])
  BY DEF IInv, TypeOK

(* The commit of a creation: a removal under way makes the candidate late.    *)
LEMMA CreateInvariant ==
  ASSUME IInv, NEW r \in Requests, CommitCreate(r)
  PROVE  IInv'
<1> DEFINE k == req[r].key
<1>1. /\ req[r].op = "create" /\ req[r].pc = "commit" /\ Own(req[r]) /\ cup
      /\ k \in Images /\ k <= drawn /\ key[k] = 0 /\ k \in stored
      /\ \A c \in Images : key[c] # k
  <2>1. /\ req[r].op = "create" /\ req[r].pc = "commit" /\ Own(req[r]) /\ Shape(req[r])
        /\ req[r].key \in 0..MaxImages
    BY DEF CommitCreate, IInv, TypeOK, Request
  <2>2. k \in Images
    BY <2>1, ImagesAreNumbers DEF Shape, Images
  <2> QED
    BY <2>1, <2>2 DEF Own, UploadOK, CupOK, Refers, Pending
<1>2. /\ candidates' = candidates \cup {k} /\ key' = [key EXCEPT ![k] = k]
      /\ UNCHANGED <<cup, on, stored, drawn, abandoned>> /\ Become(r, Idle)
      /\ late \subseteq late' /\ late' \subseteq late \cup {k}
      /\ \A q \in Requests : Removing(q) => k \in late'
  BY DEF CommitCreate
<1>3. key'[k] = k /\ \A c \in Images : c # k => key'[c] = key[c]
  BY <1>1, <1>2 DEF IInv, TypeOK
<1>4. TypeOK'
  <2>1. req' \in [Requests -> Request]
    BY <1>2, IdleIsRequest, BecomeSetsOne DEF IInv
  <2>2. key' \in [Images -> 0..MaxImages]
    BY <1>1, <1>2, ImagesAreNumbers DEF IInv, TypeOK
  <2> QED
    BY <1>1, <1>2, <2>1, <2>2 DEF IInv, TypeOK
<1>5. KeysInv'
  BY <1>1, <1>2, <1>3 DEF IInv, KeysInv, TypeOK
<1>6. NoRowOutlives'
  BY <1>1, <1>2 DEF IInv, NoRowOutlives, Committed
<1>7. ObjectsAccounted'
  <2> SUFFICES ASSUME NEW l \in stored, l \notin abandoned,
                      ~\E c \in candidates' \cup late' : key'[c] = l
               PROVE  \E q \in Requests : Keeps(req'[q], l)
    BY <1>2 DEF ObjectsAccounted, InFlight, Keeps
  <2>1. l # k /\ l # 0 /\ l \in Images
    BY <1>1, <1>2, <1>3, ImagesAreNumbers DEF IInv, TypeOK
  <2>2. ~\E c \in candidates \cup late : key[c] = l
    BY <1>1, <1>2, <1>3, <2>1 DEF IInv, TypeOK
  <2>3. PICK q \in Requests : Keeps(req[q], l)
    BY <2>2 DEF IInv, ObjectsAccounted, InFlight, Keeps
  <2>4. q # r
    BY <1>1, <2>1, <2>3 DEF Keeps
  <2>5. req'[q] = req[q]
    BY <1>2, <2>4, IdleIsRequest, BecomeSetsOne DEF IInv
  <2> QED
    BY <2>3, <2>5
<1>8. ASSUME NEW q \in Requests \ {r}, NEW y \in Request, y = req[q] PROVE Own(y)'
  <2>1. Shape(y) /\ Own(y) /\ Apart(y, req[r])
    BY <1>8, Others
  <2>2. UploadOK(y)'
    <3>1. Pending(y) => y.key # k /\ y.key \in Images
      BY <1>1, <2>1, ImagesAreNumbers DEF Apart, Pending, Shape, Request, Images
    <3> QED
      BY <1>2, <1>3, <2>1, <3>1 DEF Own, UploadOK
  <2>3. OldOK(y)'
    <3>1. y.op = "replace" => y.old # k
      BY <1>1, <2>1 DEF Apart, Pending
    <3> QED
      BY <1>2, <1>3, <2>1, <3>1 DEF Own, OldOK
  <2>4. CupOK(y)'
    <3>1. ~Drops(y)
      BY <1>1, <2>1 DEF Apart, Refers
    <3> QED
      BY <1>2, <2>1, <3>1 DEF Own, CupOK
  <2>5. RemovalOK(y)'
    <3> SUFFICES ASSUME Deleting(y) PROVE RemovalOK(y)'
      BY DEF RemovalOK
    <3>1. k \in late'
      BY <1>2, <1>8 DEF Removing, Deleting
    <3>2. candidates' \ y.media \subseteq late'
      BY <1>1, <1>2, <2>1, <3>1 DEF Own, RemovalOK
    <3>3. y.pc = "candidates" => candidates' \ (y.todo \cup y.held) \subseteq late'
      BY <1>1, <1>2, <2>1, <3>1 DEF Own, RemovalOK
    <3>4. ASSUME y.pc \in {"media", "cup", "commit"}
          PROVE  /\ y.keys = {key'[c] : c \in y.media}
                 /\ \A c \in y.media : key'[c] # 0
                 /\ y.media \cap candidates' \subseteq y.held
      <4>1. /\ y.keys = {key[c] : c \in y.media} /\ \A c \in y.media : key[c] # 0
            /\ y.media \cap candidates \subseteq y.held /\ y.media \subseteq Images
        BY <1>1, <2>1, <3>4 DEF Own, RemovalOK, Request
      <4>2. k \notin y.media
        BY <1>1, <4>1
      <4>3. \A c \in y.media : key'[c] = key[c]
        BY <1>3, <4>1, <4>2
      <4> QED
        BY <1>2, <4>1, <4>2, <4>3
    <3> QED
      BY <3>2, <3>3, <3>4 DEF RemovalOK
  <2> QED
    BY <2>2, <2>3, <2>4, <2>5 DEF Own
<1>9. Idle \in Request /\ Over(Idle)
  BY IdleIsRequest DEF Over
<1>10. Shape(Idle) /\ \A q \in Requests \ {r} : Apart(Idle, req[q]) /\ Apart(req[q], Idle)
  BY <1>9, OverIsApart DEF IInv, TypeOK
<1>11. Own(Idle)'
  BY IdleIsRequest DEF Own, UploadOK, OldOK, CupOK, RemovalOK, Pending, Refers, Replaces, Drops, Deleting
<1> QED
  BY <1>2, <1>4, <1>5, <1>6, <1>7, <1>8, <1>9, <1>10, <1>11, Assembled

(* The commit of a replacement: it holds the rows of its media and candidate, *)
(* so that no removal has deleted them.                                       *)
LEMMA ReplaceInvariant ==
  ASSUME IInv, NEW r \in Requests, CommitReplace(r)
  PROVE  IInv'
<1> DEFINE k == req[r].key
<1>0. PICK x \in Request : x = [req[r] EXCEPT !.pc = "clean"]
  BY GotoFacts DEF IInv, Steps
<1>1. PICK e \in Images : req[r].media = {e}
  BY DEF CommitReplace, IInv, Shape
<1>2. /\ req[r].op = "replace" /\ req[r].pc = "commit" /\ Own(req[r]) /\ Shape(req[r])
      /\ req[r].key \in 0..MaxImages
  BY DEF CommitReplace, IInv, TypeOK, Request
<1>3. /\ e \in candidates /\ cup /\ key[e] # 0
      /\ k \in Images /\ k <= drawn /\ k # req[r].old /\ req[r].old # 0
      /\ key[k] = 0 /\ k \in stored /\ \A c \in Images : key[c] # k
      /\ \A d \in Images : key[d] = req[r].old => d = e
  <2>1. e \in candidates /\ cup
    BY <1>1, <1>2 DEF Own, CupOK, Replaces, IInv, NoRowOutlives
  <2>2. k \in Images
    BY <1>2, ImagesAreNumbers DEF Shape, Images
  <2> QED
    BY <1>1, <1>2, <2>1, <2>2 DEF Own, UploadOK, OldOK, Pending, Shape, IInv, KeysInv
<1>4. /\ key' = [c \in Images |-> IF c = e THEN k ELSE key[c]]
      /\ abandoned' = abandoned \cup ({key[e]} \ {req[r].old})
      /\ UNCHANGED <<cup, candidates, on, stored, drawn, late>> /\ Become(r, x)
  BY <1>0, <1>1 DEF CommitReplace, Goto
<1>5. /\ key'[e] = k /\ \A c \in Images : c # e => key'[c] = key[c]
      /\ key' \in [Images -> 0..MaxImages]
      /\ abandoned' \subseteq Images /\ abandoned \subseteq abandoned'
  <2>1. key[e] \in Images /\ k \in 0..MaxImages
    BY <1>2, <1>3 DEF IInv, TypeOK, Images
  <2>2. key' \in [Images -> 0..MaxImages]
    BY <1>4, <2>1 DEF IInv, TypeOK
  <2> QED
    BY <1>3, <1>4, <2>1, <2>2 DEF IInv, TypeOK
<1>6. /\ x \in Request /\ x.pc = "clean" /\ x.op = "replace" /\ x.key = k /\ x.old = req[r].old
      /\ x.media = {e}
  BY <1>0, <1>1, <1>2, GotoFacts DEF IInv, Steps
<1>7. /\ req' \in [Requests -> Request]
      /\ req'[r] = x
      /\ \A q \in Requests : q # r => req'[q] = req[q]
  BY <1>4, <1>6, BecomeSetsOne DEF IInv
<1>8. TypeOK'
  BY <1>4, <1>5, <1>7 DEF IInv, TypeOK
<1>9. KeysInv'
  BY <1>3, <1>4, <1>5 DEF IInv, KeysInv, TypeOK
<1>10. NoRowOutlives'
  BY <1>4 DEF IInv, NoRowOutlives, Committed
<1>11. ObjectsAccounted'
  <2> SUFFICES ASSUME NEW l \in stored, l \notin abandoned',
                      ~\E c \in candidates \cup late : key'[c] = l
               PROVE  \E q \in Requests : Keeps(req'[q], l)
    BY <1>4 DEF ObjectsAccounted, InFlight, Keeps
  <2>1. l # k /\ l \notin abandoned
    BY <1>3, <1>5
  <2>2. CASE key[e] = l
    BY <1>4, <1>6, <1>7, <2>2 DEF Keeps
  <2>3. CASE key[e] # l
    <3>1. ~\E c \in candidates \cup late : key[c] = l
      BY <1>5, <2>3 DEF IInv, TypeOK
    <3>2. PICK q \in Requests : Keeps(req[q], l)
      BY <2>1, <3>1 DEF IInv, ObjectsAccounted, InFlight, Keeps
    <3>3. q # r
      BY <1>2, <2>1, <3>2 DEF Keeps
    <3> QED
      BY <1>7, <3>2, <3>3
  <2> QED
    BY <2>2, <2>3
<1>12. ASSUME NEW q \in Requests \ {r}, NEW y \in Request, y = req[q] PROVE Own(y)'
  <2>1. Shape(y) /\ Own(y) /\ Apart(y, req[r])
    BY <1>12, Others
  <2>2. UploadOK(y)'
    <3>1. Pending(y) => y.key # k /\ y.key \in Images
      BY <1>2, <2>1, ImagesAreNumbers DEF Apart, Pending, Shape, Request, Images
    <3>2. Pending(y) => key'[y.key] = 0
      BY <1>3, <1>5, <2>1, <3>1 DEF Own, UploadOK
    <3> QED
      BY <1>4, <1>5, <2>1, <3>1, <3>2 DEF Own, UploadOK
  <2>3. OldOK(y)'
    <3>1. y.op = "replace" => y.old # k
      BY <1>2, <2>1 DEF Apart, Pending
    <3> QED
      BY <1>4, <1>5, <2>1, <3>1 DEF Own, OldOK
  <2>4. CupOK(y)'
    BY <1>4, <2>1 DEF Own, CupOK
  <2>5. RemovalOK(y)'
    <3> SUFFICES ASSUME Deleting(y), y.pc \in {"media", "cup", "commit"}
                 PROVE  y.keys = {key'[c] : c \in y.media} /\ \A c \in y.media : key'[c] # 0
      BY <1>4, <2>1 DEF Own, RemovalOK
    <3>1. /\ y.keys = {key[c] : c \in y.media} /\ \A c \in y.media : key[c] # 0
          /\ y.media \cap candidates \subseteq y.held /\ y.media \subseteq Images
      BY <1>3, <2>1 DEF Own, RemovalOK, Request
    <3>2. e \notin y.held
      BY <1>1, <1>2, <2>1 DEF Apart, Replaces
    <3>3. \A c \in y.media : key'[c] = key[c]
      BY <1>3, <1>5, <3>1, <3>2
    <3> QED
      BY <3>1, <3>3
  <2> QED
    BY <2>2, <2>3, <2>4, <2>5 DEF Own
<1>13. Shape(x)
  BY <1>2, <1>3, <1>6 DEF Shape
<1>14. Own(x)'
  <2>1. \A d \in Images : key'[d] # x.old
    BY <1>3, <1>5, <1>6
  <2>2. OldOK(x)'
    BY <1>2, <1>4, <1>6, <2>1 DEF Own, OldOK
  <2> QED
    BY <1>6, <2>2 DEF Own, UploadOK, CupOK, RemovalOK, Pending, Refers, Replaces, Drops, Deleting
<1>15. ASSUME NEW q \in Requests \ {r} PROVE Apart(x, req[q]) /\ Apart(req[q], x)
  <2>1. Apart(req[r], req[q]) /\ Apart(req[q], req[r])
    BY Others
  <2> QED
    BY <1>2, <1>6, <2>1 DEF Apart, Pending, Refers, Replaces, Drops, Deleting
<1> QED
  BY <1>4, <1>6, <1>8, <1>9, <1>10, <1>11, <1>12, <1>13, <1>14, <1>15, Assembled

(* The commit of a removal: it has deleted every candidate, read the media of *)
(* all that are not late, and nobody refers to the world cup.                 *)
LEMMA RemoveInvariant ==
  ASSUME IInv, NEW r \in Requests, CommitRemove(r)
  PROVE  IInv'
<1>0. PICK x \in Request : x = [req[r] EXCEPT !.pc = "objects"]
  BY GotoFacts DEF IInv, Steps
<1>1. /\ req[r].op = "remove" /\ req[r].pc = "commit" /\ Own(req[r]) /\ Shape(req[r])
      /\ req[r].key = 0 /\ cup
      /\ req[r].keys = {key[c] : c \in req[r].media}
      /\ candidates \ req[r].media \subseteq late
  BY DEF CommitRemove, IInv, Shape, Own, CupOK, RemovalOK, Drops, Deleting
<1>2. /\ cup' = FALSE /\ candidates' = {} /\ on' = [i \in Rows |-> {}]
      /\ key' = [c \in Images |-> IF c \in req[r].media THEN 0 ELSE key[c]]
      /\ UNCHANGED <<stored, drawn, late, abandoned>> /\ Become(r, x)
  BY <1>0 DEF CommitRemove, history, Goto
<1>3. /\ \A c \in Images : key'[c] = 0 \/ key'[c] = key[c]
      /\ \A c \in Images : c \notin req[r].media => key'[c] = key[c]
      /\ key' \in [Images -> 0..MaxImages]
  BY <1>2, ImagesAreNumbers DEF IInv, TypeOK
<1>4. /\ x \in Request /\ x.pc = "objects" /\ x.op = "remove" /\ x.key = 0 /\ x.keys = req[r].keys
  BY <1>0, <1>1, GotoFacts DEF IInv, Steps
<1>5. /\ req' \in [Requests -> Request]
      /\ req'[r] = x
      /\ \A q \in Requests : q # r => req'[q] = req[q]
  BY <1>2, <1>4, BecomeSetsOne DEF IInv
<1>6. TypeOK'
  BY <1>2, <1>3, <1>5 DEF IInv, TypeOK
<1>7. KeysInv'
  <2>1. \A c \in Images : key'[c] <= drawn' /\ (key'[c] # 0 => c <= drawn')
    BY <1>2, <1>3, ImagesAreNumbers DEF IInv, KeysInv, TypeOK
  <2>2. \A c, d \in Images : key'[c] = key'[d] /\ key'[c] # 0 => c = d
    BY <1>3 DEF IInv, KeysInv
  <2> QED
    BY <1>2, <2>1, <2>2 DEF KeysInv
<1>8. NoRowOutlives'
  BY <1>2 DEF NoRowOutlives, Committed
<1>9. ObjectsAccounted'
  <2> SUFFICES ASSUME NEW l \in stored, l \notin abandoned, ~\E c \in late : key'[c] = l
               PROVE  \E q \in Requests : Keeps(req'[q], l)
    BY <1>2 DEF ObjectsAccounted, InFlight, Keeps
  <2>1. l # 0
    BY ImagesAreNumbers DEF IInv, TypeOK
  <2>2. ASSUME NEW c \in candidates \cup late, key[c] = l PROVE Keeps(x, l)
    <3>1. c \in Images
      BY <2>2 DEF IInv, TypeOK
    <3>2. c \in req[r].media
      BY <1>1, <1>3, <2>2, <3>1
    <3> QED
      BY <1>1, <1>4, <2>2, <3>2 DEF Keeps
  <2>3. ASSUME NEW q \in Requests, Keeps(req[q], l) PROVE \E p \in Requests : Keeps(req'[p], l)
    <3>1. q # r
      BY <1>1, <2>1, <2>3 DEF Keeps
    <3> QED
      BY <1>5, <2>3, <3>1
  <2> QED
    BY <1>5, <2>2, <2>3 DEF IInv, ObjectsAccounted, InFlight, Keeps
<1>10. ASSUME NEW q \in Requests \ {r}, NEW y \in Request, y = req[q] PROVE Own(y)'
  <2>1. Shape(y) /\ Own(y) /\ Apart(req[r], y)
    BY <1>10, Others
  <2>2. ~Refers(y) /\ ~Replaces(y) /\ ~Drops(y)
    BY <1>1, <2>1 DEF Apart, Drops
  <2>3. UploadOK(y)'
    <3>1. Pending(y) => y.key \in Images
      BY <2>1, ImagesAreNumbers DEF Pending, Shape, Request, Images
    <3> QED
      BY <1>2, <1>3, <2>1, <3>1, ImagesAreNumbers DEF Own, UploadOK
  <2>4. OldOK(y)'
    BY <1>2, <1>3, <2>1 DEF Own, OldOK, Shape
  <2>5. CupOK(y)' /\ RemovalOK(y)'
    BY <1>2, <2>1, <2>2 DEF Shape, CupOK, RemovalOK, Refers
  <2> QED
    BY <2>3, <2>4, <2>5 DEF Own
<1>11. Shape(x)
  BY <1>4 DEF Shape
<1>12. Own(x)'
  BY <1>2, <1>4 DEF Own, UploadOK, OldOK, CupOK, RemovalOK, Pending, Refers, Replaces, Drops
<1>13. ASSUME NEW q \in Requests \ {r} PROVE Apart(x, req[q]) /\ Apart(req[q], x)
  BY <1>4 DEF Apart, Pending, Refers, Replaces, Drops, Deleting
<1> QED
  BY <1>2, <1>4, <1>6, <1>7, <1>8, <1>9, <1>10, <1>11, <1>12, <1>13, Assembled
-----------------------------------------------------------------------------
(* What is known of one request.                                              *)
LEMMA Known ==
  ASSUME IInv, NEW r \in Requests
  PROVE  req[r] \in Request /\ Shape(req[r]) /\ Own(req[r])
  BY DEF IInv, TypeOK

(* The requests begin.                                                        *)
LEMMA BeginsInvariant ==
  ASSUME IInv, NEW r \in Requests,
         \/ \E i \in Rows, S \in SUBSET Images : Save(r, i, S)
         \/ Create(r) \/ (\E c \in Images : Replace(r, c)) \/ Remove(r)
  PROVE  IInv'
<1>1. req[r].pc = "idle" /\ \A k \in Images : ~Keeps(req[r], k)
  BY Known, ImagesAreNumbers DEF Save, Create, Replace, Remove, Keeps, Shape
<1>2. ASSUME NEW i \in Rows, NEW S \in SUBSET Images, Save(r, i, S) PROVE IInv'
  <2>0. [Idle EXCEPT !.pc = "refer", !.op = "save", !.row = i, !.todo = S] \in Request
    BY IdleIsRequest DEF Request, Steps
  <2>1. PICK x \in Request : x = [Idle EXCEPT !.pc = "refer", !.op = "save", !.row = i, !.todo = S]
    BY <2>0
  <2>2. /\ Become(r, x) /\ x.pc = "refer" /\ x.op = "save" /\ x.row = i
        /\ x.key = 0 /\ x.held = {}
    BY <1>2, <2>1, IdleIsRequest DEF Save, Request
  <2>3. Shape(x) /\ Own(x) /\ \A q \in Requests \ {r} : Apart(x, req[q]) /\ Apart(req[q], x)
    BY <2>2 DEF Shape, Own, UploadOK, OldOK, CupOK, RemovalOK, Apart, Pending, Refers, Replaces, Drops,
                Deleting
  <2> QED
    BY <1>1, <1>2, <2>2, <2>3, GoesOn DEF Save
<1>3. ASSUME Create(r) PROVE IInv'
  <2>1. drawn \in Nat /\ drawn' \in 0..MaxImages
    BY <1>3, ImagesAreNumbers DEF Create, IInv, TypeOK
  <2>2. /\ [Idle EXCEPT !.pc = "refer", !.op = "create", !.key = drawn + 1] \in Request
        /\ drawn' = drawn + 1
    BY <1>3, <2>1, IdleIsRequest DEF Create, Request, Steps, Idle
  <2>3. PICK x \in Request : x = [Idle EXCEPT !.pc = "refer", !.op = "create", !.key = drawn + 1]
    BY <2>2
  <2>4. Become(r, x) /\ x.pc = "refer" /\ x.op = "create" /\ x.key = drawn'
    BY <1>3, <2>2, <2>3, IdleIsRequest DEF Create, Request
  <2> QED
    BY <1>1, <1>3, <2>2, <2>4, UploadInvariant DEF Create
<1>4. ASSUME NEW c \in Images, Replace(r, c) PROVE IInv'
  <2>0. key \in [Images -> 0..MaxImages] /\ drawn \in 0..MaxImages
    BY DEF IInv, TypeOK
  <2>1. drawn \in Nat /\ drawn + 1 \in 0..MaxImages /\ key[c] \in 0..MaxImages
    <3>1. drawn < MaxImages
      BY <1>4 DEF Replace
    <3>2. key[c] \in 0..MaxImages
      BY <2>0
    <3> QED
      BY <2>0, <3>1, <3>2, ImagesAreNumbers
  <2>2. /\ [Idle EXCEPT !.pc = "media", !.op = "replace", !.key = drawn + 1,
                        !.old = key[c], !.media = {c}] \in Request
        /\ drawn' = drawn + 1
    BY <1>4, <2>1, IdleIsRequest DEF Replace, Request, Steps, Idle
  <2>3. PICK x \in Request : x = [Idle EXCEPT !.pc = "media", !.op = "replace", !.key = drawn + 1,
                                             !.old = key[c], !.media = {c}]
    BY <2>2
  <2>4. /\ Become(r, x) /\ x.pc = "media" /\ x.op = "replace" /\ x.key = drawn'
        /\ x.old = key[c] /\ x.media = {c}
    BY <1>4, <2>2, <2>3, IdleIsRequest DEF Replace, Request
  <2> QED
    BY <1>1, <1>4, <2>2, <2>4, UploadInvariant DEF Replace
<1>5. ASSUME Remove(r) PROVE IInv'
  <2>1. candidates \subseteq Images
    BY DEF IInv, TypeOK
  <2>2. [Idle EXCEPT !.pc = "comments", !.op = "remove", !.media = candidates] \in Request
    BY <2>1, IdleIsRequest DEF Request, Steps, Idle
  <2>3. PICK x \in Request : x = [Idle EXCEPT !.pc = "comments", !.op = "remove", !.media = candidates]
    BY <2>2
  <2>4. /\ Become(r, x) /\ x.pc = "comments" /\ x.op = "remove" /\ x.key = 0
        /\ x.media = candidates /\ x.held = {}
    BY <1>5, <2>3, IdleIsRequest DEF Remove, Request
  <2>5. Shape(x) /\ Own(x) /\ \A q \in Requests \ {r} : Apart(x, req[q]) /\ Apart(req[q], x)
    BY <2>4 DEF Shape, Own, UploadOK, OldOK, CupOK, RemovalOK, Apart, Pending, Refers, Replaces, Drops
  <2> QED
    BY <1>1, <1>5, <2>4, <2>5, GoesOn DEF Remove
<1> QED
  BY <1>2, <1>3, <1>4, <1>5

(* The statements of the requests that write below the world cup: their row   *)
(* locks let them run only when no removal has deleted what they refer to.    *)
LEMMA WritersInvariant ==
  ASSUME IInv, NEW r \in Requests,
         ReferToCup(r) \/ (\E c \in Images : ReferToCandidate(r, c)) \/ UpdateMedia(r)
                       \/ UpdateCandidate(r)
  PROVE  IInv'
<1>1. TypeOK /\ req[r] \in Request /\ Shape(req[r]) /\ Own(req[r])
  BY Known DEF IInv
<1>2. ASSUME ReferToCup(r), cup PROVE IInv'
  <2>1. PICK s \in Steps : s = IF req[r].op = "save" THEN "candidates" ELSE "commit"
    BY DEF Steps
  <2>2. PICK x \in Request : x = [req[r] EXCEPT !.pc = s]
    BY <1>1, GotoFacts
  <2>3. /\ Become(r, x) /\ x.pc = s /\ x.op = req[r].op /\ x.key = req[r].key
        /\ x.row = req[r].row /\ x.held = req[r].held
        /\ UNCHANGED <<database, stored, drawn, history>>
        /\ req[r].pc = "refer" /\ \A q \in Requests : ~HoldsCup(q, r)
    BY <1>1, <1>2, <2>1, <2>2, GotoFacts DEF ReferToCup, Goto
  <2>4. Shape(x) /\ Own(x)
    BY <1>1, <1>2, <2>1, <2>3
       DEF Shape, Own, UploadOK, OldOK, CupOK, RemovalOK, Pending, Refers, Replaces, Drops, Deleting
  <2>5. ASSUME NEW q \in Requests \ {r} PROVE Apart(x, req[q]) /\ Apart(req[q], x)
    <3>1. /\ Apart(req[r], req[q]) /\ Apart(req[q], req[r])
          /\ ~Drops(req[q])
      BY <2>3, Others DEF HoldsCup, DeletesCup, Drops
    <3> QED
      BY <1>1, <2>1, <2>3, <3>1 DEF Apart, Shape, Pending, Refers, Replaces, Drops, Deleting
  <2>6. \A k \in Images : Keeps(req[r], k) => Keeps(x, k)
    BY <2>1, <2>3 DEF Keeps
  <2> QED
    BY <2>3, <2>4, <2>5, <2>6, GoesOn
<1>3. ASSUME NEW c \in Images, ReferToCandidate(r, c), c \in candidates PROVE IInv'
  <2>1. PICK x \in Request :
          x = [req[r] EXCEPT !.todo = @ \ {c}, !.held = @ \cup {c},
                             !.pc = IF req[r].todo = {c} THEN "commit" ELSE @]
    BY <1>1 DEF Request, Steps
  <2>2. /\ Become(r, x) /\ UNCHANGED <<database, stored, drawn, history>>
        /\ req[r].pc = "candidates" /\ req[r].op = "save"
    BY <1>3, <2>1 DEF ReferToCandidate
  <2>3. /\ x.pc \in {"candidates", "commit"} /\ x.op = "save" /\ x.key = req[r].key
        /\ x.row = req[r].row /\ x.held = req[r].held \cup {c}
    BY <1>1, <2>1, <2>2 DEF Request
  <2>4. Shape(x) /\ Own(x)
    BY <1>1, <1>3, <2>2, <2>3
       DEF Shape, Own, UploadOK, OldOK, CupOK, RemovalOK, Pending, Refers, Replaces, Drops, Deleting
  <2>5. ASSUME NEW q \in Requests \ {r} PROVE Apart(x, req[q]) /\ Apart(req[q], x)
    <3>1. Apart(req[r], req[q]) /\ Apart(req[q], req[r])
      BY Others
    <3> QED
      BY <2>2, <2>3, <3>1 DEF Apart, Pending, Refers, Replaces, Drops, Deleting
  <2>6. \A k \in Images : Keeps(req[r], k) => Keeps(x, k)
    BY <2>2, <2>3 DEF Keeps
  <2> QED
    BY <2>2, <2>4, <2>5, <2>6, GoesOn
<1>4. ASSUME UpdateMedia(r), ~\E c \in req[r].media : key[c] = 0 PROVE IInv'
  <2>1. PICK x \in Request : x = [req[r] EXCEPT !.pc = "candidate"]
    BY <1>1, GotoFacts DEF Steps
  <2>2. /\ Become(r, x) /\ x.pc = "candidate" /\ x.op = "replace" /\ x.key = req[r].key
        /\ x.old = req[r].old /\ x.media = req[r].media
        /\ UNCHANGED <<database, stored, drawn, history>>
        /\ req[r].pc = "media" /\ req[r].op = "replace"
    BY <1>1, <1>4, <2>1, GotoFacts DEF UpdateMedia, Goto, Steps
  <2>3. Shape(x) /\ Own(x)
    BY <1>1, <2>2
       DEF Shape, Own, UploadOK, OldOK, CupOK, RemovalOK, Pending, Refers, Replaces, Drops, Deleting
  <2>4. ASSUME NEW q \in Requests \ {r} PROVE Apart(x, req[q]) /\ Apart(req[q], x)
    <3>1. Apart(req[r], req[q]) /\ Apart(req[q], req[r])
      BY Others
    <3> QED
      BY <2>2, <3>1 DEF Apart, Pending, Refers, Replaces, Drops, Deleting
  <2>5. \A k \in Images : Keeps(req[r], k) => Keeps(x, k)
    BY <2>2 DEF Keeps
  <2> QED
    BY <2>2, <2>3, <2>4, <2>5, GoesOn
<1>5. ASSUME UpdateCandidate(r), req[r].media \subseteq candidates PROVE IInv'
  <2>1. PICK x \in Request : x = [req[r] EXCEPT !.pc = "commit"]
    BY <1>1, GotoFacts DEF Steps
  <2>0. /\ Goto(r, "commit") /\ UNCHANGED <<database, stored, drawn, history>>
        /\ req[r].pc = "candidate" /\ \A c \in req[r].media : CandidateFree(r, c)
    BY <1>5 DEF UpdateCandidate
  <2>01. req[r].op = "replace"
    BY <1>1, <2>0 DEF Shape, Request
  <2>2. /\ Become(r, x) /\ x.pc = "commit" /\ x.op = "replace" /\ x.key = req[r].key
        /\ x.old = req[r].old /\ x.media = req[r].media
        /\ UNCHANGED <<database, stored, drawn, history>>
        /\ req[r].pc = "candidate" /\ req[r].op = "replace"
        /\ \A c \in req[r].media : CandidateFree(r, c)
    BY <1>1, <2>0, <2>01, <2>1, GotoFacts DEF Goto, Steps
  <2>3. Shape(x) /\ Own(x)
    BY <1>1, <1>5, <2>2
       DEF Shape, Own, UploadOK, OldOK, CupOK, RemovalOK, Pending, Refers, Replaces, Drops, Deleting
  <2>4. ASSUME NEW q \in Requests \ {r} PROVE Apart(x, req[q]) /\ Apart(req[q], x)
    <3>1. Apart(req[r], req[q]) /\ Apart(req[q], req[r]) /\ Own(req[q])
      BY Others
    <3>2. Deleting(req[q]) => req[q].held \cap x.media = {}
      BY <2>2 DEF CandidateFree, HoldsCandidate, DeletesCandidate, Removing, Deleting
    <3>3. ~Drops(req[q])
      <4>1. PICK c \in Images : x.media = {c}
        BY <2>2, <2>3 DEF Shape
      <4> QED
        BY <1>5, <2>2, <3>1, <3>2, <4>1 DEF Drops, Deleting, Own, CupOK
    <3> QED
      BY <2>2, <3>1, <3>2, <3>3 DEF Apart, Pending, Refers, Replaces, Drops, Deleting
  <2>5. \A k \in Images : Keeps(req[r], k) => Keeps(x, k)
    BY <2>2 DEF Keeps
  <2> QED
    BY <2>2, <2>3, <2>4, <2>5, GoesOn
<1>6. ASSUME Abort(r), req[r].pc \in {"refer", "candidates", "media", "candidate"} PROVE IInv'
  BY <1>6, AbortInvariant
<1> QED
  BY <1>2, <1>3, <1>4, <1>5, <1>6 DEF ReferToCup, ReferToCandidate, UpdateMedia, UpdateCandidate

(* The statements of a removal, up to its last.                               *)
LEMMA RemoversInvariant ==
  ASSUME IInv, NEW r \in Requests,
         \/ DeleteComments(r) \/ DeletePlays(r) \/ (\E c \in Images : DeleteCandidate(r, c))
         \/ CheckReferences(r) \/ DeleteMedia(r) \/ DeleteCup(r)
  PROVE  IInv'
<1>1. TypeOK /\ req[r] \in Request /\ Shape(req[r]) /\ Own(req[r])
  BY Known DEF IInv
<1>2. candidates \subseteq Images /\ \A i \in Rows : on[i] \subseteq Images
  BY <1>1 DEF TypeOK
<1>3. /\ req[r].op = "remove" /\ req[r].key = 0
      /\ req[r].pc \in {"comments", "plays", "candidates", "media", "cup"}
  <2>1. req[r].pc \in {"comments", "plays", "candidates", "media", "cup"} /\ req[r].op \in
            {"none", "save", "create", "replace", "remove"}
    BY <1>1 DEF DeleteComments, DeletePlays, DeleteCandidate, CheckReferences, DeleteMedia, DeleteCup,
                Request
  <2>2. req[r].op = "remove"
    BY <1>1, <2>1 DEF Shape, DeleteComments, DeletePlays, DeleteCandidate, CheckReferences, DeleteMedia,
                      DeleteCup
  <2> QED
    BY <1>1, <2>1, <2>2 DEF Shape
(* A removal that is not at its last statement yet: a record that deletes     *)
(* only candidates nobody is updating.                                        *)
<1>4. ASSUME NEW x \in Request, Become(r, x), UNCHANGED <<database, stored, drawn, history>>,
             x.op = "remove", x.key = 0, x.pc \in {"plays", "candidates", "media", "cup"},
             RemovalOK(x),
             \A c \in x.held \ req[r].held : CandidateFree(r, c)
      PROVE  IInv'
  <2>1. Shape(x) /\ Own(x)
    BY <1>4 DEF Shape, Own, UploadOK, OldOK, CupOK, Pending, Refers, Replaces, Drops
  <2>2. ASSUME NEW q \in Requests \ {r} PROVE Apart(x, req[q]) /\ Apart(req[q], x)
    <3>1. Apart(req[r], req[q]) /\ Apart(req[q], req[r])
      BY Others
    <3>2. Replaces(req[q]) => (x.held \ req[r].held) \cap req[q].media = {}
      BY <1>3, <1>4 DEF CandidateFree, HoldsCandidate, UpdatesCandidate, Replaces
    <3> QED
      BY <1>3, <1>4, <3>1, <3>2 DEF Apart, Pending, Refers, Replaces, Drops, Deleting
  <2>3. \A k \in Images : ~Keeps(req[r], k)
    BY <1>3, ImagesAreNumbers DEF Keeps
  <2> QED
    BY <1>4, <2>1, <2>2, <2>3, GoesOn
<1>5. ASSUME DeleteComments(r) PROVE IInv'
  <2>1. Committed \subseteq Rows
    BY DEF Committed
  <2>2. PICK x \in Request : x = [req[r] EXCEPT !.pc = "plays", !.gone = Committed]
    BY <1>1, <2>1 DEF Request, Steps
  <2>3. /\ Become(r, x) /\ x.pc = "plays" /\ x.op = "remove" /\ x.key = 0
        /\ x.media = req[r].media /\ x.held = req[r].held
        /\ UNCHANGED <<database, stored, drawn, history>>
    BY <1>1, <1>3, <1>5, <2>2 DEF DeleteComments, Request
  <2>4. RemovalOK(x)
    BY <1>1, <1>3, <2>3 DEF Own, RemovalOK, Deleting
  <2> QED
    BY <1>4, <2>3, <2>4
<1>6. ASSUME DeletePlays(r) PROVE IInv'
  <2>1. PICK x \in Request : x = [req[r] EXCEPT !.pc = "candidates", !.todo = candidates,
                                               !.gone = @ \cup (Committed \cap Plays)]
    BY <1>1, <1>2 DEF Request, Steps, Rows
  <2>2. /\ Become(r, x) /\ x.pc = "candidates" /\ x.op = "remove" /\ x.key = 0
        /\ x.media = req[r].media /\ x.held = req[r].held /\ x.todo = candidates
        /\ UNCHANGED <<database, stored, drawn, history>>
    BY <1>1, <1>3, <1>6, <2>1 DEF DeletePlays, Request
  <2>3. RemovalOK(x)
    BY <1>1, <1>3, <2>2 DEF Own, RemovalOK, Deleting
  <2> QED
    BY <1>4, <2>2, <2>3
<1>7. ASSUME NEW c \in Images, DeleteCandidate(r, c) PROVE IInv'
  <2>1. PICK x \in Request : x = [req[r] EXCEPT !.todo = @ \ {c}, !.held = @ \cup ({c} \cap candidates)]
    BY <1>1 DEF Request
  <2>2. /\ Become(r, x) /\ x.pc = "candidates" /\ x.op = "remove" /\ x.key = 0
        /\ x.media = req[r].media /\ x.held = req[r].held \cup ({c} \cap candidates)
        /\ x.todo = req[r].todo \ {c} /\ req[r].pc = "candidates" /\ CandidateFree(r, c)
        /\ UNCHANGED <<database, stored, drawn, history>>
    BY <1>1, <1>3, <1>7, <2>1 DEF DeleteCandidate, Request
  <2>3. RemovalOK(x)
    BY <1>1, <1>3, <2>2 DEF Own, RemovalOK, Deleting
  <2> QED
    BY <1>4, <2>2, <2>3
<1>8. ASSUME CheckReferences(r), ~Abort(r) PROVE IInv'
  <2> DEFINE orphans == {c \in req[r].media : key[c] # 0 /\ c \notin candidates \ req[r].held}
  <2>1. /\ orphans \subseteq Images /\ {key[c] : c \in orphans} \subseteq Images
    BY <1>1 DEF Request, TypeOK, Images
  <2>2. PICK x \in Request : x = [req[r] EXCEPT !.pc = "media", !.media = orphans,
                                               !.keys = {key[c] : c \in orphans}]
    BY <1>1, <2>1 DEF Request, Steps
  <2>3. /\ Become(r, x) /\ UNCHANGED <<database, stored, drawn, history>>
        /\ req[r].pc = "candidates" /\ req[r].todo = {}
    BY <1>8, <2>2 DEF CheckReferences
  <2>4. /\ x.pc = "media" /\ x.op = "remove" /\ x.key = 0
        /\ x.media = orphans /\ x.held = req[r].held /\ x.keys = {key[c] : c \in orphans}
    BY <1>1, <1>3, <2>2 DEF Request
  <2>5. RemovalOK(x)
    <3> SUFFICES ASSUME cup
                 PROVE  /\ candidates \ x.media \subseteq late
                        /\ x.keys = {key[c] : c \in x.media}
                        /\ \A c \in x.media : key[c] # 0
                        /\ x.media \cap candidates \subseteq x.held
      BY <2>4 DEF RemovalOK, Deleting
    <3>1. candidates \ req[r].media \subseteq late /\ candidates \ req[r].held \subseteq late
      BY <1>1, <1>3, <2>3 DEF Own, RemovalOK, Deleting
    <3>2. \A c \in candidates : key[c] # 0
      BY DEF IInv, KeysInv
    <3> QED
      BY <2>4, <3>1, <3>2
  <2> QED
    BY <1>4, <2>3, <2>4, <2>5
<1>9. ASSUME DeleteMedia(r) PROVE IInv'
  <2>1. PICK x \in Request : x = [req[r] EXCEPT !.pc = "cup"]
    BY <1>1, GotoFacts DEF Steps
  <2>2. /\ Become(r, x) /\ x.pc = "cup" /\ x.op = "remove" /\ x.key = 0
        /\ x.media = req[r].media /\ x.held = req[r].held /\ x.keys = req[r].keys
        /\ UNCHANGED <<database, stored, drawn, history>> /\ req[r].pc = "media"
    BY <1>1, <1>3, <1>9, <2>1, GotoFacts DEF DeleteMedia, Goto, Steps
  <2>3. RemovalOK(x)
    BY <1>1, <1>3, <2>2 DEF Own, RemovalOK, Deleting
  <2> QED
    BY <1>4, <2>2, <2>3
<1>10. ASSUME DeleteCup(r), cup PROVE IInv'
  <2>1. PICK x \in Request : x = [req[r] EXCEPT !.pc = "commit", !.held = candidates]
    BY <1>1, <1>2 DEF Request, Steps
  <2>2. /\ Become(r, x) /\ x.pc = "commit" /\ x.op = "remove" /\ x.key = 0
        /\ x.media = req[r].media /\ x.held = candidates /\ x.keys = req[r].keys
        /\ UNCHANGED <<database, stored, drawn, history>> /\ req[r].pc = "cup"
        /\ \A q \in Requests : ~HoldsCup(q, r) /\ \A c \in candidates : CandidateFree(r, c)
    BY <1>1, <1>3, <1>10, <2>1 DEF DeleteCup, Request
  <2>3. Shape(x) /\ Own(x)
    BY <1>1, <1>3, <1>10, <2>2
       DEF Shape, Own, UploadOK, OldOK, CupOK, RemovalOK, Pending, Refers, Replaces, Drops, Deleting
  <2>4. ASSUME NEW q \in Requests \ {r} PROVE Apart(x, req[q]) /\ Apart(req[q], x)
    <3>1. Shape(req[q]) /\ Own(req[q]) /\ req[q] \in Request
      BY Others
    <3>2. ~Refers(req[q]) /\ ~Drops(req[q])
      BY <1>3, <2>2 DEF HoldsCup, DeletesCup, SharesCup, Refers, Drops
    <3>3. Replaces(req[q]) => candidates \cap req[q].media = {}
      BY <1>3, <2>2 DEF CandidateFree, HoldsCandidate, UpdatesCandidate, Replaces
    <3>4. ~Replaces(req[q])
      BY <3>1, <3>3 DEF Replaces, Shape, Own, CupOK
    <3> QED
      BY <2>2, <3>2, <3>4 DEF Apart, Pending, Refers, Replaces
  <2>5. \A k \in Images : ~Keeps(req[r], k)
    BY <1>3, ImagesAreNumbers DEF Keeps
  <2> QED
    BY <2>2, <2>3, <2>4, <2>5, GoesOn
<1>11. ASSUME Abort(r) PROVE IInv'
  BY <1>3, <1>11, AbortInvariant
<1> QED
  BY <1>5, <1>6, <1>7, <1>8, <1>9, <1>10, <1>11 DEF DeleteCup

(* The ends of the requests: the objects deleted are in no row and no upload. *)
LEMMA EndersInvariant ==
  ASSUME IInv, NEW r \in Requests,
         \/ Clean(r) \/ (\E k \in Images : DeleteObject(r, k) \/ GiveUpObject(r, k))
         \/ RetryObject(r) \/ Answer(r) \/ Stop(r)
  PROVE  IInv'
<1>1. TypeOK /\ req[r] \in Request /\ Shape(req[r]) /\ Own(req[r])
  BY Known DEF IInv
<1>2. Idle \in Request /\ Over(Idle)
  BY IdleIsRequest DEF Over
<1>3. /\ stored \subseteq Images /\ abandoned \subseteq Images
      /\ \A c \in candidates : key[c] \in stored
      /\ \A q \in Requests \ {r} : Pending(req[q]) /\ cup => req[q].key \in stored
  BY DEF IInv, TypeOK, KeysInv, Own, UploadOK
<1>4. ASSUME Clean(r) PROVE IInv'
  <2>1. /\ req[r].pc = "clean" /\ req[r].op = "replace" /\ stored' = stored \ {req[r].old}
        /\ Become(r, Idle) /\ UNCHANGED <<database, drawn, late, abandoned>>
    BY <1>1, <1>4 DEF Clean, Shape, Request, history
  <2>2. \A c \in candidates : key[c] \in stored'
    BY <1>1, <1>3, <2>1 DEF Own, OldOK, TypeOK
  <2>3. ASSUME NEW q \in Requests \ {r}, Pending(req[q]), cup PROVE req[q].key \in stored'
    <3>1. req[q].key # req[r].old
      BY <2>1, <2>3, Others DEF Apart
    <3> QED
      BY <1>3, <2>1, <2>3, <3>1
  <2>4. \A k \in stored' : ~Keeps(req[r], k)
    BY <2>1 DEF Keeps
  <2> QED
    BY <1>2, <1>3, <2>1, <2>2, <2>3, <2>4, Ends
<1>5. ASSUME req[r].pc = "objects" PROVE req[r].op = "remove" /\ req[r].key = 0 /\ ~cup /\ candidates = {}
  BY <1>1, <1>5 DEF Shape, Own, CupOK, IInv, NoRowOutlives, Request
<1>6. ASSUME NEW x \in Request, req[r].pc = "objects", Become(r, x),
             UNCHANGED <<database, drawn, late>>, stored' \subseteq stored,
             abandoned \subseteq abandoned', abandoned' \subseteq Images,
             x = Idle \/ (x.op = "remove" /\ x.pc = "objects" /\ x.key = 0),
             \A k \in stored' : k \in req[r].keys => k \in abandoned' \/ (x.pc = "objects" /\ k \in x.keys)
      PROVE  IInv'
  <2>1. Over(x) /\ ~cup /\ candidates = {} /\ req[r].key = 0
    BY <1>5, <1>6 DEF Over
  <2>2. \A k \in stored' : Keeps(req[r], k) => Keeps(x, k) \/ k \in abandoned'
    BY <1>3, <1>6, <2>1, ImagesAreNumbers DEF Keeps
  <2> QED
    BY <1>6, <2>1, <2>2, Ends
<1>7. ASSUME NEW k \in Images, DeleteObject(r, k) PROVE IInv'
  <2>1. PICK x \in Request : x = [req[r] EXCEPT !.keys = @ \ {k}, !.attempt = 0]
    BY <1>1, ImagesAreNumbers DEF Request
  <2>2. /\ req[r].pc = "objects" /\ Become(r, x) /\ stored' = stored \ {k}
        /\ UNCHANGED <<database, drawn, late, abandoned>>
    BY <1>7, <2>1 DEF DeleteObject, history
  <2>3. x.op = "remove" /\ x.pc = "objects" /\ x.key = 0 /\ x.keys = req[r].keys \ {k}
    BY <1>1, <1>5, <2>1, <2>2 DEF Request
  <2> QED
    BY <1>3, <1>6, <2>2, <2>3
<1>8. ASSUME NEW k \in Images, GiveUpObject(r, k) PROVE IInv'
  <2>1. PICK x \in Request : x = [req[r] EXCEPT !.keys = @ \ {k}, !.attempt = 0]
    BY <1>1, ImagesAreNumbers DEF Request
  <2>2. /\ req[r].pc = "objects" /\ Become(r, x) /\ abandoned' = abandoned \cup {k}
        /\ UNCHANGED <<database, stored, drawn, late>>
    BY <1>8, <2>1 DEF GiveUpObject
  <2>3. x.op = "remove" /\ x.pc = "objects" /\ x.key = 0 /\ x.keys = req[r].keys \ {k}
    BY <1>1, <1>5, <2>1, <2>2 DEF Request
  <2> QED
    BY <1>3, <1>6, <2>2, <2>3
<1>9. ASSUME RetryObject(r) PROVE IInv'
  <2>1. req[r].attempt + 1 \in 0..(Attempts - 1)
    BY <1>1, <1>9, ImagesAreNumbers DEF RetryObject, Request
  <2>2. PICK x \in Request : x = [req[r] EXCEPT !.attempt = @ + 1]
    BY <1>1, <2>1 DEF Request
  <2>3. /\ req[r].pc = "objects" /\ Become(r, x)
        /\ UNCHANGED <<database, stored, drawn, late, abandoned>>
    BY <1>9, <2>2 DEF RetryObject, history
  <2>4. x.op = "remove" /\ x.pc = "objects" /\ x.key = 0 /\ x.keys = req[r].keys
    BY <1>1, <1>5, <2>2, <2>3 DEF Request
  <2> QED
    BY <1>3, <1>6, <2>3, <2>4
<1>10. ASSUME Answer(r) PROVE IInv'
  BY <1>2, <1>3, <1>6, <1>10 DEF Answer, history
<1>11. ASSUME Stop(r) PROVE IInv'
  <2>1. /\ req[r].pc \in {"clean", "objects"} /\ Become(r, Idle)
        /\ abandoned' = abandoned \cup ({req[r].old} \ {0}) \cup req[r].keys
        /\ UNCHANGED <<database, stored, drawn, late>>
    BY <1>11 DEF Stop
  <2>2. abandoned \subseteq abandoned' /\ abandoned' \subseteq Images
    <3>1. req[r].old \in 0..MaxImages /\ req[r].keys \subseteq Images
      BY <1>1 DEF Request
    <3>2. req[r].old # 0 => req[r].old \in Images
      BY <3>1, ImagesAreNumbers DEF Images
    <3> QED
      BY <1>3, <2>1, <3>1, <3>2
  <2>3. CASE req[r].pc = "clean"
    <3>1. \A k \in stored' : Keeps(req[r], k) => k \in abandoned'
      BY <1>3, <2>1, <2>3, ImagesAreNumbers DEF Keeps
    <3> QED
      BY <1>2, <1>3, <2>1, <2>2, <3>1, Ends
  <2>4. CASE req[r].pc = "objects"
    BY <1>2, <1>6, <2>1, <2>2, <2>4
  <2> QED
    BY <2>1, <2>3, <2>4
<1> QED
  BY <1>4, <1>7, <1>8, <1>9, <1>10, <1>11

(* Every step keeps the invariant.                                            *)
LEMMA NextInvariant == IInv /\ [Next]_vars => IInv'
<1> SUFFICES ASSUME IInv, [Next]_vars PROVE IInv'
  OBVIOUS
<1>1. CASE UNCHANGED vars
  BY <1>1 DEF vars, IInv, TypeOK, KeysInv, NoRowOutlives, Committed, ObjectsAccounted, InFlight, Shape,
              Own, UploadOK, OldOK, CupOK, RemovalOK, Apart
<1>2. ASSUME NEW r \in Requests, Step(r) PROVE IInv'
  <2>1. ASSUME BreakCircle(r) PROVE IInv'
    <3>1. PICK q \in Requests : Waits(r, q)
      BY <2>1 DEF BreakCircle, Circle
    <3> QED
      BY <2>1, <3>1, AbortInvariant DEF BreakCircle, Waits
  <2> QED
    BY <1>2, <2>1, SaveInvariant, CreateInvariant, ReplaceInvariant, RemoveInvariant, WritersInvariant,
       RemoversInvariant, EndersInvariant DEF Step
<1>3. ASSUME NEW r \in Requests, Fail(r) PROVE IInv'
  BY <1>3, AbortInvariant DEF Fail
<1> QED
  BY <1>1, <1>2, <1>3, BeginsInvariant, EndersInvariant DEF Next, Quiet

(* The invariant of every behaviour.                                          *)
THEOREM Invariance == Spec => []IInv
BY InitInvariant, NextInvariant, PTL DEF Spec

(* Every variable has its type.                                               *)
THEOREM TypeCorrect == Spec => []TypeOK
<1>1. IInv => TypeOK
  BY DEF IInv
<1> QED
  BY <1>1, Invariance, PTL

(* The image of every candidate is in the bucket, however removals,           *)
(* replacements, failures and stops are interleaved.                          *)
THEOREM ImagesKept == Spec => []ImagesStored
<1>1. IInv => ImagesStored
  BY DEF IInv, KeysInv, ImagesStored
<1> QED
  BY <1>1, Invariance, PTL

(* A removal leaves no row of its world cup, and every result and comment has *)
(* its candidates.                                                            *)
THEOREM NoRowLeft == Spec => []NoRowOutlives
<1>1. IInv => NoRowOutlives
  BY DEF IInv
<1> QED
  BY <1>1, Invariance, PTL

(* No object is forgotten, but for candidates created during a removal and    *)
(* deletions that were given up.                                              *)
THEOREM AllAccounted == Spec => []ObjectsAccounted
<1>1. IInv => ObjectsAccounted
  BY DEF IInv
<1> QED
  BY <1>1, Invariance, PTL

(* Without a removal, only a replacement waits, and only for another one:     *)
(* for the media row, whose holder may wait for the candidate's row, whose    *)
(* holder commits.                                                            *)
THEOREM CirclesHaveRemovals == Spec => []OnlyRemovalsDeadlock
<1>1. ASSUME IInv PROVE OnlyRemovalsDeadlock
  <2> SUFFICES ASSUME NEW S \in SUBSET Requests, Circle(S), \A r \in S : req[r].op # "remove"
               PROVE  FALSE
    BY DEF OnlyRemovalsDeadlock
  <2>1. ASSUME NEW r \in S, NEW q \in S, Waits(r, q)
        PROVE  /\ req[q].op = "replace" /\ req[r].pc \in {"media", "candidate"}
               /\ req[q].pc \in {"candidate", "commit"}
               /\ req[r].pc = "candidate" => req[q].pc = "commit"
    <3>1. /\ Shape(req[r]) /\ req[r] \in Request /\ req[q].op # "remove" /\ req[r].op # "remove"
      BY <1>1, Known
    <3>2. req[r].pc \notin {"cup", "comments", "plays"} /\ (req[r].pc = "candidates" => req[r].op = "save")
      BY <3>1 DEF Shape, Request
    <3> QED
      BY <2>1, <3>1, <3>2 DEF Waits, HoldsCup, DeletesCup, HoldsRows, Removing, HoldsMedia, UpdatesMedia,
         DeletesMedia, HoldsCandidate, DeletesCandidate, UpdatesCandidate
  <2>2. PICK r \in S, q \in S : Waits(r, q)
    BY DEF Circle
  <2>3. PICK p \in S : Waits(q, p)
    BY DEF Circle
  <2>4. PICK o \in S : Waits(p, o)
    BY DEF Circle
  <2> QED
    BY <2>1, <2>2, <2>3, <2>4
<1> QED
  BY <1>1, Invariance, PTL
-----------------------------------------------------------------------------
(* The requests that insert a row: each its own, once, with all its           *)
(* candidates.                                                                *)
Saves(x, i) == x.op = "save" /\ x.row = i
SaveOK(x) == /\ x.pc \in {"refer", "candidates"} => x.todo # {}
             /\ x.pc = "commit" => x.todo = {} /\ x.held # {}
SaveRows ==
  /\ \A r \in Requests : req[r].op = "save" => on[req[r].row] = {} /\ SaveOK(req[r])
  /\ \A r, q \in Requests : r # q /\ req[r].op = "save" /\ req[q].op = "save" => req[r].row # req[q].row

(* A request goes on with its row, or begins, or ends.                        *)
LEMMA SaveRowsMove ==
  ASSUME TypeOK, SaveRows, NEW r \in Requests, NEW x \in Request, Become(r, x),
         \A i \in Rows : on'[i] # {} => on[i] # {} \/ Saves(req[r], i),
         x.op = "save" => on'[x.row] = {} /\ SaveOK(x),
         x.op = "save" => \A q \in Requests \ {r} : ~Saves(req[q], x.row),
         \A q \in Requests : req[q].op = "save" => req[q].row \in Rows
  PROVE  SaveRows'
<1>1. /\ req'[r] = x
      /\ \A q \in Requests : q # r => req'[q] = req[q]
  BY BecomeSetsOne
<1>2. ASSUME NEW q \in Requests, req'[q].op = "save" PROVE on'[req'[q].row] = {} /\ SaveOK(req[q])'
  <2>1. CASE q = r
    BY <1>1, <1>2, <2>1 DEF SaveOK
  <2>2. CASE q # r
    <3>1. req'[q] = req[q] /\ req[q].row \in Rows /\ on[req[q].row] = {} /\ SaveOK(req[q])
      BY <1>1, <1>2, <2>2 DEF SaveRows
    <3>2. ~Saves(req[r], req[q].row)
      BY <1>2, <2>2, <3>1 DEF SaveRows, Saves
    <3> QED
      BY <3>1, <3>2 DEF SaveOK
  <2> QED
    BY <2>1, <2>2
<1>3. ASSUME NEW p \in Requests, NEW q \in Requests, p # q, req'[p].op = "save", req'[q].op = "save"
      PROVE  req'[p].row # req'[q].row
  BY <1>1, <1>3 DEF SaveRows, Saves
<1> QED
  BY <1>2, <1>3 DEF SaveRows

(* A statement of a save that is not its last.                                *)
LEMMA SaveGoesOn ==
  ASSUME IInv, NEW r \in Requests, req[r].op = "save", ~Abort(r),
         ReferToCup(r) \/ \E c \in Images : ReferToCandidate(r, c)
  PROVE  \E x \in Request : /\ Become(r, x) /\ x.op = "save" /\ x.row = req[r].row
                            /\ SaveRows => SaveOK(x)
                            /\ x.held \cup x.todo = req[r].held \cup req[r].todo
                            /\ UNCHANGED <<database, stored, drawn, history>>
<1>1. TypeOK /\ req[r] \in Request
  BY Known DEF IInv
<1>2. CASE ReferToCup(r)
  <2>1. PICK x \in Request : x = [req[r] EXCEPT !.pc = "candidates"]
    BY <1>1, GotoFacts DEF Steps
  <2>2. /\ x.pc = "candidates" /\ x.op = "save" /\ x.row = req[r].row
        /\ x.held = req[r].held /\ x.todo = req[r].todo
    BY <1>1, <2>1 DEF Request
  <2>3. Become(r, x) /\ req[r].pc = "refer" /\ UNCHANGED <<database, stored, drawn, history>>
    BY <1>2, <2>1 DEF ReferToCup, Goto
  <2> QED
    BY <2>2, <2>3 DEF SaveRows, SaveOK
<1>3. ASSUME NEW c \in Images, ReferToCandidate(r, c)
      PROVE  \E x \in Request : /\ Become(r, x) /\ x.op = "save" /\ x.row = req[r].row
                                /\ SaveRows => SaveOK(x)
                                /\ x.held \cup x.todo = req[r].held \cup req[r].todo
                                /\ UNCHANGED <<database, stored, drawn, history>>
  <2> DEFINE s == IF req[r].todo = {c} THEN "commit" ELSE req[r].pc
  <2>1. s \in Steps /\ c \in req[r].todo /\ req[r].pc = "candidates"
    BY <1>1, <1>3 DEF ReferToCandidate, Steps
  <2>2. PICK x \in Request : x = [req[r] EXCEPT !.todo = @ \ {c}, !.held = @ \cup {c}, !.pc = s]
    BY <1>1, <2>1 DEF Request
  <2>3. Become(r, x) /\ UNCHANGED <<database, stored, drawn, history>>
    BY <1>3, <2>2 DEF ReferToCandidate
  <2>4. /\ x.pc = s /\ x.op = "save" /\ x.row = req[r].row
        /\ x.held = req[r].held \cup {c} /\ x.todo = req[r].todo \ {c}
    BY <1>1, <2>2 DEF Request
  <2>5. SaveOK(x)
    BY <2>1, <2>4 DEF SaveOK
  <2> QED
    BY <2>1, <2>3, <2>4, <2>5
<1> QED
  BY <1>2, <1>3

Commits(r) == CommitCreate(r) \/ CommitReplace(r) \/ CommitRemove(r)

(* What the other operations do: none of them saves, and only three of them   *)
(* change the rows.                                                           *)
LEMMA OthersGoOn ==
  ASSUME IInv, NEW r \in Requests, req[r].op # "save",
         \/ Create(r) \/ (\E c \in Images : Replace(r, c)) \/ Remove(r)
         \/ Step(r) \/ Fail(r) \/ Stop(r)
  PROVE  /\ \E x : Become(r, x) /\ x.op # "save"
         /\ UNCHANGED database \/ Commits(r)
<1>1. req[r] \in Request /\ Idle.op = "none"
  BY Known, IdleIsRequest DEF IInv
<1>2. ASSUME NEW s PROVE [req[r] EXCEPT !.pc = s].op # "save"
  BY <1>1 DEF Request
<1>3. CASE Abort(r)
  BY <1>1, <1>3 DEF Abort
<1>4. CASE Create(r) \/ (\E c \in Images : Replace(r, c)) \/ Remove(r)
  <2>1. PICK x : /\ \/ x = [Idle EXCEPT !.pc = "refer", !.op = "create", !.key = drawn']
                    \/ \E c : x = [Idle EXCEPT !.pc = "media", !.op = "replace", !.key = drawn',
                                               !.old = key[c], !.media = {c}]
                    \/ x = [Idle EXCEPT !.pc = "comments", !.op = "remove", !.media = candidates]
                 /\ Become(r, x) /\ UNCHANGED database
    BY <1>4 DEF Create, Replace, Remove
  <2>2. x.op # "save"
    BY <2>1 DEF Idle
  <2> QED
    BY <2>1, <2>2
<1>5. CASE ReferToCup(r)
  BY <1>2, <1>3, <1>5 DEF ReferToCup, Goto
<1>6. CASE CommitCreate(r) \/ CommitReplace(r) \/ Clean(r)
  BY <1>1, <1>2, <1>6 DEF CommitCreate, CommitReplace, Clean, Commits, Goto
<1>7. CASE UpdateMedia(r) \/ UpdateCandidate(r)
  BY <1>2, <1>3, <1>7 DEF UpdateMedia, UpdateCandidate, Goto
<1>8. CASE DeleteComments(r) \/ DeletePlays(r)
  <2>1. PICK x : /\ \/ x = [req[r] EXCEPT !.pc = "plays", !.gone = Committed]
                    \/ x = [req[r] EXCEPT !.pc = "candidates", !.todo = candidates,
                                          !.gone = @ \cup (Committed \cap Plays)]
                 /\ Become(r, x) /\ UNCHANGED database
    BY <1>8 DEF DeleteComments, DeletePlays
  <2>2. x.op = req[r].op
    BY <1>1, <2>1 DEF Request
  <2> QED
    BY <2>1, <2>2
<1>9. ASSUME NEW c \in Images, DeleteCandidate(r, c)
      PROVE  (\E x : Become(r, x) /\ x.op # "save") /\ UNCHANGED database
  <2>1. PICK x : /\ x = [req[r] EXCEPT !.todo = @ \ {c}, !.held = @ \cup ({c} \cap candidates)]
                 /\ Become(r, x) /\ UNCHANGED database
    BY <1>9 DEF DeleteCandidate
  <2>2. x.op = req[r].op
    BY <1>1, <2>1 DEF Request
  <2> QED
    BY <2>1, <2>2
<1>10. CASE CheckReferences(r)
  <2>1. CASE ~Abort(r)
    <3> DEFINE orphans == {c \in req[r].media : key[c] # 0 /\ c \notin candidates \ req[r].held}
    <3>1. PICK x : /\ x = [req[r] EXCEPT !.pc = "media", !.media = orphans,
                                         !.keys = {key[c] : c \in orphans}]
                   /\ Become(r, x) /\ UNCHANGED database
      BY <1>10, <2>1 DEF CheckReferences
    <3> HIDE DEF orphans
    <3>2. x.op = req[r].op
      BY <1>1, <3>1 DEF Request
    <3> QED
      BY <3>1, <3>2
  <2> QED
    BY <1>3, <2>1
<1>11. CASE DeleteMedia(r) \/ CommitRemove(r)
  BY <1>2, <1>11 DEF DeleteMedia, CommitRemove, Commits, Goto
<1>12. CASE DeleteCup(r)
  <2>1. CASE ~Abort(r)
    <3>1. PICK x : /\ x = [req[r] EXCEPT !.pc = "commit", !.held = candidates]
                   /\ Become(r, x) /\ UNCHANGED database
      BY <1>12, <2>1 DEF DeleteCup
    <3>2. x.op = req[r].op
      BY <1>1, <3>1 DEF Request
    <3> QED
      BY <3>1, <3>2
  <2> QED
    BY <1>3, <2>1
<1>13. ASSUME \/ \E k \in Images : DeleteObject(r, k) \/ GiveUpObject(r, k)
              \/ RetryObject(r)
       PROVE  (\E x : Become(r, x) /\ x.op # "save") /\ UNCHANGED database
  <2>1. PICK x : /\ \/ \E k : x = [req[r] EXCEPT !.keys = @ \ {k}, !.attempt = 0]
                    \/ x = [req[r] EXCEPT !.attempt = @ + 1]
                 /\ Become(r, x) /\ UNCHANGED database
    BY <1>13 DEF DeleteObject, GiveUpObject, RetryObject
  <2>2. x.op = req[r].op
    BY <1>1, <2>1 DEF Request
  <2> QED
    BY <2>1, <2>2
<1>14. CASE Answer(r) \/ Stop(r)
  BY <1>1, <1>14 DEF Answer, Stop
<1>15. CASE Fail(r) \/ BreakCircle(r)
  BY <1>3, <1>15 DEF Fail, BreakCircle
<1>16. ~CommitSave(r) /\ \A c : ~ReferToCandidate(r, c)
  BY DEF CommitSave, ReferToCandidate
<1> QED
  BY <1>4, <1>5, <1>6, <1>7, <1>8, <1>9, <1>10, <1>11, <1>12, <1>13, <1>14, <1>15, <1>16 DEF Step

(* Every step keeps it.                                                       *)
LEMMA SaveRowsInvariant == IInv /\ SaveRows /\ [Next]_vars => SaveRows'
<1> SUFFICES ASSUME IInv, SaveRows, [Next]_vars PROVE SaveRows'
  OBVIOUS
<1>1. TypeOK /\ \A q \in Requests : req[q].op = "save" => req[q].row \in Rows
  BY DEF IInv, Shape
<1>2. ASSUME NEW r \in Requests, NEW x, Become(r, x), x.op # "save", UNCHANGED on, x \in Request
      PROVE  SaveRows'
  BY <1>1, <1>2, SaveRowsMove
<1>3. Idle \in Request /\ Idle.op = "none"
  BY IdleIsRequest
<1>4. ASSUME NEW r \in Requests, Abort(r) PROVE SaveRows'
  BY <1>2, <1>3, <1>4 DEF Abort, database
<1>5. ASSUME NEW r \in Requests, NEW i \in Rows, NEW S \in SUBSET Images, Save(r, i, S)
      PROVE  SaveRows'
  <2>1. PICK x \in Request : x = [Idle EXCEPT !.pc = "refer", !.op = "save", !.row = i, !.todo = S]
    BY <1>3 DEF Request, Steps
  <2>2. x.op = "save" /\ x.row = i /\ x.pc = "refer" /\ x.todo = S
    BY <2>1, <1>3 DEF Request
  <2>3. /\ Become(r, x) /\ UNCHANGED on /\ on[i] = {} /\ S # {}
        /\ \A q \in Requests : req[q].row # i
    BY <1>5, <2>1 DEF Save, database
  <2>4. SaveOK(x)
    BY <2>2, <2>3 DEF SaveOK
  <2> QED
    BY <1>1, <2>2, <2>3, <2>4, SaveRowsMove DEF Saves
<1>6. ASSUME NEW r \in Requests, req[r].op = "save", ~Abort(r),
             ReferToCup(r) \/ \E c \in Images : ReferToCandidate(r, c)
      PROVE  SaveRows'
  <2>1. PICK x \in Request : /\ Become(r, x) /\ x.op = "save" /\ x.row = req[r].row
                             /\ SaveOK(x) /\ UNCHANGED database
    BY <1>6, SaveGoesOn
  <2>2. on[x.row] = {} /\ \A q \in Requests \ {r} : ~Saves(req[q], x.row)
    BY <1>6, <2>1 DEF SaveRows, Saves
  <2> QED
    BY <1>1, <2>1, <2>2, SaveRowsMove DEF database
<1>7. ASSUME NEW r \in Requests, CommitSave(r) PROVE SaveRows'
  <2>1. /\ Become(r, Idle) /\ on' = [on EXCEPT ![req[r].row] = req[r].held]
        /\ req[r].op = "save" /\ on \in [Rows -> SUBSET Images]
    BY <1>1, <1>7 DEF CommitSave, TypeOK
  <2>2. \A i \in Rows : on'[i] # {} => on[i] # {} \/ Saves(req[r], i)
    BY <1>1, <2>1 DEF Saves
  <2> QED
    BY <1>1, <1>3, <2>1, <2>2, SaveRowsMove
<1>8. ASSUME NEW r \in Requests, req[r].op # "save",
             \/ Create(r) \/ (\E c \in Images : Replace(r, c)) \/ Remove(r)
             \/ Step(r) \/ Fail(r) \/ Stop(r)
      PROVE  SaveRows'
  <2>1. PICK x : Become(r, x) /\ x.op # "save"
    BY <1>8, OthersGoOn
  <2>2. x = req'[r] /\ TypeOK'
    BY <1>1, <2>1, NextInvariant DEF Become, TypeOK, IInv
  <2>3. x \in Request
    BY <2>2 DEF TypeOK
  <2>4. UNCHANGED on \/ CommitRemove(r)
    BY <1>8, OthersGoOn DEF Commits, database, CommitCreate, CommitReplace
  <2>5. \A i \in Rows : on'[i] # {} => on[i] # {}
    BY <2>4 DEF CommitRemove
  <2> QED
    BY <1>1, <2>1, <2>3, <2>5, SaveRowsMove
<1>9. ASSUME NEW r \in Requests, req[r].op = "save", Step(r) \/ Fail(r) \/ Stop(r)
      PROVE  SaveRows'
  <2>1. /\ req[r].pc \in {"refer", "candidates", "commit"} /\ req[r] \in Request
    BY <1>1, <1>9 DEF IInv, Shape, TypeOK
  <2>2. \/ ReferToCup(r) \/ (\E c \in Images : ReferToCandidate(r, c)) \/ CommitSave(r)
        \/ BreakCircle(r) \/ Fail(r)
    BY <1>9, <2>1 DEF Step, Stop, CommitCreate, UpdateMedia, UpdateCandidate, CommitReplace, Clean,
       DeleteComments, DeletePlays, DeleteCandidate, CheckReferences, DeleteMedia, DeleteCup,
       CommitRemove, DeleteObject, GiveUpObject, RetryObject, Answer
  <2> QED
    BY <1>4, <1>6, <1>7, <1>9, <2>2 DEF BreakCircle, Fail
<1>10. CASE UNCHANGED vars
  BY <1>10 DEF vars, SaveRows, SaveOK
<1>11. ASSUME NEW r \in Requests, Create(r) \/ (\E c \in Images : Replace(r, c)) \/ Remove(r)
       PROVE  req[r].op # "save"
  BY <1>11 DEF Create, Replace, Remove, IInv, Shape
<1> QED
  BY <1>5, <1>8, <1>9, <1>10, <1>11 DEF Next, Quiet

(* Which candidates a row that is being inserted is about.                    *)
LEMMA SavedStays ==
  ASSUME TypeOK, NEW r \in Requests, NEW x, Become(r, x),
         x.op = "save" <=> req[r].op = "save",
         x.op = "save" => x.row = req[r].row /\ x.held \cup x.todo = req[r].held \cup req[r].todo
  PROVE  \A i \in Rows : SavedOn(i)' = SavedOn(i)
<1>1. /\ req'[r] = x
      /\ \A q \in Requests : q # r => req'[q] = req[q]
  BY DEF TypeOK, Become
<1>2. ASSUME NEW i \in Rows, NEW q \in Requests
      PROVE  /\ req'[q].op = "save" /\ req'[q].row = i <=> req[q].op = "save" /\ req[q].row = i
             /\ req[q].op = "save" => req'[q].held \cup req'[q].todo = req[q].held \cup req[q].todo
  BY <1>1
<1>3. ASSUME NEW i \in Rows, NEW c PROVE c \in SavedOn(i)' <=> c \in SavedOn(i)
  <2>1. c \in SavedOn(i) <=>
          \E q \in Requests : req[q].op = "save" /\ req[q].row = i /\ c \in req[q].held \cup req[q].todo
    BY DEF SavedOn
  <2>2. c \in SavedOn(i)' <=>
          \E q \in Requests : req'[q].op = "save" /\ req'[q].row = i /\ c \in req'[q].held \cup req'[q].todo
    BY DEF SavedOn
  <2> QED
    BY <1>2, <2>1, <2>2
<1> QED
  BY <1>3

(* A save of a row is about what it has referred to and what it will.         *)
LEMMA SavedOfOne ==
  ASSUME SaveRows, NEW r \in Requests, req[r].op = "save"
  PROVE  SavedOn(req[r].row) = req[r].held \cup req[r].todo
<1>1. ASSUME NEW c PROVE c \in SavedOn(req[r].row) <=> c \in req[r].held \cup req[r].todo
  BY DEF SavedOn, SaveRows
<1> QED
  BY <1>1

(* Nobody saves a row: it is about nothing.                                   *)
LEMMA SavedOfNone ==
  ASSUME NEW i \in Rows, \A q \in Requests : ~Saves(req[q], i)
  PROVE  SavedOn(i) = {}
<1>1. ASSUME NEW c PROVE c \notin SavedOn(i)
  BY DEF SavedOn, Saves
<1> QED
  BY <1>1

(* A save of the row i begins or ends.                                        *)
LEMMA SavedChanges ==
  ASSUME TypeOK, NEW r \in Requests, NEW x, Become(r, x), NEW i \in Rows,
         req[r].op = "save" => req[r].row = i, x.op = "save" => x.row = i,
         \A q \in Requests \ {r} : ~Saves(req[q], i)
  PROVE  /\ \A j \in Rows \ {i} : SavedOn(j)' = SavedOn(j)
         /\ SavedOn(i)' = IF x.op = "save" THEN x.held \cup x.todo ELSE {}
<1>1. /\ req'[r] = x
      /\ \A q \in Requests : q # r => req'[q] = req[q]
  BY DEF TypeOK, Become
<1>2. ASSUME NEW j \in Rows, NEW c
      PROVE  c \in SavedOn(j) <=>
               \E q \in Requests : req[q].op = "save" /\ req[q].row = j /\ c \in req[q].held \cup req[q].todo
  BY DEF SavedOn
<1>3. ASSUME NEW j \in Rows, NEW c
      PROVE  c \in SavedOn(j)' <=>
               \E q \in Requests : req'[q].op = "save" /\ req'[q].row = j /\ c \in req'[q].held \cup req'[q].todo
  BY DEF SavedOn
<1>4. ASSUME NEW j \in Rows \ {i}, NEW c PROVE c \in SavedOn(j)' <=> c \in SavedOn(j)
  BY <1>1, <1>2, <1>3
<1>5. ASSUME NEW c
      PROVE  c \in SavedOn(i)' <=> x.op = "save" /\ c \in x.held \cup x.todo
  BY <1>1, <1>3 DEF Saves
<1>6. ASSUME NEW j \in Rows \ {i} PROVE SavedOn(j)' = SavedOn(j)
  BY <1>4
<1>7. CASE x.op = "save"
  BY <1>5, <1>6, <1>7
<1>8. CASE x.op # "save"
  BY <1>5, <1>6, <1>8
<1> QED
  BY <1>7, <1>8

(* Every candidate's image is seen.                                           *)
ImagesSeen == \A c \in Images : /\ ImageOf(c) = IF c \in candidates THEN key[c] ELSE 0
                                /\ c \in candidates <=> ImageOf(c) # 0

(* Nobody deletes the object of an image that a row points to.               *)
LEMMA AllSeen == IInv => ImagesSeen
BY DEF IInv, KeysInv, ImagesSeen, ImageOf

(* Everything that is written below a world cup, and its removal, implements  *)
(* a store in which each happens at once.                                     *)
THEOREM Refinement == Spec => ImplementsWorldCupStore
<1> DEFINE image == [c \in Images |-> ImageOf(c)]
           asked == [i \in Rows |-> SavedOn(i)]
<1>1. ASSUME Init PROVE Store!Init /\ SaveRows
  <2>1. \A i \in Rows : SavedOn(i) = {}
    BY <1>1, IdleIsRequest, SavedOfNone DEF Init, Saves
  <2>2. Store!Init
    BY <1>1, <2>1 DEF Init, Store!Init, ImageOf
  <2>3. SaveRows
    BY <1>1, IdleIsRequest DEF Init, SaveRows
  <2> QED
    BY <2>2, <2>3
<1>2. ASSUME IInv, SaveRows, ImagesSeen, IInv', ImagesSeen', [Next]_vars
      PROVE  [Store!Next]_(Store!vars)
  <2>t. /\ TypeOK /\ candidates \subseteq Images /\ on \in [Rows -> SUBSET Images]
        /\ key \in [Images -> 0..MaxImages] /\ 0 \notin Images
    BY <1>2, ImagesAreNumbers DEF IInv, TypeOK
  <2>i. /\ \A c \in Images : image[c] = IF c \in candidates THEN key[c] ELSE 0
        /\ \A c \in Images : image'[c] = IF c \in candidates' THEN key'[c] ELSE 0
        /\ image' = [c \in Images |-> image'[c]]
        /\ \A c \in candidates : key[c] # 0
        /\ \A c \in Images : c \in candidates <=> image[c] # 0
    BY <1>2 DEF ImagesSeen, IInv, KeysInv
  <2>c. Store!Candidates = candidates
    BY <2>t, <2>i DEF Store!Candidates
  <2>a. /\ \A i \in Rows : asked[i] = SavedOn(i) /\ asked'[i] = SavedOn(i)'
        /\ asked' = [i \in Rows |-> asked'[i]]
    OBVIOUS
  <2>d. ASSUME UNCHANGED <<candidates, key>> PROVE image' = image
    BY <2>d, <2>i
  <2> HIDE DEF image, asked
  <2>s. ASSUME NEW r \in Requests, NEW x, Become(r, x), UNCHANGED <<cup, candidates, key, on>>,
               x.op = "save" <=> req[r].op = "save",
               x.op = "save" => x.row = req[r].row /\ x.held \cup x.todo = req[r].held \cup req[r].todo
        PROVE  UNCHANGED Store!vars
    <3>1. asked' = asked
      BY <2>t, <2>a, <2>s, SavedStays DEF asked
    <3>2. image' = image
      BY <2>d, <2>s
    <3> QED
      BY <2>s, <3>1, <3>2 DEF Store!vars, asked, image
  <2>n. ASSUME NEW i \in Rows, \A j \in Rows \ {i} : SavedOn(j)' = SavedOn(j)
        PROVE  asked' = [asked EXCEPT ![i] = SavedOn(i)']
    BY <2>a, <2>n DEF asked
  <2>1. ASSUME NEW r \in Requests, NEW i \in Rows, NEW S \in SUBSET Images, Save(r, i, S)
        PROVE  Store!Next
    <3>1. PICK x : /\ x = [Idle EXCEPT !.pc = "refer", !.op = "save", !.row = i, !.todo = S]
                   /\ Become(r, x) /\ UNCHANGED database
                   /\ req[r].pc = "idle" /\ on[i] = {} /\ S \subseteq candidates /\ S # {}
                   /\ \A q \in Requests : req[q].row # i
      BY <2>1 DEF Save
    <3>2. x.op = "save" /\ x.row = i /\ x.held = {} /\ x.todo = S
      BY <3>1 DEF Idle
    <3>3. req[r].op # "save" /\ \A q \in Requests : ~Saves(req[q], i)
      BY <1>2, <3>1 DEF Saves, IInv, Shape
    <3>4. SavedOn(i) = {}
      BY <3>3, SavedOfNone
    <3>5. /\ SavedOn(i)' = S
          /\ \A j \in Rows \ {i} : SavedOn(j)' = SavedOn(j)
      <4>1. /\ SavedOn(i)' = IF x.op = "save" THEN x.held \cup x.todo ELSE {}
            /\ \A j \in Rows \ {i} : SavedOn(j)' = SavedOn(j)
        <5>1. \A q \in Requests \ {r} : ~Saves(req[q], i)
          BY <3>3
        <5>2. /\ req[r].op = "save" => req[r].row = i
              /\ x.op = "save" => x.row = i
          BY <3>2, <3>3
        <5>3. TypeOK /\ Become(r, x)
          BY <2>t, <3>1
        <5> QED
          BY <5>1, <5>2, <5>3, SavedChanges
      <4> QED
        BY <3>2, <4>1
    <3>6. asked' = [asked EXCEPT ![i] = S]
      BY <2>n, <3>5
    <3>7. cup' = cup /\ image' = image /\ on' = on
      BY <2>d, <3>1 DEF database
    <3>8. Store!Ask(i, S)
      BY <2>a, <2>c, <3>1, <3>4, <3>6, <3>7 DEF Store!Ask, asked, image
    <3> QED
      BY <3>8 DEF Store!Next
  <2>2. ASSUME NEW r \in Requests, Abort(r) PROVE [Store!Next]_(Store!vars)
    <3>1. /\ Become(r, Idle) /\ Idle.op = "none" /\ UNCHANGED <<cup, candidates, key, on>>
      BY <2>2, IdleIsRequest DEF Abort, database
    <3>2. CASE req[r].op # "save"
      BY <2>s, <3>1, <3>2
    <3>3. CASE req[r].op = "save"
      <4>1. PICK i \in Rows : i = req[r].row
        BY <1>2, <3>3 DEF IInv, Shape
      <4>2. \A q \in Requests \ {r} : ~Saves(req[q], i)
        BY <1>2, <3>3, <4>1 DEF SaveRows, Saves
      <4>3. SavedOn(i)' = {} /\ \A j \in Rows \ {i} : SavedOn(j)' = SavedOn(j)
        BY <2>t, <3>1, <4>1, <4>2, SavedChanges
      <4>4. SavedOn(i) # {}
        BY <1>2, <3>3, <4>1, SavedOfOne DEF SaveRows, SaveOK, IInv, Shape
      <4>5. asked' = [asked EXCEPT ![i] = {}] /\ asked[i] # {}
        BY <2>a, <2>n, <4>3, <4>4
      <4>6. image' = image
        BY <2>d, <3>1
      <4>7. Store!Refuse(i)
        BY <3>1, <4>5, <4>6 DEF Store!Refuse, asked, image
      <4> QED
        BY <4>7 DEF Store!Next
    <3> QED
      BY <3>2, <3>3
  <2>3. ASSUME NEW r \in Requests, req[r].op = "save", ~Abort(r),
               ReferToCup(r) \/ \E c \in Images : ReferToCandidate(r, c)
        PROVE  UNCHANGED Store!vars
    <3>1. PICK x \in Request : /\ Become(r, x) /\ x.op = "save" /\ x.row = req[r].row
                               /\ x.held \cup x.todo = req[r].held \cup req[r].todo
                               /\ UNCHANGED database
      BY <1>2, <2>3, SaveGoesOn
    <3> QED
      BY <2>3, <2>s, <3>1 DEF database
  <2>4. ASSUME NEW r \in Requests, CommitSave(r) PROVE Store!Next
    <3>0. PICK i \in Rows : i = req[r].row
      BY <1>2, <2>4 DEF CommitSave, IInv, Shape
    <3>1. PICK S : i = req[r].row /\ S = req[r].held
      BY <3>0
    <3>2. /\ req[r].op = "save" /\ req[r].pc = "commit" /\ Become(r, Idle) /\ Idle.op = "none"
          /\ on' = [on EXCEPT ![i] = S] /\ UNCHANGED <<cup, candidates, key>>
      BY <2>4, <3>1, IdleIsRequest DEF CommitSave
    <3>3. req[r].todo = {} /\ S # {} /\ S \subseteq candidates
      BY <1>2, <3>1, <3>2 DEF SaveRows, SaveOK, IInv, Own, CupOK
    <3>4. \A q \in Requests \ {r} : ~Saves(req[q], i)
      BY <1>2, <3>1, <3>2 DEF SaveRows, Saves
    <3>5. SavedOn(i)' = {} /\ \A j \in Rows \ {i} : SavedOn(j)' = SavedOn(j)
      BY <2>t, <3>1, <3>2, <3>4, SavedChanges
    <3>6. SavedOn(i) = S
      BY <1>2, <3>1, <3>2, <3>3, SavedOfOne
    <3>7. asked' = [asked EXCEPT ![i] = {}] /\ asked[i] = S
      BY <2>a, <2>n, <3>5, <3>6
    <3>8. image' = image
      BY <2>d, <3>2
    <3>9. Store!Record(i)
      BY <2>c, <3>2, <3>3, <3>7, <3>8 DEF Store!Record, asked, image
    <3> QED
      BY <3>9 DEF Store!Next
  <2>5. ASSUME NEW r \in Requests, CommitCreate(r) PROVE Store!Next
    <3>1. PICK k : k = req[r].key
      OBVIOUS
    <3>2. /\ req[r].op = "create" /\ req[r].pc = "commit" /\ Become(r, Idle) /\ Idle.op = "none"
          /\ candidates' = candidates \cup {k} /\ key' = [key EXCEPT ![k] = k]
          /\ UNCHANGED <<cup, on>>
      BY <2>5, <3>1, IdleIsRequest DEF CommitCreate
    <3>3. /\ k \in Images /\ key[k] = 0 /\ (\A c \in Images : key[c] # k) /\ cup
      <4>1. Shape(req[r]) /\ Own(req[r]) /\ k \in 0..MaxImages
        BY <1>2, <3>1, Known DEF Request
      <4> QED
        BY <3>1, <3>2, <4>1 DEF Shape, Own, UploadOK, CupOK, Pending, Refers, Images
    <3>4. k \notin candidates /\ \A c \in Images : image[c] # k
      BY <2>i, <2>t, <3>3
    <3>5. image' = [image EXCEPT ![k] = k]
      <4>1. \A c \in Images : image'[c] = IF c = k THEN k ELSE image[c]
        BY <2>i, <2>t, <3>2, <3>3
      <4>2. image = [c \in Images |-> image[c]]
        BY DEF image
      <4> QED
        BY <2>i, <3>3, <4>1, <4>2
    <3>6. asked' = asked
      BY <2>a, <2>t, <3>2, SavedStays DEF asked
    <3>7. Store!Create(k)
      BY <2>c, <3>2, <3>3, <3>4, <3>5, <3>6 DEF Store!Create, Store!Unused, asked, image
    <3> QED
      BY <3>3, <3>7 DEF Store!Next
  <2>6. ASSUME NEW r \in Requests, CommitReplace(r) PROVE Store!Next
    <3>1. PICK k, c : k = req[r].key /\ req[r].media = {c} /\ c \in Images
      BY <1>2, <2>6 DEF CommitReplace, IInv, Shape
    <3>2. /\ req[r].op = "replace" /\ req[r].pc = "commit"
          /\ key' = [d \in Images |-> IF d \in {c} THEN k ELSE key[d]]
          /\ Become(r, [req[r] EXCEPT !.pc = "clean"]) /\ UNCHANGED <<cup, candidates, on>>
      BY <2>6, <3>1 DEF CommitReplace, Goto
    <3>3. /\ k \in Images /\ (\A d \in Images : key[d] # k) /\ c \in candidates
      <4>1. Shape(req[r]) /\ Own(req[r]) /\ k \in 0..MaxImages
        BY <1>2, <3>1, Known DEF Request
      <4> QED
        BY <3>1, <3>2, <4>1 DEF Shape, Own, UploadOK, CupOK, Pending, Replaces, Images
    <3>4. \A d \in Images : image[d] # k
      BY <2>i, <2>t, <3>3
    <3>5. image' = [image EXCEPT ![c] = k]
      <4>1. \A d \in Images : image'[d] = IF d = c THEN k ELSE image[d]
        BY <2>i, <2>t, <3>1, <3>2, <3>3
      <4>2. image = [d \in Images |-> image[d]]
        BY DEF image
      <4> QED
        BY <2>i, <3>1, <4>1, <4>2
    <3>6. asked' = asked
      <4>1. PICK x : x = [req[r] EXCEPT !.pc = "clean"]
        OBVIOUS
      <4>2. x.op = "replace"
        BY <2>t, <3>2, <4>1 DEF TypeOK, Request
      <4> QED
        BY <2>a, <2>t, <3>2, <4>1, <4>2, SavedStays DEF asked
    <3>7. Store!Replace(c, k)
      BY <2>c, <3>2, <3>3, <3>4, <3>5, <3>6 DEF Store!Replace, Store!Unused, asked, image
    <3> QED
      BY <3>1, <3>3, <3>7 DEF Store!Next
  <2>7. ASSUME NEW r \in Requests, CommitRemove(r) PROVE Store!Next
    <3>1. /\ req[r].op = "remove" /\ req[r].pc = "commit" /\ cup' = FALSE /\ candidates' = {}
          /\ on' = [i \in Rows |-> {}] /\ Become(r, [req[r] EXCEPT !.pc = "objects"])
      BY <2>7 DEF CommitRemove, Goto
    <3>2. cup
      BY <1>2, <3>1 DEF IInv, Own, CupOK, Drops
    <3>3. image' = [c \in Images |-> 0]
      BY <2>i, <3>1
    <3>4. asked' = asked
      <4>1. PICK x : x = [req[r] EXCEPT !.pc = "objects"]
        OBVIOUS
      <4>2. x.op = "remove"
        BY <2>t, <3>1, <4>1 DEF TypeOK, Request
      <4> QED
        BY <2>a, <2>t, <3>1, <4>1, <4>2, SavedStays DEF asked
    <3>5. Store!Remove
      BY <3>1, <3>2, <3>3, <3>4 DEF Store!Remove, asked, image
    <3> QED
      BY <3>5 DEF Store!Next
  <2>8. ASSUME NEW r \in Requests, req[r].op # "save",
               \/ Create(r) \/ (\E c \in Images : Replace(r, c)) \/ Remove(r)
               \/ Step(r) \/ Fail(r) \/ Stop(r)
        PROVE  [Store!Next]_(Store!vars)
    <3>1. PICK x : Become(r, x) /\ x.op # "save"
      BY <1>2, <2>8, OthersGoOn
    <3>2. UNCHANGED database \/ Commits(r)
      BY <1>2, <2>8, OthersGoOn
    <3>3. CASE UNCHANGED database
      BY <2>8, <2>s, <3>1, <3>3 DEF database
    <3> QED
      BY <2>5, <2>6, <2>7, <3>2, <3>3 DEF Commits
  <2>9. ASSUME NEW r \in Requests, req[r].op = "save", Step(r) \/ Fail(r) \/ Stop(r)
        PROVE  [Store!Next]_(Store!vars)
    <3>1. /\ req[r].pc \in {"refer", "candidates", "commit"} /\ req[r] \in Request
      BY <1>2, <2>9 DEF IInv, Shape, TypeOK
    <3>2. \/ ReferToCup(r) \/ (\E c \in Images : ReferToCandidate(r, c)) \/ CommitSave(r)
          \/ BreakCircle(r) \/ Fail(r)
      BY <2>9, <3>1 DEF Step, Stop, CommitCreate, UpdateMedia, UpdateCandidate, CommitReplace, Clean,
         DeleteComments, DeletePlays, DeleteCandidate, CheckReferences, DeleteMedia, DeleteCup,
         CommitRemove, DeleteObject, GiveUpObject, RetryObject, Answer
    <3> QED
      BY <2>2, <2>3, <2>4, <2>9, <3>2 DEF BreakCircle, Fail
  <2>10. CASE UNCHANGED vars
    <3>1. image' = image /\ asked' = asked
      BY <2>d, <2>10 DEF vars, asked, SavedOn
    <3> QED
      BY <2>10, <3>1 DEF vars, Store!vars, asked, image
  <2>11. ASSUME NEW r \in Requests, Create(r) \/ (\E c \in Images : Replace(r, c)) \/ Remove(r)
         PROVE  req[r].op # "save"
    BY <1>2, <2>11 DEF Create, Replace, Remove, IInv, Shape
  <2> QED
    BY <1>2, <2>1, <2>8, <2>9, <2>10, <2>11 DEF Next, Quiet
<1> QED
  BY <1>1, <1>2, SaveRowsInvariant, AllSeen, Invariance, PTL
     DEF Spec, ImplementsWorldCupStore, Store!Spec
-----------------------------------------------------------------------------
(* Sets of images are finite, and lose one by one.                            *)
LEMMA Counted ==
  ASSUME NEW S \in SUBSET Images
  PROVE  /\ Cardinality(S) \in 0..MaxImages
         /\ \A c \in S : Cardinality(S \ {c}) = Cardinality(S) - 1
         /\ S # {} => Cardinality(S) > 0
<1>1. IsFiniteSet(Images) /\ Cardinality(Images) = MaxImages /\ MaxImages \in Nat
  BY ImagesAreNumbers, FS_Interval DEF Images
<1>2. IsFiniteSet(S) /\ Cardinality(S) \in Nat /\ Cardinality(S) <= MaxImages
  BY <1>1, FS_Subset, FS_CardinalityType
<1>3. \A c \in S : Cardinality(S \ {c}) = Cardinality(S) - 1
  BY <1>2, FS_RemoveElement
<1>4. ASSUME S # {} PROVE Cardinality(S) > 0
  <2>1. Cardinality(S) # 0
    BY <1>2, <1>4, FS_EmptySet
  <2> QED
    BY <1>2, <2>1
<1> QED
  BY <1>1, <1>2, <1>3, <1>4

CleanUp == Attempts * MaxImages + 2

(* The attempts at fewer objects are fewer.                                   *)
LEMMA Attempted ==
  /\ CleanUp \in Nat /\ CleanUp >= 2
  /\ \A n \in 0..MaxImages : /\ Attempts * n \in Nat
                             /\ Attempts * n <= CleanUp - 2
                             /\ n > 0 => Attempts * (n - 1) = Attempts * n - Attempts
<1>1. Attempts \in Nat /\ MaxImages \in Nat
  BY ImagesAreNumbers
<1>2. ASSUME NEW a \in Nat, NEW k \in Nat, NEW n \in Nat, n <= k
      PROVE  a * n \in Nat /\ a * n <= a * k /\ a * (n - 1) = a * n - a
  BY <1>2
<1> QED
  BY <1>1, <1>2 DEF CleanUp

(* What is left, step by step.                                                *)
LEMMA LeftByStep ==
  ASSUME NEW x \in Request
  PROVE  /\ x.pc = "idle" => StepsLeft(x) = 0
         /\ x.pc = "clean" => StepsLeft(x) = 1
         /\ x.pc = "objects" => StepsLeft(x) = (Attempts * Cardinality(x.keys) + 1) - x.attempt
         /\ x.pc = "commit" => StepsLeft(x) = CleanUp
         /\ x.pc \in {"cup", "candidate"} => StepsLeft(x) = CleanUp + 1
         /\ x.pc = "media" => StepsLeft(x) = CleanUp + 2
         /\ x.pc = "candidates" => StepsLeft(x) = CleanUp + 3 + Cardinality(x.todo)
         /\ x.pc \in {"plays", "refer"} => StepsLeft(x) = CleanUp + 4 + MaxImages
         /\ x.pc = "comments" => StepsLeft(x) = CleanUp + 5 + MaxImages
         /\ Cardinality(x.todo) \in 0..MaxImages /\ Cardinality(x.keys) \in 0..MaxImages
         /\ x.attempt \in 0..(Attempts - 1) /\ (x.keys # {} => Cardinality(x.keys) > 0)
<1>1. x.todo \in SUBSET Images /\ x.keys \in SUBSET Images /\ x.attempt \in 0..(Attempts - 1)
  BY DEF Request
<1>2. /\ Cardinality(x.todo) \in 0..MaxImages /\ Cardinality(x.keys) \in 0..MaxImages
      /\ x.keys # {} => Cardinality(x.keys) > 0
  BY <1>1, Counted
<1> QED
  BY <1>1, <1>2 DEF StepsLeft, CleanUp

(* Attempts are counted for an object that is still to be deleted.            *)
Tried(x) == x.attempt # 0 => x.pc = "objects" /\ x.keys # {}

(* Nobody has nothing left but who is answered.                               *)
LEMMA LeftIsPositive ==
  ASSUME NEW x \in Request, x.pc # "idle", Tried(x)
  PROVE  StepsLeft(x) > 0
<1>1. x.pc \in Steps
  BY DEF Request
<1>2. /\ Cardinality(x.todo) \in Nat /\ Cardinality(x.keys) \in 0..MaxImages
      /\ Attempts \in Nat /\ x.attempt \in Nat /\ x.attempt < Attempts
      /\ x.keys # {} => Cardinality(x.keys) > 0
  BY LeftByStep, ImagesAreNumbers
<1>3. CleanUp \in Nat /\ CleanUp >= 2 /\ MaxImages \in Nat
  BY Attempted, ImagesAreNumbers
<1>4. CASE x.pc = "objects"
  <2>1. PICK k \in 0..MaxImages, t \in Nat : k = Cardinality(x.keys) /\ t = x.attempt
    BY <1>2
  <2>2. StepsLeft(x) = (Attempts * k + 1) - t
    BY <1>4, <2>1, LeftByStep
  <2>3. /\ Attempts * k \in Nat
        /\ k > 0 => Attempts * (k - 1) = Attempts * k - Attempts /\ Attempts * (k - 1) \in Nat
    <3>1. k > 0 => k - 1 \in 0..MaxImages
      BY <1>3
    <3> QED
      BY <3>1, Attempted
  <2>4. k = 0 => t = 0
    BY <1>2, <2>1 DEF Tried
  <2>5. t < Attempts
    BY <1>2, <2>1
  <2> QED
    BY <1>2, <1>3, <2>1, <2>2, <2>3, <2>4, <2>5
<1>5. CASE x.pc \in {"clean", "commit", "cup", "candidate", "media"}
  BY <1>3, <1>5, LeftByStep
<1>6. CASE x.pc = "candidates"
  BY <1>2, <1>3, <1>6, LeftByStep
<1>7. CASE x.pc \in {"plays", "refer", "comments"}
  BY <1>3, <1>7, LeftByStep
<1> QED
  BY <1>1, <1>4, <1>5, <1>6, <1>7 DEF Steps

(* A step of a request, whoever else is served: it is nearer to its answer.   *)
LEMMA WorkOf ==
  ASSUME IInv, NEW r \in Requests, Tried(req[r]), req[r].pc # "idle", Step(r) \/ Fail(r) \/ Stop(r)
  PROVE  \E x \in Request : Become(r, x) /\ Tried(x) /\ StepsLeft(x) < StepsLeft(req[r])
<1> DEFINE Goal == \E x \in Request : Become(r, x) /\ Tried(x) /\ StepsLeft(x) < StepsLeft(req[r])
<1>1. PICK y \in Request : y = req[r]
  BY Known
<1>2. /\ CleanUp \in Nat /\ CleanUp >= 2 /\ MaxImages \in Nat /\ Attempts \in Nat \ {0}
      /\ Cardinality(y.todo) \in 0..MaxImages /\ Cardinality(y.keys) \in 0..MaxImages
      /\ y.attempt \in 0..(Attempts - 1)
  BY Attempted, LeftByStep, ImagesAreNumbers
<1>3. ASSUME Become(r, Idle) PROVE Goal
  <2>1. Idle \in Request /\ Idle.pc = "idle" /\ Idle.attempt = 0
    BY IdleIsRequest DEF Idle
  <2>2. StepsLeft(Idle) = 0 /\ StepsLeft(y) > 0
    BY <1>1, <2>1, LeftByStep, LeftIsPositive
  <2> QED
    BY <1>1, <1>3, <2>1, <2>2 DEF Tried
<1>4. ASSUME NEW s \in Steps, Goto(r, s), y.pc # "objects"
      PROVE  \E x \in Request : /\ Become(r, x) /\ Tried(x) /\ x.pc = s
                                /\ x.todo = y.todo /\ x.keys = y.keys /\ x.attempt = 0
  <2>1. PICK x \in Request : x = [y EXCEPT !.pc = s]
    BY <1>1 DEF Request
  <2>2. x.pc = s /\ x.todo = y.todo /\ x.keys = y.keys /\ x.attempt = y.attempt
    BY <2>1 DEF Request
  <2>3. y.attempt = 0
    BY <1>1, <1>4 DEF Tried
  <2> QED
    BY <1>1, <1>4, <2>1, <2>2, <2>3 DEF Goto, Tried
<1>5. CASE Abort(r) \/ CommitSave(r) \/ CommitCreate(r) \/ Clean(r) \/ Answer(r) \/ Stop(r)
  BY <1>3, <1>5 DEF Abort, CommitSave, CommitCreate, Clean, Answer, Stop
<1>6. CASE Fail(r) \/ BreakCircle(r)
  BY <1>5, <1>6 DEF Fail, BreakCircle
<1>7. CASE ReferToCup(r) /\ ~Abort(r)
  <2>1. PICK s \in {"candidates", "commit"} : Goto(r, s) /\ y.pc = "refer"
    BY <1>1, <1>7 DEF ReferToCup
  <2>2. PICK x \in Request : Become(r, x) /\ Tried(x) /\ x.pc = s /\ x.todo = y.todo
    BY <1>4, <2>1 DEF Steps
  <2>3. StepsLeft(y) = CleanUp + 4 + MaxImages
    BY <2>1, LeftByStep
  <2>4. StepsLeft(x) \in {CleanUp, CleanUp + 3 + Cardinality(y.todo)}
    BY <2>1, <2>2, LeftByStep
  <2> QED
    BY <1>1, <1>2, <2>2, <2>3, <2>4
<1>8. CASE /\ UpdateMedia(r) \/ UpdateCandidate(r) \/ DeleteMedia(r)
           /\ ~Abort(r)
  <2>1. PICK s \in {"candidate", "cup", "commit"} :
          Goto(r, s) /\ IF s = "commit" THEN y.pc = "candidate" ELSE y.pc = "media"
    BY <1>1, <1>8 DEF UpdateMedia, UpdateCandidate, DeleteMedia
  <2>2. PICK x \in Request : Become(r, x) /\ Tried(x) /\ x.pc = s
    BY <1>4, <2>1 DEF Steps
  <2>3. /\ s = "commit" => StepsLeft(x) = CleanUp /\ StepsLeft(y) = CleanUp + 1
        /\ s # "commit" => StepsLeft(x) = CleanUp + 1 /\ StepsLeft(y) = CleanUp + 2
    BY <2>1, <2>2, LeftByStep
  <2> QED
    BY <1>1, <1>2, <2>2, <2>3
<1>9. CASE CommitReplace(r) \/ CommitRemove(r)
  <2>1. PICK s \in {"clean", "objects"} : Goto(r, s) /\ y.pc = "commit"
    BY <1>1, <1>9 DEF CommitReplace, CommitRemove
  <2>2. PICK x \in Request : /\ Become(r, x) /\ Tried(x) /\ x.pc = s
                             /\ x.keys = y.keys /\ x.attempt = 0
    BY <1>4, <2>1 DEF Steps
  <2>3. StepsLeft(y) = CleanUp
    BY <2>1, LeftByStep
  <2>4. StepsLeft(x) \in {1, Attempts * Cardinality(y.keys) + 1}
    <3>1. CASE s = "clean"
      BY <2>2, <3>1, LeftByStep
    <3>2. CASE s = "objects"
      <4>1. StepsLeft(x) = (Attempts * Cardinality(y.keys) + 1) - 0
        BY <2>2, <3>2, LeftByStep
      <4>2. Attempts * Cardinality(y.keys) \in Nat
        BY <1>2, Attempted
      <4> QED
        BY <4>1, <4>2
    <3> QED
      BY <3>1, <3>2
  <2>5. Attempts * Cardinality(y.keys) \in Nat /\ Attempts * Cardinality(y.keys) <= CleanUp - 2
    BY <1>2, Attempted
  <2> QED
    BY <1>1, <1>2, <2>2, <2>3, <2>4, <2>5
<1>10. CASE DeleteComments(r) \/ DeletePlays(r)
  <2>1. PICK x : /\ \/ /\ x = [y EXCEPT !.pc = "plays", !.gone = Committed] /\ y.pc = "comments"
                    \/ /\ x = [y EXCEPT !.pc = "candidates", !.todo = candidates,
                                        !.gone = @ \cup (Committed \cap Plays)]
                       /\ y.pc = "plays"
                 /\ Become(r, x)
    BY <1>1, <1>10 DEF DeleteComments, DeletePlays
  <2>2. Committed \in SUBSET Rows /\ candidates \in SUBSET Images
    BY DEF Committed, IInv, TypeOK
  <2>3. x \in Request /\ x.attempt = y.attempt
    <3>1. PICK g \in SUBSET Rows : g = y.gone \cup (Committed \cap Plays)
      BY <2>2 DEF Request
    <3>2. \/ x = [y EXCEPT !.pc = "plays", !.gone = Committed]
          \/ x = [y EXCEPT !.pc = "candidates", !.todo = candidates, !.gone = g]
      BY <2>1, <3>1
    <3> QED
      BY <2>2, <3>2 DEF Request, Steps
  <2>4. \/ x.pc = "plays" /\ y.pc = "comments"
        \/ x.pc = "candidates" /\ y.pc = "plays"
    BY <2>1 DEF Request
  <2>5. Tried(x)
    BY <1>1, <2>3, <2>4 DEF Tried
  <2>6. Cardinality(x.todo) \in 0..MaxImages
    BY <2>3, LeftByStep
  <2>7. \/ StepsLeft(x) = CleanUp + 4 + MaxImages /\ StepsLeft(y) = CleanUp + 5 + MaxImages
        \/ StepsLeft(x) = CleanUp + 3 + Cardinality(x.todo) /\ StepsLeft(y) = CleanUp + 4 + MaxImages
    BY <2>3, <2>4, LeftByStep
  <2> QED
    BY <1>1, <1>2, <2>1, <2>3, <2>5, <2>6, <2>7
<1>11. ASSUME NEW c \in Images, (ReferToCandidate(r, c) /\ ~Abort(r)) \/ DeleteCandidate(r, c) PROVE Goal
  <2>1. PICK s \in {"candidates", "commit"}, h \in SUBSET Images :
          /\ Become(r, [y EXCEPT !.todo = @ \ {c}, !.held = h, !.pc = s])
          /\ c \in y.todo /\ y.pc = "candidates"
    <3>1. CASE ReferToCandidate(r, c) /\ ~Abort(r)
      <4>1. PICK s \in {"candidates", "commit"} : s = IF y.todo = {c} THEN "commit" ELSE y.pc
        BY <1>1, <3>1 DEF ReferToCandidate
      <4>2. PICK h \in SUBSET Images : h = y.held \cup {c}
        BY DEF Request
      <4> QED
        BY <1>1, <3>1, <4>1, <4>2 DEF ReferToCandidate
    <3>2. CASE DeleteCandidate(r, c)
      <4>1. PICK h \in SUBSET Images : h = y.held \cup ({c} \cap candidates)
        BY DEF Request
      <4>2. Become(r, [y EXCEPT !.todo = @ \ {c}, !.held = h]) /\ c \in y.todo /\ y.pc = "candidates"
        BY <1>1, <3>2, <4>1 DEF DeleteCandidate
      <4>3. [y EXCEPT !.todo = @ \ {c}, !.held = h]
              = [y EXCEPT !.todo = @ \ {c}, !.held = h, !.pc = "candidates"]
        BY <4>2 DEF Request
      <4> QED
        BY <4>2, <4>3
    <3> QED
      BY <1>11, <3>1, <3>2
  <2>2. PICK x \in Request : x = [y EXCEPT !.todo = @ \ {c}, !.held = h, !.pc = s]
    BY <2>1 DEF Request, Steps
  <2>3. x.pc = s /\ x.todo = y.todo \ {c} /\ x.attempt = y.attempt /\ y.todo \in SUBSET Images
    BY <2>2 DEF Request
  <2>4. Tried(x)
    BY <1>1, <2>1, <2>3 DEF Tried
  <2>5. Cardinality(x.todo) = Cardinality(y.todo) - 1
    BY <2>1, <2>3, Counted
  <2>6. StepsLeft(y) = CleanUp + 3 + Cardinality(y.todo)
    BY <2>1, LeftByStep
  <2>7. StepsLeft(x) \in {CleanUp, CleanUp + 3 + Cardinality(x.todo)}
    BY <2>1, <2>3, LeftByStep
  <2> QED
    BY <1>1, <1>2, <2>1, <2>2, <2>4, <2>5, <2>6, <2>7
<1>12. CASE CheckReferences(r) /\ ~Abort(r)
  <2>0. PICK o \in SUBSET Images :
          /\ \A c \in o : key[c] # 0
          /\ Become(r, [y EXCEPT !.pc = "media", !.media = o, !.keys = {key[c] : c \in o}])
          /\ y.pc = "candidates"
    <3>1. PICK o : o = {c \in y.media : key[c] # 0 /\ c \notin candidates \ y.held}
      OBVIOUS
    <3>2. o \in SUBSET Images /\ \A c \in o : key[c] # 0
      BY <3>1 DEF Request
    <3> QED
      BY <1>1, <1>12, <3>1, <3>2 DEF CheckReferences
  <2>1. PICK k : /\ k = {key[c] : c \in o}
                 /\ Become(r, [y EXCEPT !.pc = "media", !.media = o, !.keys = k])
                 /\ y.pc = "candidates"
    BY <2>0
  <2>2. k \in SUBSET Images
    BY <2>0, <2>1, ImagesAreNumbers DEF IInv, TypeOK, Images
  <2>3. PICK x \in Request : x = [y EXCEPT !.pc = "media", !.media = o, !.keys = k]
    BY <2>2 DEF Request, Steps
  <2>4. x.pc = "media" /\ x.attempt = y.attempt
    BY <2>3 DEF Request
  <2>5. Tried(x)
    BY <1>1, <2>1, <2>4 DEF Tried
  <2>6. StepsLeft(x) = CleanUp + 2 /\ StepsLeft(y) = CleanUp + 3 + Cardinality(y.todo)
    BY <2>1, <2>4, LeftByStep
  <2> QED
    BY <1>1, <1>2, <2>1, <2>3, <2>5, <2>6
<1>13. CASE DeleteCup(r) /\ ~Abort(r)
  <2>1. Become(r, [y EXCEPT !.pc = "commit", !.held = candidates]) /\ y.pc = "cup"
    BY <1>1, <1>13 DEF DeleteCup
  <2>2. PICK x \in Request : x = [y EXCEPT !.pc = "commit", !.held = candidates]
    BY DEF Request, Steps, IInv, TypeOK
  <2>3. x.pc = "commit" /\ x.attempt = y.attempt
    BY <2>2 DEF Request
  <2>4. Tried(x)
    BY <1>1, <2>1, <2>3 DEF Tried
  <2>5. StepsLeft(x) = CleanUp /\ StepsLeft(y) = CleanUp + 1
    BY <2>1, <2>3, LeftByStep
  <2> QED
    BY <1>1, <1>2, <2>1, <2>2, <2>4, <2>5
<1>14. ASSUME NEW k \in Images, DeleteObject(r, k) \/ GiveUpObject(r, k) PROVE Goal
  <2>1. Become(r, [y EXCEPT !.keys = @ \ {k}, !.attempt = 0]) /\ y.pc = "objects" /\ k \in y.keys
    BY <1>1, <1>14 DEF DeleteObject, GiveUpObject
  <2>2. PICK x \in Request : x = [y EXCEPT !.keys = @ \ {k}, !.attempt = 0]
    BY ImagesAreNumbers DEF Request
  <2>3. x.pc = "objects" /\ x.keys = y.keys \ {k} /\ x.attempt = 0 /\ y.keys \in SUBSET Images
    BY <2>1, <2>2 DEF Request
  <2>4. Tried(x)
    BY <2>3 DEF Tried
  <2>5. PICK n \in 0..MaxImages, t \in Nat : n = Cardinality(y.keys) /\ t = y.attempt
    BY <1>2
  <2>6. Cardinality(x.keys) = n - 1 /\ n > 0
    BY <2>1, <2>3, <2>5, Counted
  <2>7. StepsLeft(y) = (Attempts * n + 1) - t
    BY <2>1, <2>5, LeftByStep
  <2>8. StepsLeft(x) = (Attempts * (n - 1) + 1) - 0
    BY <2>3, <2>6, LeftByStep
  <2>9. Attempts * (n - 1) = Attempts * n - Attempts /\ Attempts * n \in Nat /\ t < Attempts
    BY <1>2, <2>5, <2>6, Attempted
  <2> QED
    BY <1>1, <1>2, <2>1, <2>2, <2>4, <2>5, <2>7, <2>8, <2>9
<1>15. CASE RetryObject(r)
  <2>1. /\ Become(r, [y EXCEPT !.attempt = @ + 1])
        /\ y.pc = "objects" /\ y.keys # {} /\ y.attempt + 1 < Attempts
    BY <1>1, <1>15 DEF RetryObject
  <2>2. y.attempt + 1 \in 0..(Attempts - 1)
    BY <1>2, <2>1
  <2>3. PICK x \in Request : x = [y EXCEPT !.attempt = @ + 1]
    BY <2>2 DEF Request
  <2>4. x.pc = "objects" /\ x.keys = y.keys /\ x.attempt = y.attempt + 1
    BY <2>1, <2>3 DEF Request
  <2>5. Tried(x)
    BY <2>1, <2>4 DEF Tried
  <2>6. PICK m \in Nat : m = Attempts * Cardinality(y.keys)
    BY <1>2, Attempted
  <2>7. StepsLeft(y) = (m + 1) - y.attempt /\ StepsLeft(x) = (m + 1) - (y.attempt + 1)
    BY <2>1, <2>4, <2>6, LeftByStep
  <2> QED
    BY <1>1, <1>2, <2>1, <2>3, <2>5, <2>6, <2>7
<1> QED
  BY <1>5, <1>6, <1>7, <1>8, <1>9, <1>10, <1>11, <1>12, <1>13, <1>14, <1>15 DEF Step

(* Only a request that is being served has steps to take.                     *)
LEMMA ServedOnly ==
  ASSUME NEW r \in Requests, Step(r) \/ Fail(r) \/ Stop(r)
  PROVE  req[r].pc # "idle"
<1>1. ASSUME BreakCircle(r) PROVE req[r].pc # "idle"
  <2>1. \E q \in Requests : Waits(r, q)
    BY <1>1 DEF BreakCircle, Circle
  <2> QED
    BY <2>1 DEF Waits
<1>2. CASE Fail(r) \/ Stop(r)
  BY <1>2 DEF Fail, Stop
<1>3. ASSUME NEW c, \/ ReferToCandidate(r, c) \/ DeleteCandidate(r, c)
                    \/ DeleteObject(r, c) \/ GiveUpObject(r, c)
      PROVE  req[r].pc # "idle"
  BY <1>3 DEF ReferToCandidate, DeleteCandidate, DeleteObject, GiveUpObject
<1>4. CASE \/ ReferToCup(r) \/ CommitSave(r) \/ CommitCreate(r) \/ UpdateMedia(r)
           \/ UpdateCandidate(r) \/ CommitReplace(r) \/ Clean(r)
  BY <1>4 DEF ReferToCup, CommitSave, CommitCreate, UpdateMedia, UpdateCandidate, CommitReplace, Clean
<1>5. CASE \/ DeleteComments(r) \/ DeletePlays(r) \/ CheckReferences(r) \/ DeleteMedia(r)
           \/ DeleteCup(r) \/ CommitRemove(r) \/ RetryObject(r) \/ Answer(r)
  BY <1>5 DEF DeleteComments, DeletePlays, CheckReferences, DeleteMedia, DeleteCup, CommitRemove,
     RetryObject, Answer
<1> QED
  BY <1>1, <1>2, <1>3, <1>4, <1>5 DEF Step

(* A request that begins has tried nothing.                                   *)
LEMMA Arrivals ==
  ASSUME NEW r \in Requests,
         \/ \E i \in Rows, S \in SUBSET Images : Save(r, i, S)
         \/ Create(r) \/ (\E c \in Images : Replace(r, c)) \/ Remove(r)
  PROVE  req[r].pc = "idle" /\ \E x : Become(r, x) /\ Tried(x)
<1>1. PICK x : /\ \/ \E i, S : x = [Idle EXCEPT !.pc = "refer", !.op = "save", !.row = i, !.todo = S]
                  \/ x = [Idle EXCEPT !.pc = "refer", !.op = "create", !.key = drawn']
                  \/ \E c : x = [Idle EXCEPT !.pc = "media", !.op = "replace", !.key = drawn',
                                             !.old = key[c], !.media = {c}]
                  \/ x = [Idle EXCEPT !.pc = "comments", !.op = "remove", !.media = candidates]
               /\ Become(r, x) /\ req[r].pc = "idle"
  BY DEF Save, Create, Replace, Remove
<1>2. x.attempt = 0
  BY <1>1 DEF Idle
<1> QED
  BY <1>1, <1>2 DEF Tried

AllTried == \A r \in Requests : Tried(req[r])

(* What a step of the program does to a request that is being served.         *)
LEMMA WorkStep ==
  ASSUME IInv, AllTried, [Next]_vars
  PROVE  /\ AllTried'
         /\ \A r \in Requests : req[r].pc # "idle" /\ req'[r] # req[r]
              => StepsLeft(req'[r]) < StepsLeft(req[r])
<1>1. CASE UNCHANGED req
  BY <1>1 DEF AllTried, Tried
<1>2. ASSUME NEW q \in Requests, NEW x, Become(q, x), Tried(x),
             req[q].pc # "idle" => StepsLeft(x) < StepsLeft(req[q])
      PROVE  /\ AllTried'
             /\ \A r \in Requests : req[r].pc # "idle" /\ req'[r] # req[r]
                  => StepsLeft(req'[r]) < StepsLeft(req[r])
  <2>1. req'[q] = x /\ \A r \in Requests \ {q} : req'[r] = req[r]
    BY <1>2 DEF Become, IInv, TypeOK
  <2> QED
    BY <1>2, <2>1 DEF AllTried, Tried
<1>3. ASSUME NEW q \in Requests, Step(q) \/ Fail(q) \/ Stop(q)
      PROVE  \E x : Become(q, x) /\ Tried(x) /\ StepsLeft(x) < StepsLeft(req[q])
  BY <1>3, ServedOnly, WorkOf DEF AllTried
<1>4. ASSUME NEW q \in Requests,
             \/ \E i \in Rows, S \in SUBSET Images : Save(q, i, S)
             \/ Create(q) \/ (\E c \in Images : Replace(q, c)) \/ Remove(q)
      PROVE  req[q].pc = "idle" /\ \E x : Become(q, x) /\ Tried(x)
  BY <1>4, Arrivals
<1> QED
  BY <1>1, <1>2, <1>3, <1>4 DEF Next, Quiet, vars

(* Each step of a request leaves it fewer: what RequestsFinish rests on apart *)
(* from fairness, for any number of requests, candidates and attempts.        *)
THEOREM WorkRunsOut == Spec => WorkEnds
<1>1. Init => AllTried
  <2>1. Idle.attempt = 0
    BY DEF Idle
  <2> QED
    BY <2>1 DEF Init, AllTried, Tried
<1> DEFINE A == \A r \in Requests : req[r].pc # "idle" /\ req'[r] # req[r]
                  => StepsLeft(req'[r]) < StepsLeft(req[r])
<1>2. IInv /\ AllTried /\ [Next]_vars => AllTried' /\ [A]_vars
  BY WorkStep
<1> HIDE DEF A
<1>3. Spec => [][A]_vars
  BY <1>1, <1>2, Invariance, PTL DEF Spec
<1> QED
  BY <1>3 DEF WorkEnds, A
=============================================================================
