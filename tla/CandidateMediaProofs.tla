------------------------ MODULE CandidateMediaProofs ------------------------
(* Theorems about CandidateMedia for every set of candidates, keys and        *)
(* requests, and every choice of operations and faults.                       *)
EXTENDS CandidateMedia, TLAPS

IInv == TypeOK /\ DeletionsAreSafe /\ LiveKeysStored

(* What an assignment to one request's record does to req.                    *)
LEMMA BecomeSetsOne ==
  ASSUME TypeOK, NEW r \in Requests, NEW x \in Request, Become(r, x)
  PROVE  /\ req' \in [Requests -> Request]
         /\ req'[r] = x
         /\ \A q \in Requests : q # r => req'[q] = req[q]
  BY DEF TypeOK, Become

(* The request record without a request.                                      *)
LEMMA IdleIsRequest ==
  /\ Idle \in Request
  /\ Idle.pc = "idle" /\ Idle.op = "none" /\ Idle.key = "none" /\ Idle.old = "none"
  BY DEF Idle, Request, Steps

(* A request goes on with the keys it has, its upload stored when needed.     *)
LEMMA GoingOn ==
  ASSUME IInv, NEW r \in Requests, NEW s \in Steps \ {"idle", "upload", "clean"}, Goto(r, s),
         req[r].pc \notin {"idle", "clean", "discard"}, UNCHANGED <<database, drawn, unclear>>,
         stored \subseteq stored', stored' \subseteq drawn,
         s # "discard" /\ req[r].key # "none" => req[r].key \in stored'
  PROVE  IInv'
<1> DEFINE x == [req[r] EXCEPT !.pc = s]
<1>1. /\ x \in Request /\ x.pc = s /\ x.op = req[r].op /\ x.candidate = req[r].candidate
      /\ x.key = req[r].key /\ x.old = req[r].old
  BY DEF IInv, TypeOK, Request
<1>2. Become(r, x)
  BY DEF Goto
<1> HIDE DEF x
<1>3. /\ req' \in [Requests -> Request]
      /\ req'[r] = x
      /\ \A q \in Requests : q # r => req'[q] = req[q]
  BY <1>1, <1>2, BecomeSetsOne DEF IInv
<1>4. \A q \in Requests : req'[q].key = req[q].key /\ req'[q].old = req[q].old
  BY <1>1, <1>3
<1>5. media' = media
  BY DEF database
<1>6. TypeOK'
  BY <1>3 DEF IInv, TypeOK, database
<1>7. KeysAreKnown' /\ OneRowPerKey'
  BY <1>4, <1>5 DEF IInv, DeletionsAreSafe, KeysAreKnown, OneRowPerKey
<1>8. ASSUME NEW q \in Requests PROVE Shape(q)'
  BY <1>1, <1>3, <1>5 DEF IInv, DeletionsAreSafe, Shape
<1>9. ASSUME NEW q \in Requests PROVE Safe(q)'
  <2>1. Safe(q)
    BY DEF IInv, DeletionsAreSafe
  <2>2. CASE q = r
    BY <1>1, <1>3, <1>4, <1>5, <2>1, <2>2 DEF Safe, Pending
  <2>3. CASE q # r
    BY <1>3, <1>4, <1>5, <2>1, <2>3 DEF Safe, Pending
  <2> QED
    BY <2>2, <2>3
<1>10. LiveKeysStored'
  BY <1>5 DEF IInv, LiveKeysStored
<1> QED
  BY <1>6, <1>7, <1>8, <1>9, <1>10 DEF IInv, DeletionsAreSafe

(* A request ends, and deletes at most a key that nobody needs, or one whose  *)
(* COMMIT was unclear.                                                        *)
LEMMA Ending ==
  ASSUME IInv, NEW r \in Requests, Become(r, Idle), UNCHANGED <<database, drawn, unclear>>,
         stored' \subseteq drawn,
         \A c \in Candidates : media[c] \in stored => media[c] \in stored' \cup unclear,
         \A q \in Requests \ {r} : Pending(q) /\ req[q].key \in stored => req[q].key \in stored'
  PROVE  IInv'
<1>1. /\ req' \in [Requests -> Request]
      /\ req'[r] = Idle
      /\ \A q \in Requests : q # r => req'[q] = req[q]
  BY IdleIsRequest, BecomeSetsOne DEF IInv
<1>2. media' = media
  BY DEF database
<1>3. TypeOK'
  BY <1>1 DEF IInv, TypeOK, database
<1>4. KeysAreKnown' /\ OneRowPerKey'
  BY <1>1, <1>2, IdleIsRequest DEF IInv, DeletionsAreSafe, KeysAreKnown, OneRowPerKey
<1>5. ASSUME NEW q \in Requests PROVE Shape(q)'
  BY <1>1, <1>2, IdleIsRequest DEF IInv, DeletionsAreSafe, Shape
<1>6. ASSUME NEW q \in Requests PROVE Safe(q)'
  <2>1. Safe(q)
    BY DEF IInv, DeletionsAreSafe
  <2>2. CASE q = r
    <3>1. "none" \notin unclear'
      BY KeysAssumption DEF IInv, TypeOK, KeysAssumption
    <3> QED
      BY <1>1, <2>2, <3>1, IdleIsRequest DEF Safe, Pending
  <2>3. CASE q # r
    <3>1. req'[q] = req[q]
      BY <1>1, <2>3
    <3>2. \A p \in Requests \ {q} : Pending(q) => req[q].key \notin {req'[p].key, req'[p].old}
      BY <1>1, <2>1, IdleIsRequest DEF Safe, Pending
    <3> QED
      BY <1>2, <2>1, <2>3, <3>1, <3>2 DEF Safe, Pending
  <2> QED
    BY <2>2, <2>3
<1>7. LiveKeysStored'
  BY <1>2 DEF IInv, LiveKeysStored
<1> QED
  BY <1>3, <1>4, <1>5, <1>6, <1>7 DEF IInv, DeletionsAreSafe

(* The error path before the transaction has committed.                       *)
LEMMA Aborting ==
  ASSUME IInv, NEW r \in Requests, req[r].pc \notin {"idle", "clean", "discard"}, Abort(r),
         UNCHANGED <<database, stored, drawn, unclear>>
  PROVE  IInv'
<1>1. stored \subseteq drawn
  BY DEF IInv, TypeOK
<1>2. CASE req[r].key = "none"
  BY <1>1, <1>2, Ending DEF Abort
<1>3. CASE req[r].key # "none"
  <2>1. Goto(r, "discard")
    BY <1>3 DEF Abort
  <2> QED
    BY <1>1, <2>1, GoingOn DEF Steps
<1> QED
  BY <1>2, <1>3

(* A request arrives, with a key nobody has seen, an image to replace that    *)
(* the candidate's row shows, or neither.                                     *)
LEMMA Beginning ==
  ASSUME IInv, NEW r \in Requests, NEW x \in Request, Become(r, x), req[r].pc = "idle",
         UNCHANGED <<database, stored, unclear>>, drawn \subseteq drawn', drawn' \subseteq Keys,
         x.pc \in {"upload", "find"}, x.op # "none",
         x.key \in (drawn' \ drawn) \cup {"none"}, x.key # "none" <=> x.pc = "upload",
         x.op \in {"create", "replace"} <=> x.key # "none",
         x.op # "create" => x.candidate \in Candidates,
         IF x.op = "replace" THEN x.old = media[x.candidate] /\ x.old \in Keys ELSE x.old = "none"
  PROVE  IInv'
<1>1. /\ req' \in [Requests -> Request]
      /\ req'[r] = x
      /\ \A q \in Requests : q # r => req'[q] = req[q]
  BY BecomeSetsOne DEF IInv
<1>2. media' = media /\ stored' = stored
  BY DEF database
<1>3. TypeOK'
  BY <1>1, <1>2 DEF IInv, TypeOK, database
<1>4. /\ \A c \in Candidates : media[c] \in drawn \cup {"none", "video"}
      /\ \A q \in Requests : {req[q].key, req[q].old} \subseteq drawn \cup {"none"}
      /\ "none" \notin drawn' /\ "video" \notin drawn'
      /\ unclear \subseteq drawn /\ unclear' = unclear
  BY KeysAssumption DEF IInv, TypeOK, DeletionsAreSafe, KeysAreKnown, KeysAssumption
<1>5. x.old \in drawn \cup {"none"}
  BY <1>4, KeysAssumption DEF KeysAssumption
<1>6. KeysAreKnown' /\ OneRowPerKey'
  BY <1>1, <1>2, <1>4, <1>5 DEF IInv, DeletionsAreSafe, KeysAreKnown, OneRowPerKey
<1>7. ASSUME NEW q \in Requests PROVE Shape(q)'
  <2>1. CASE q = r
    <3>1. x.op = "replace" => \A c \in Candidates : media[c] = x.old => c = x.candidate
      BY DEF IInv, DeletionsAreSafe, OneRowPerKey
    <3>2. x.op = "replace" => x.old \notin {"none", x.key}
      BY <1>4, <1>5, KeysAssumption DEF KeysAssumption
    <3>3. x.op \in Operations \cup {"none"}
      BY DEF Request
    <3> QED
      BY <1>1, <1>2, <2>1, <3>1, <3>2, <3>3 DEF Shape
  <2>2. CASE q # r
    BY <1>1, <1>2, <2>2 DEF IInv, DeletionsAreSafe, Shape
  <2> QED
    BY <2>1, <2>2
<1>8. ASSUME NEW q \in Requests PROVE Safe(q)'
  <2>1. CASE q = r
    <3>1. x.key # "none" => /\ \A c \in Candidates : media[c] # x.key
                            /\ \A p \in Requests : x.key \notin {req[p].key, req[p].old}
      BY <1>4
    <3>2. x.key \notin unclear'
      BY <1>4
    <3> QED
      BY <1>1, <1>2, <2>1, <3>1, <3>2 DEF Safe, Pending
  <2>2. CASE q # r
    <3>1. Safe(q) /\ req'[q] = req[q]
      BY <1>1, <2>2 DEF IInv, DeletionsAreSafe
    <3>2. Pending(q) => req[q].key \notin {x.key, x.old}
      <4>1. Pending(q) => req[q].key \in drawn
        BY <1>4 DEF Pending
      <4>2. Pending(q) /\ x.op = "replace" => req[q].key # media[x.candidate]
        BY <3>1 DEF Safe
      <4> QED
        BY <1>4, <4>1, <4>2 DEF Pending
    <3>3. \A p \in Requests \ {q} : Pending(q) => req[q].key \notin {req'[p].key, req'[p].old}
      BY <1>1, <3>1, <3>2 DEF Safe
    <3> QED
      BY <1>2, <3>1, <3>3 DEF Safe, Pending
  <2> QED
    BY <2>1, <2>2
<1>9. LiveKeysStored'
  BY <1>2 DEF IInv, LiveKeysStored
<1> QED
  BY <1>3, <1>6, <1>7, <1>8, <1>9 DEF IInv, DeletionsAreSafe

(* The transaction writes the request's key, or none, into one row.           *)
LEMMA CommitInvariant ==
  ASSUME IInv, NEW r \in Requests, NEW c \in Candidates, Commit(r, c)
  PROVE  IInv'
<1> DEFINE m == CASE req[r].op = "video" -> "video"
                  [] req[r].op = "rename" -> media[c]
                  [] OTHER -> req[r].key
           x == IF req[r].op = "replace" THEN [req[r] EXCEPT !.pc = "clean"] ELSE Idle
<1>1. /\ req[r].pc = "commit"
      /\ IF req[r].op = "create" THEN media[c] = "none" ELSE c = req[r].candidate
      /\ media' = [media EXCEPT ![c] = m]
      /\ name' = [name EXCEPT ![c] = r]
      /\ UNCHANGED <<deleted, drawn, stored, unclear>>
      /\ Become(r, x)
  BY DEF Commit, Write, Goto
<1>2. req[r] \in Request /\ Shape(r) /\ Safe(r)
  BY DEF IInv, TypeOK, DeletionsAreSafe
<1>3. /\ x \in Request
      /\ req[r].op # "replace" => x = Idle
      /\ req[r].op = "replace" =>
            /\ x.pc = "clean" /\ x.op = "replace" /\ x.candidate = req[r].candidate
            /\ x.key = req[r].key /\ x.old = req[r].old
  BY <1>2, IdleIsRequest DEF Request, Steps
<1>4. /\ req' \in [Requests -> Request]
      /\ req'[r] = x
      /\ \A q \in Requests : q # r => req'[q] = req[q]
  BY <1>1, <1>3, BecomeSetsOne DEF IInv
<1>5. /\ media \in [Candidates -> Keys \cup {"none", "video"}]
      /\ \A d \in Candidates : media[d] \in drawn \cup {"none", "video"}
      /\ \A q \in Requests : {req[q].key, req[q].old} \subseteq drawn \cup {"none"}
      /\ "none" \notin Keys /\ "video" \notin Keys /\ drawn \subseteq Keys
      /\ unclear \subseteq drawn
  BY KeysAssumption DEF IInv, TypeOK, DeletionsAreSafe, KeysAreKnown, KeysAssumption
<1>6. /\ req[r].op \in {"create", "replace"} => m = req[r].key /\ m # "none"
      /\ req[r].op = "rename" => m = media[c]
      /\ req[r].op = "video" => m = "video"
      /\ req[r].op \in {"create", "replace", "rename", "video"}
  <2>1. req[r].op \in {"create", "replace", "rename", "video"}
    <3>1. req[r].op # "none"
      BY <1>1, <1>2 DEF Shape
    <3> QED
      BY <1>2, <3>1, OperationsAssumption DEF Request, OperationsAssumption
  <2> QED
    BY <1>2, <2>1 DEF Shape
<1>7. m \in drawn \cup {"none", "video"}
  BY <1>5, <1>6
<1> HIDE DEF m, x
<1>8. /\ media'[c] = m
      /\ \A d \in Candidates : d # c => media'[d] = media[d]
      /\ media' \in [Candidates -> Keys \cup {"none", "video"}]
  BY <1>1, <1>5, <1>7
<1>9. TypeOK'
  <2>1. name' \in [Candidates -> Requests \cup {"none"}]
    BY <1>1 DEF IInv, TypeOK
  <2> QED
    BY <1>1, <1>4, <1>8, <2>1 DEF IInv, TypeOK
<1>10. KeysAreKnown'
  BY <1>1, <1>3, <1>4, <1>5, <1>7, <1>8, IdleIsRequest DEF KeysAreKnown
<1>11. req[r].op \in {"create", "replace"} =>
          /\ m \in stored
          /\ \A d \in Candidates : media[d] # m
          /\ \A q \in Requests \ {r} : m \notin {req[q].key, req[q].old}
  BY <1>1, <1>2, <1>6 DEF Safe, Pending
<1>12. OneRowPerKey'
  <2>1. OneRowPerKey
    BY DEF IInv, DeletionsAreSafe
  <2> QED
    BY <1>5, <1>6, <1>8, <1>11, <2>1 DEF OneRowPerKey
<1>13. LiveKeysStored'
  BY <1>1, <1>5, <1>6, <1>8, <1>11 DEF IInv, LiveKeysStored
<1>14. ASSUME NEW q \in Requests PROVE Shape(q)'
  <2>1. Shape(q)
    BY DEF IInv, DeletionsAreSafe
  <2>2. CASE q = r
    <3>1. CASE req[r].op = "replace"
      BY <1>1, <1>2, <1>3, <1>4, <1>6, <1>8, <2>2, <3>1 DEF Shape
    <3>2. CASE req[r].op # "replace"
      BY <1>3, <1>4, <2>2, <3>2, IdleIsRequest DEF Shape
    <3> QED
      BY <3>1, <3>2
  <2>3. CASE q # r
    <3>1. req'[q] = req[q]
      BY <1>4, <2>3
    <3>2. req[q].op = "replace" =>
            \A d \in Candidates : media'[d] = req[q].old => d = req[q].candidate
      <4> SUFFICES ASSUME req[q].op = "replace", NEW d \in Candidates, media'[d] = req[q].old
                   PROVE  d = req[q].candidate
        OBVIOUS
      <4>1. req[q].old \in Keys
        BY <1>5, <2>1 DEF Shape
      <4>2. media[d] = req[q].old
        BY <1>5, <1>6, <1>8, <1>11, <2>3, <4>1
      <4> QED
        BY <2>1, <4>2 DEF Shape
    <3> QED
      BY <2>1, <3>1, <3>2 DEF Shape
  <2> QED
    BY <2>2, <2>3
<1>15. ASSUME NEW q \in Requests PROVE Safe(q)'
  <2>1. Safe(q) /\ Shape(q)
    BY DEF IInv, DeletionsAreSafe
  <2>2. CASE q = r
    <3>1. req[r].op = "replace" => \A d \in Candidates : media'[d] # req[r].old
      BY <1>1, <1>2, <1>6, <1>8 DEF Shape
    <3>2. ~Pending(r)'
      BY <1>3, <1>4, IdleIsRequest DEF Pending
    <3>3. req'[r].key \notin unclear'
      BY <1>1, <1>2, <1>3, <1>4, <1>5, IdleIsRequest DEF Safe
    <3> QED
      BY <1>3, <1>4, <2>2, <3>1, <3>2, <3>3, IdleIsRequest DEF Safe
  <2>3. CASE q # r
    <3>1. req'[q] = req[q] /\ (Pending(q)' <=> Pending(q))
      BY <1>1, <1>4, <2>3 DEF Pending
    <3>2. Pending(q) => \A d \in Candidates : media'[d] # req[q].key
      <4>1. Pending(q) => req[q].key \in Keys
        BY <1>5 DEF Pending
      <4> QED
        BY <1>5, <1>6, <1>8, <1>11, <2>1, <2>3, <4>1 DEF Safe
    <3>3. req[q].pc = "clean" => \A d \in Candidates : media'[d] # req[q].old
      <4>1. req[q].pc = "clean" => req[q].old \in Keys
        BY <1>5, <2>1 DEF Shape
      <4> QED
        BY <1>5, <1>6, <1>8, <1>11, <2>1, <2>3, <4>1 DEF Safe
    <3>4. Pending(q) => \A p \in Requests \ {q} : req[q].key \notin {req'[p].key, req'[p].old}
      <4> SUFFICES ASSUME Pending(q), NEW p \in Requests \ {q}
                   PROVE  req[q].key \notin {req'[p].key, req'[p].old}
        OBVIOUS
      <4>1. req[q].key \notin {req[p].key, req[p].old} /\ req[q].key # "none"
        BY <2>1 DEF Safe, Pending
      <4>2. CASE p = r
        BY <1>3, <1>4, <4>1, <4>2, IdleIsRequest
      <4>3. CASE p # r
        BY <1>4, <4>1, <4>3
      <4> QED
        BY <4>2, <4>3
    <3> QED
      BY <1>1, <2>1, <3>1, <3>2, <3>3, <3>4 DEF Safe
  <2> QED
    BY <2>2, <2>3
<1> QED
  BY <1>9, <1>10, <1>12, <1>13, <1>14, <1>15 DEF IInv, DeletionsAreSafe

(* The transaction commits, and its request, which takes it for failed, is to *)
(* delete the key that it has saved.                                          *)
LEMMA CommitUnclearInvariant ==
  ASSUME IInv, NEW r \in Requests, NEW c \in Candidates, CommitUnclear(r, c)
  PROVE  IInv'
<1> DEFINE m == CASE req[r].op = "video" -> "video"
                  [] req[r].op = "rename" -> media[c]
                  [] OTHER -> req[r].key
           x == IF req[r].key = "none" THEN Idle ELSE [req[r] EXCEPT !.pc = "discard"]
<1>1. /\ req[r].pc = "commit"
      /\ IF req[r].op = "create" THEN media[c] = "none" ELSE c = req[r].candidate
      /\ media' = [media EXCEPT ![c] = m]
      /\ name' = [name EXCEPT ![c] = r]
      /\ UNCHANGED <<deleted, drawn, stored>>
      /\ unclear' = unclear \cup ({req[r].key} \ {"none"})
      /\ Become(r, x)
  BY DEF CommitUnclear, Write, Abort, Goto
<1>2. req[r] \in Request /\ Shape(r) /\ Safe(r)
  BY DEF IInv, TypeOK, DeletionsAreSafe
<1>3. /\ x \in Request
      /\ req[r].key = "none" => x = Idle
      /\ req[r].key # "none" =>
            /\ x.pc = "discard" /\ x.op = req[r].op /\ x.candidate = req[r].candidate
            /\ x.key = req[r].key /\ x.old = req[r].old
  BY <1>2, IdleIsRequest DEF Request, Steps
<1>4. /\ req' \in [Requests -> Request]
      /\ req'[r] = x
      /\ \A q \in Requests : q # r => req'[q] = req[q]
  BY <1>1, <1>3, BecomeSetsOne DEF IInv
<1>5. /\ media \in [Candidates -> Keys \cup {"none", "video"}]
      /\ \A d \in Candidates : media[d] \in drawn \cup {"none", "video"}
      /\ \A q \in Requests : {req[q].key, req[q].old} \subseteq drawn \cup {"none"}
      /\ "none" \notin Keys /\ "video" \notin Keys /\ drawn \subseteq Keys
      /\ unclear \subseteq drawn
  BY KeysAssumption DEF IInv, TypeOK, DeletionsAreSafe, KeysAreKnown, KeysAssumption
<1>6. /\ req[r].op \in {"create", "replace"} => m = req[r].key /\ m # "none"
      /\ req[r].op = "rename" => m = media[c] /\ req[r].key = "none"
      /\ req[r].op = "video" => m = "video" /\ req[r].key = "none"
      /\ req[r].op \in {"create", "replace", "rename", "video"}
  <2>1. req[r].op \in {"create", "replace", "rename", "video"}
    <3>1. req[r].op # "none"
      BY <1>1, <1>2 DEF Shape
    <3> QED
      BY <1>2, <3>1, OperationsAssumption DEF Request, OperationsAssumption
  <2> QED
    BY <1>2, <2>1 DEF Shape
<1>7. m \in drawn \cup {"none", "video"}
  BY <1>5, <1>6
<1> HIDE DEF m, x
<1>8. /\ media'[c] = m
      /\ \A d \in Candidates : d # c => media'[d] = media[d]
      /\ media' \in [Candidates -> Keys \cup {"none", "video"}]
  BY <1>1, <1>5, <1>7
<1>9. TypeOK'
  <2>1. name' \in [Candidates -> Requests \cup {"none"}]
    BY <1>1 DEF IInv, TypeOK
  <2>2. unclear' \subseteq drawn
    BY <1>1, <1>5
  <2> QED
    BY <1>1, <1>4, <1>8, <2>1, <2>2 DEF IInv, TypeOK
<1>10. KeysAreKnown'
  BY <1>1, <1>3, <1>4, <1>5, <1>7, <1>8, IdleIsRequest DEF KeysAreKnown
<1>11. req[r].key # "none" =>
          /\ req[r].op \in {"create", "replace"} /\ m = req[r].key
          /\ m \in stored
          /\ \A d \in Candidates : media[d] # m
          /\ \A q \in Requests \ {r} : m \notin {req[q].key, req[q].old}
  BY <1>1, <1>2, <1>6 DEF Safe, Pending
<1>12. OneRowPerKey'
  <2>1. OneRowPerKey
    BY DEF IInv, DeletionsAreSafe
  <2> QED
    BY <1>5, <1>6, <1>8, <1>11, <2>1 DEF OneRowPerKey
<1>13. LiveKeysStored'
  BY <1>1, <1>5, <1>6, <1>8, <1>11 DEF IInv, LiveKeysStored
<1>14. ASSUME NEW q \in Requests PROVE Shape(q)'
  <2>1. Shape(q)
    BY DEF IInv, DeletionsAreSafe
  <2>2. CASE q = r
    <3>1. CASE req[r].key # "none"
      BY <1>1, <1>2, <1>3, <1>4, <1>6, <1>8, <2>2, <3>1 DEF Shape
    <3>2. CASE req[r].key = "none"
      BY <1>3, <1>4, <2>2, <3>2, IdleIsRequest DEF Shape
    <3> QED
      BY <3>1, <3>2
  <2>3. CASE q # r
    <3>1. req'[q] = req[q]
      BY <1>4, <2>3
    <3>2. req[q].op = "replace" =>
            \A d \in Candidates : media'[d] = req[q].old => d = req[q].candidate
      <4> SUFFICES ASSUME req[q].op = "replace", NEW d \in Candidates, media'[d] = req[q].old
                   PROVE  d = req[q].candidate
        OBVIOUS
      <4>1. req[q].old \in Keys
        BY <1>5, <2>1 DEF Shape
      <4>2. media[d] = req[q].old
        BY <1>5, <1>6, <1>8, <1>11, <2>3, <4>1
      <4> QED
        BY <2>1, <4>2 DEF Shape
    <3> QED
      BY <2>1, <3>1, <3>2 DEF Shape
  <2> QED
    BY <2>2, <2>3
<1>15. ASSUME NEW q \in Requests PROVE Safe(q)'
  <2>1. Safe(q) /\ Shape(q)
    BY DEF IInv, DeletionsAreSafe
  <2>2. CASE q = r
    <3>1. ~Pending(r)' /\ req'[r].pc # "clean"
      BY <1>1, <1>3, <1>4, IdleIsRequest DEF Pending
    <3>2. req'[r].key \in unclear' => req'[r].pc = "discard"
      BY <1>1, <1>3, <1>4, <1>5, IdleIsRequest
    <3> QED
      BY <2>2, <3>1, <3>2 DEF Safe
  <2>3. CASE q # r
    <3>1. req'[q] = req[q]
      BY <1>4, <2>3
    <3>2. req[q].key \in unclear' <=> req[q].key \in unclear
      BY <1>1, <1>11, <2>3
    <3>3. Pending(q)' <=> Pending(q)
      BY <3>1, <3>2 DEF Pending
    <3>4. Pending(q) => \A d \in Candidates : media'[d] # req[q].key
      <4>1. Pending(q) => req[q].key \in Keys
        BY <1>5 DEF Pending
      <4> QED
        BY <1>5, <1>6, <1>8, <1>11, <2>1, <2>3, <4>1 DEF Safe
    <3>5. req[q].pc = "clean" => \A d \in Candidates : media'[d] # req[q].old
      <4>1. req[q].pc = "clean" => req[q].old \in Keys
        BY <1>5, <2>1 DEF Shape
      <4> QED
        BY <1>5, <1>6, <1>8, <1>11, <2>1, <2>3, <4>1 DEF Safe
    <3>6. Pending(q) => \A p \in Requests \ {q} : req[q].key \notin {req'[p].key, req'[p].old}
      <4> SUFFICES ASSUME Pending(q), NEW p \in Requests \ {q}
                   PROVE  req[q].key \notin {req'[p].key, req'[p].old}
        OBVIOUS
      <4>1. req[q].key \notin {req[p].key, req[p].old} /\ req[q].key # "none"
        BY <2>1 DEF Safe, Pending
      <4>2. CASE p = r
        BY <1>3, <1>4, <4>1, <4>2, IdleIsRequest
      <4>3. CASE p # r
        BY <1>4, <4>1, <4>3
      <4> QED
        BY <4>2, <4>3
    <3> QED
      BY <1>1, <2>1, <3>1, <3>2, <3>3, <3>4, <3>5, <3>6 DEF Safe
  <2> QED
    BY <2>2, <2>3
<1> QED
  BY <1>9, <1>10, <1>12, <1>13, <1>14, <1>15 DEF IInv, DeletionsAreSafe

(* An empty database and an empty bucket satisfy the invariant.               *)
LEMMA InitInvariant == Init => IInv
<1> SUFFICES ASSUME Init PROVE IInv
  OBVIOUS
<1>1. TypeOK
  BY IdleIsRequest DEF Init, TypeOK
<1>2. unclear = {} /\ \A r \in Requests : req[r] = Idle
  BY DEF Init
<1>3. \A c \in Candidates : media[c] = "none"
  BY DEF Init
<1>4. KeysAreKnown /\ OneRowPerKey /\ LiveKeysStored
  BY <1>2, <1>3, IdleIsRequest, KeysAssumption
     DEF KeysAreKnown, OneRowPerKey, LiveKeysStored, KeysAssumption
<1>5. \A r \in Requests : Shape(r) /\ Safe(r)
  BY <1>2, IdleIsRequest DEF Shape, Safe, Pending
<1> QED
  BY <1>1, <1>4, <1>5 DEF IInv, DeletionsAreSafe

(* Every step preserves the invariant.                                        *)
LEMMA NextInvariant ==
  ASSUME IInv, [Next]_vars
  PROVE  IInv'
<1>0. stored \subseteq drawn /\ drawn \subseteq Keys
  BY DEF IInv, TypeOK
<1>1. ASSUME NEW r \in Requests, NEW k \in Keys, Create(r, k)
      PROVE  IInv'
  <2> DEFINE x == [Idle EXCEPT !.pc = "upload", !.op = "create", !.key = k]
  <2>1. /\ Become(r, x) /\ req[r].pc = "idle" /\ k \notin drawn /\ drawn' = drawn \cup {k}
        /\ UNCHANGED <<database, stored, unclear>> /\ "create" \in Operations
    BY <1>1 DEF Create
  <2>2. /\ x \in Request /\ x.pc = "upload" /\ x.op = "create" /\ x.key = k /\ x.old = "none"
    BY <2>1, IdleIsRequest DEF Request, Steps
  <2>3. k # "none" /\ k \in drawn' \ drawn /\ drawn' \subseteq Keys
    BY <1>0, <2>1, KeysAssumption DEF KeysAssumption
  <2> HIDE DEF x
  <2> QED
    BY <2>1, <2>2, <2>3, Beginning
<1>2. ASSUME NEW r \in Requests, NEW c \in Candidates, NEW k \in Keys, Replace(r, c, k)
      PROVE  IInv'
  <2> DEFINE x == [pc |-> "upload", op |-> "replace", candidate |-> c, old |-> media[c], key |-> k]
  <2>1. /\ Become(r, x) /\ req[r].pc = "idle" /\ k \notin drawn /\ drawn' = drawn \cup {k}
        /\ UNCHANGED <<database, stored, unclear>> /\ "replace" \in Operations /\ media[c] \in Keys
    BY <1>2 DEF Replace, Image
  <2>2. /\ x \in Request /\ x.pc = "upload" /\ x.op = "replace" /\ x.key = k
        /\ x.old = media[c] /\ x.candidate = c
    BY <2>1 DEF Request, Steps
  <2>3. k # "none" /\ k \in drawn' \ drawn /\ drawn' \subseteq Keys
    BY <1>0, <2>1, KeysAssumption DEF KeysAssumption
  <2> HIDE DEF x
  <2> QED
    BY <2>1, <2>2, <2>3, Beginning
<1>3. ASSUME NEW r \in Requests, NEW c \in Candidates, NEW op \in Operations, Edit(r, c, op)
      PROVE  IInv'
  <2> DEFINE x == [Idle EXCEPT !.pc = "find", !.op = op, !.candidate = c]
  <2>1. /\ Become(r, x) /\ req[r].pc = "idle" /\ UNCHANGED <<database, stored, drawn, unclear>>
        /\ op \in {"rename", "video"}
    BY <1>3 DEF Edit
  <2>2. /\ x \in Request /\ x.pc = "find" /\ x.op = op /\ x.key = "none"
        /\ x.old = "none" /\ x.candidate = c
    BY <2>1, IdleIsRequest DEF Request, Steps
  <2> HIDE DEF x
  <2> QED
    BY <1>0, <2>1, <2>2, Beginning
<1>4. ASSUME NEW r \in Requests, Upload(r)
      PROVE  IInv'
  <2>1. req[r].pc = "upload" /\ req[r] \in Request /\ req[r].key \in drawn \cup {"none"}
    BY <1>4 DEF Upload, IInv, TypeOK, DeletionsAreSafe, KeysAreKnown
  <2>2. req[r].key # "none"
    BY <2>1 DEF IInv, DeletionsAreSafe, Shape
  <2>3. \E s \in {"commit", "find"} : Goto(r, s)
    BY <1>4 DEF Upload
  <2>4. stored' = stored \cup {req[r].key} /\ UNCHANGED <<database, drawn, unclear>>
    BY <1>4 DEF Upload
  <2> QED
    BY <1>0, <2>1, <2>2, <2>3, <2>4, GoingOn DEF Steps
<1>5. ASSUME NEW r \in Requests, Find(r) \/ SetMedia(r)
      PROVE  IInv'
  <2>1. req[r].pc \in {"find", "media"} /\ UNCHANGED <<database, stored, drawn, unclear>>
    BY <1>5 DEF Find, SetMedia
  <2>2. \E s \in {"media", "name"} : Goto(r, s)
    BY <1>5 DEF Find, SetMedia
  <2>3. req[r].key # "none" => req[r].key \in stored
    BY <2>1 DEF IInv, DeletionsAreSafe, Safe, Pending
  <2> QED
    BY <1>0, <2>1, <2>2, <2>3, GoingOn DEF Steps
<1>6. ASSUME NEW r \in Requests, SetName(r)
      PROVE  IInv'
  <2>1. req[r].pc = "name" /\ UNCHANGED <<database, stored, drawn, unclear>>
    BY <1>6 DEF SetName
  <2>2. req[r].key # "none" => req[r].key \in stored
    BY <2>1 DEF IInv, DeletionsAreSafe, Safe, Pending
  <2>3. CASE Abort(r)
    BY <2>1, <2>3, Aborting
  <2>4. CASE Goto(r, "commit")
    BY <1>0, <2>1, <2>2, <2>4, GoingOn DEF Steps
  <2> QED
    BY <1>6, <2>3, <2>4 DEF SetName
<1>7. ASSUME NEW r \in Requests, FindNothing(r) \/ TransactionFails(r)
      PROVE  IInv'
  BY <1>7, Aborting DEF FindNothing, TransactionFails
<1>8. ASSUME NEW r \in Requests, Delete(r)
      PROVE  IInv'
  <2> DEFINE key == IF req[r].pc = "clean" THEN req[r].old ELSE req[r].key
  <2>1. /\ req[r].pc \in {"clean", "discard"} /\ stored' = stored \ {key}
        /\ Become(r, Idle) /\ UNCHANGED <<database, drawn, unclear>>
    BY <1>8 DEF Delete
  <2>2. \A c \in Candidates : media[c] \in stored => media[c] \in stored' \cup unclear
    <3>1. CASE req[r].pc = "clean"
      BY <2>1, <3>1 DEF IInv, DeletionsAreSafe, Safe
    <3>2. CASE req[r].pc = "discard"
      <4>1. "none" \notin stored
        BY <1>0, KeysAssumption DEF KeysAssumption
      <4>2. Safe(r)
        BY DEF IInv, DeletionsAreSafe
      <4> QED
        BY <2>1, <3>2, <4>1, <4>2 DEF Safe, Pending
    <3> QED
      BY <2>1, <3>1, <3>2
  <2>3. \A q \in Requests \ {r} : Pending(q) => req[q].key # key
    BY DEF IInv, DeletionsAreSafe, Safe
  <2> HIDE DEF key
  <2> QED
    BY <1>0, <2>1, <2>2, <2>3, Ending
<1>9. ASSUME NEW r \in Requests, UploadFails(r)
      PROVE  IInv'
  <2>1. req[r].pc = "upload" /\ req[r].key \in drawn \cup {"none"}
    BY <1>9 DEF UploadFails, IInv, DeletionsAreSafe, KeysAreKnown
  <2>2. req[r].key # "none"
    BY <2>1 DEF IInv, DeletionsAreSafe, Shape
  <2>3. /\ Become(r, Idle) /\ UNCHANGED <<database, drawn, unclear>>
        /\ stored' \in {stored, stored \cup {req[r].key}}
    BY <1>9 DEF UploadFails
  <2> QED
    BY <1>0, <2>1, <2>2, <2>3, Ending
<1>10. ASSUME NEW r \in Requests, DeleteFails(r) \/ Stop(r)
       PROVE  IInv'
  BY <1>0, <1>10, Ending DEF DeleteFails, Stop
<1>11. ASSUME NEW c \in Candidates, Remove(c)
       PROVE  IInv'
  <2>1. deleted' = deleted \cup {c} /\ UNCHANGED <<media, name, stored, drawn, unclear, req>>
    BY <1>11 DEF Remove
  <2> QED
    BY <2>1 DEF IInv, TypeOK, DeletionsAreSafe, KeysAreKnown, OneRowPerKey, Shape, Safe,
                Pending, LiveKeysStored
<1>12. CASE UNCHANGED vars
  BY <1>12 DEF vars, IInv, TypeOK, DeletionsAreSafe, KeysAreKnown, OneRowPerKey, Shape, Safe,
               Pending, LiveKeysStored
<1>13. ASSUME NEW r \in Requests, NEW c \in Candidates, CommitUnclear(r, c)
       PROVE  IInv'
  BY <1>13, CommitUnclearInvariant
<1> QED
  BY <1>1, <1>2, <1>3, <1>4, <1>5, <1>6, <1>7, <1>8, <1>9, <1>10, <1>11, <1>12, <1>13,
     CommitInvariant DEF Next, Step, Fault, Quiet

(* The invariant holds throughout.                                            *)
THEOREM Invariance == Spec => []IInv
<1>1. IInv /\ [Next]_vars => IInv'
  BY NextInvariant
<1> QED
  BY <1>1, InitInvariant, PTL DEF Spec

(* The code never deletes the object of an image that a row shows, and never  *)
(* saves a row before its object: with any number of overlapping, failing and *)
(* stopped requests every image of a candidate is in the bucket, or was saved *)
(* by a COMMIT whose answer was lost.                                         *)
THEOREM NoBrokenImages == Spec => []LiveKeysStored
<1>1. IInv => LiveKeysStored
  BY DEF IInv
<1> QED
  BY <1>1, Invariance, PTL

(* What a request is about to delete from the bucket shows in no row, unless  *)
(* the answer to its COMMIT was lost.                                         *)
THEOREM DeletesOnlyUnused == Spec => []DeletionsAreSafe
<1>1. IInv => DeletionsAreSafe
  BY DEF IInv
<1> QED
  BY <1>1, Invariance, PTL

(* Type correctness.                                                          *)
THEOREM TypeCorrect == Spec => []TypeOK
<1>1. IInv => TypeOK
  BY DEF IInv
<1> QED
  BY <1>1, Invariance, PTL
-----------------------------------------------------------------------------
(* A deleted candidate has a media row, and the row lock of an updateOne that *)
(* has updated an active candidate keeps it from being deleted.               *)
EditInv == /\ \A c \in deleted : media[c] # "none"
           /\ \A r \in Requests : req[r].op = "video" /\ req[r].pc = "commit"
                                  => req[r].candidate \notin deleted

(* Both hold throughout: creations take rows that are not there yet.          *)
LEMMA EditsInvariant == IInv /\ EditInv /\ [Next]_vars => EditInv'
<1> SUFFICES ASSUME IInv, EditInv, [Next]_vars PROVE EditInv'
  OBVIOUS
(* A request's record is assigned, and the rows stay.                         *)
<1>1. ASSUME NEW r \in Requests, NEW x \in Request, Become(r, x), UNCHANGED database,
             x.op = "video" /\ x.pc = "commit" => x.candidate \notin deleted
      PROVE  EditInv'
  <2>1. req'[r] = x /\ \A q \in Requests : q # r => req'[q] = req[q]
    BY <1>1, BecomeSetsOne DEF IInv
  <2> QED
    BY <1>1, <2>1 DEF EditInv, database
<1>2. ASSUME NEW r \in Requests, Become(r, Idle), UNCHANGED database PROVE EditInv'
  BY <1>1, <1>2, IdleIsRequest DEF Idle
<1>3. ASSUME NEW r \in Requests, NEW s \in Steps, Goto(r, s), UNCHANGED database,
             s = "commit" /\ req[r].op = "video" => req[r].candidate \notin deleted
      PROVE  EditInv'
  <2>1. PICK x \in Request : x = [req[r] EXCEPT !.pc = s]
    BY DEF IInv, TypeOK, Request
  <2>2. Become(r, x) /\ x.pc = s /\ x.op = req[r].op /\ x.candidate = req[r].candidate
    BY <1>3, <2>1 DEF Goto, IInv, TypeOK, Request
  <2> QED
    BY <1>1, <1>3, <2>2
<1>4. ASSUME NEW r \in Requests, Abort(r), UNCHANGED database PROVE EditInv'
  BY <1>2, <1>3, <1>4 DEF Abort, Steps
(* The rows of a commit are written and its request moves on.                 *)
<1>5. ASSUME NEW r \in Requests, NEW c \in Candidates, req[r].pc = "commit", Write(r, c),
             Become(r, Idle) \/ Goto(r, "clean") \/ Abort(r)
      PROVE  EditInv'
  <2>1. \A d \in deleted : media'[d] # "none"
    <3>1. /\ media' = [media EXCEPT ![c] = CASE req[r].op = "video" -> "video"
                                             [] req[r].op = "rename" -> @
                                             [] OTHER -> req[r].key]
          /\ req[r].op \notin {"video", "rename"} => req[r].key # "none"
          /\ deleted \subseteq Candidates /\ media \in [Candidates -> Keys \cup {"none", "video"}]
      BY <1>5, OperationsAssumption DEF Write, IInv, TypeOK, DeletionsAreSafe, Shape, Request, OperationsAssumption
    <3> QED
      BY <3>1 DEF EditInv
  <2>2. PICK x \in Request : req' = [req EXCEPT ![r] = x] /\ x.pc # "commit"
    BY <1>5, IdleIsRequest DEF Become, Goto, Abort, IInv, TypeOK, Request, Idle, Steps
  <2>3. req'[r] = x /\ \A q \in Requests : q # r => req'[q] = req[q]
    BY <2>2 DEF IInv, TypeOK
  <2> QED
    BY <1>5, <2>1, <2>2, <2>3 DEF EditInv, Write
<1>6. ASSUME NEW c \in Candidates, Remove(c) PROVE EditInv'
  BY <1>6 DEF Remove, Active, CandidateLocked, EditInv
<1>7. ASSUME NEW r \in Requests, NEW k \in Keys,
             Create(r, k) \/ \E c \in Candidates : Replace(r, c, k)
      PROVE  EditInv'
  <2>1. ASSUME Create(r, k) PROVE \E x \in Request : Become(r, x) /\ x.pc = "upload"
    <3>1. [Idle EXCEPT !.pc = "upload", !.op = "create", !.key = k] \in Request
      BY <2>1, IdleIsRequest DEF Create, Request, Steps
    <3>2. [Idle EXCEPT !.pc = "upload", !.op = "create", !.key = k].pc = "upload"
      BY IdleIsRequest DEF Request
    <3> QED
      BY <2>1, <3>1, <3>2 DEF Create
  <2>2. ASSUME NEW c \in Candidates, Replace(r, c, k)
        PROVE  \E x \in Request : Become(r, x) /\ x.pc = "upload"
    <3>1. [pc |-> "upload", op |-> "replace", candidate |-> c, old |-> media[c], key |-> k] \in Request
      BY <2>2 DEF Replace, Image, Request, Steps
    <3> QED
      BY <2>2, <3>1 DEF Replace
  <2>3. PICK x \in Request : Become(r, x) /\ x.pc = "upload"
    BY <1>7, <2>1, <2>2
  <2> QED
    BY <1>1, <1>7, <2>3 DEF Create, Replace
<1>8. ASSUME NEW r \in Requests, NEW c \in Candidates, NEW op \in Operations, Edit(r, c, op)
      PROVE  EditInv'
  <2>1. [Idle EXCEPT !.pc = "find", !.op = op, !.candidate = c] \in Request
    BY IdleIsRequest DEF Request, Steps
  <2>2. PICK x \in Request : x = [Idle EXCEPT !.pc = "find", !.op = op, !.candidate = c]
    BY <2>1
  <2>3. Become(r, x) /\ x.pc = "find"
    BY <1>8, <2>2, IdleIsRequest DEF Edit, Request
  <2> QED
    BY <1>1, <1>8, <2>3 DEF Edit
<1>9. ASSUME NEW r \in Requests, Upload(r) PROVE EditInv'
  <2>1. req[r].op # "video"
    BY <1>9 DEF Upload, IInv, DeletionsAreSafe, Shape
  <2> QED
    BY <1>3, <1>9, <2>1 DEF Upload, Steps
<1>10. ASSUME NEW r \in Requests, Find(r) \/ SetMedia(r) \/ SetName(r) PROVE EditInv'
  BY <1>3, <1>4, <1>10 DEF Find, SetMedia, SetName, Steps
<1>11. ASSUME NEW r \in Requests, FindNothing(r) \/ TransactionFails(r) PROVE EditInv'
  BY <1>4, <1>11 DEF FindNothing, TransactionFails
<1>12. ASSUME NEW r \in Requests, Delete(r) \/ DeleteFails(r) \/ UploadFails(r) \/ Stop(r)
       PROVE  EditInv'
  BY <1>2, <1>12 DEF Delete, DeleteFails, UploadFails, Stop
<1>13. ASSUME NEW r \in Requests, NEW c \in Candidates, Commit(r, c) \/ CommitUnclear(r, c)
       PROVE  EditInv'
  BY <1>5, <1>13 DEF Commit, CommitUnclear
<1>14. CASE UNCHANGED vars
  BY <1>14 DEF vars, EditInv
<1> QED
  BY <1>6, <1>7, <1>8, <1>9, <1>10, <1>11, <1>12, <1>13, <1>14 DEF Next, Step, Fault, Quiet

(* Only the commits of updateStaticImage change a deleted candidate; those of *)
(* updateOne hold the row of a candidate that was active when they took it.   *)
THEOREM VideosKeepOff == Spec => VideosSpareDeleted
<1> DEFINE Spared == \A c \in deleted : media'[c] # media[c] \/ name'[c] # name[c]
                       => \E r \in Requests : /\ req[r].candidate = c
                                             /\ req[r].pc = "commit"
                                             /\ req[r].op \in {"replace", "rename"}
<1>1. Init => EditInv
  BY IdleIsRequest DEF Init, EditInv, Idle
<1>2. ASSUME IInv, EditInv, Next PROVE Spared
  <2>1. ASSUME NEW r \in Requests, NEW c \in Candidates, req[r].pc = "commit", Write(r, c)
        PROVE  Spared
    <3>1. \A d \in deleted : d # c => media'[d] = media[d] /\ name'[d] = name[d]
      BY <2>1 DEF Write, IInv, TypeOK
    <3>2. c \in deleted => req[r].op \in {"replace", "rename"} /\ req[r].candidate = c
      <4>1. req[r].op \in {"create", "replace", "rename", "video"}
        BY <1>2, <2>1, OperationsAssumption
           DEF IInv, TypeOK, Request, DeletionsAreSafe, Shape, OperationsAssumption
      <4>2. c \in deleted => req[r].op \notin {"create", "video"} /\ c = req[r].candidate
        BY <1>2, <2>1 DEF Write, EditInv
      <4> QED
        BY <4>1, <4>2
    <3> QED
      BY <2>1, <3>1, <3>2
  <2>2. CASE UNCHANGED <<media, name>>
    BY <2>2
  <2> QED
    BY <1>2, <2>1, <2>2 DEF Next, Step, Fault, Quiet, Create, Replace, Edit, Upload, Find, FindNothing,
       SetMedia, SetName, Commit, Delete, UploadFails, TransactionFails, DeleteFails, Stop, CommitUnclear,
       Remove, database, vars
<1>3. IInv /\ EditInv /\ [Next]_vars => [Spared]_vars
  BY <1>2
<1> HIDE DEF Spared
<1>4. Spec => [][Spared]_vars
  BY <1>1, <1>3, EditsInvariant, Invariance, PTL DEF Spec
<1> QED
  BY <1>4 DEF VideosSpareDeleted, Spared
-----------------------------------------------------------------------------
(* The mapping of the refinement: requests that have saved nothing yet are    *)
(* asked, everybody else asks for nothing.                                    *)
InWork == {"upload", "find", "media", "name", "commit"}
LEMMA Demands ==
  ASSUME NEW x \in Request
  PROVE  /\ x.pc \notin InWork => Demand(x) = Gallery!Nothing
         /\ x.pc \in InWork => /\ Demand(x).op = x.op /\ Demand(x).candidate = x.candidate
                               /\ Demand(x).image = x.key
                               /\ Demand(x) = [op |-> x.op, candidate |-> x.candidate, image |-> x.key]
         /\ x.pc \in InWork /\ x.op # "none" => Demand(x) # Gallery!Nothing
         /\ Gallery!Nothing.image = "none"
  BY DEF InWork, Demand, Gallery!Nothing

(* Overlapping, failing and half-done requests implement a store that saves   *)
(* an image and a name at once, once or never, and keeps it.                  *)
THEOREM Refinement == Spec => ImplementsImageStore
<1> DEFINE image == [c \in Candidates |-> Seen(c)]
           asked == [r \in Requests |-> Demand(req[r])]
<1>n. Idle \in Request /\ Demand(Idle) = Gallery!Nothing
  BY IdleIsRequest, Demands DEF InWork
<1>1. ASSUME Init PROVE Gallery!Init
  <2>1. \A c \in Candidates : Seen(c) = "none"
    BY <1>1, KeysAssumption DEF Init, Seen, KeysAssumption
  <2> QED
    BY <1>1, <1>n, <2>1, IdleIsRequest DEF Init, Gallery!Init
<1>2. ASSUME IInv, [Next]_vars PROVE [Gallery!Next]_(Gallery!vars)
  <2>t. /\ media \in [Candidates -> Keys \cup {"none", "video"}]
        /\ name \in [Candidates -> Requests \cup {"none"}]
        /\ stored \subseteq drawn /\ unclear \subseteq drawn /\ drawn \subseteq Keys
        /\ "none" \notin Keys /\ "video" \notin Keys /\ "missing" \notin Keys
        /\ req \in [Requests -> Request]
        /\ \A c \in Candidates : media[c] \in drawn \cup {"none", "video"}
        /\ \A r \in Requests : /\ req[r].key \in drawn \cup {"none"}
                               /\ Shape(r) /\ Safe(r)
    BY <1>2, KeysAssumption DEF IInv, TypeOK, DeletionsAreSafe, KeysAreKnown, KeysAssumption
  <2>a. /\ \A r \in Requests : asked[r] = Demand(req[r]) /\ asked'[r] = Demand(req'[r])
        /\ \A c \in Candidates : image[c] = Seen(c) /\ image'[c] = Seen(c)'
    OBVIOUS
  <2>b. ASSUME NEW r \in Requests
        PROVE  /\ asked[r] # Gallery!Nothing <=> req[r].pc \in InWork
               /\ req[r].pc = "idle" => asked[r] = Gallery!Nothing
               /\ asked[r].image \in drawn \cup {"none"}
    <3>1. req[r].pc \in InWork => req[r].op # "none"
      BY <2>t DEF Shape, InWork
    <3>2. "idle" \notin InWork
      BY DEF InWork
    <3> QED
      BY <2>t, <2>a, <3>1, <3>2, Demands
  <2>c. ASSUME UNCHANGED media, \A c \in Candidates : media[c] \in Keys => (media[c] \in stored' <=> media[c] \in stored)
        PROVE  image' = image
    BY <2>c DEF Seen
  <2>d. ASSUME NEW r \in Requests, NEW x, Become(r, x)
        PROVE  asked' = [asked EXCEPT ![r] = Demand(x)]
    BY <2>t, <2>a, <2>d DEF Become
  <2>e. ASSUME NEW r \in Requests, NEW x, Become(r, x), Demand(x) = Demand(req[r])
        PROVE  asked' = asked
    <3>1. \A q \in Requests : Demand(req'[q]) = Demand(req[q])
      BY <2>t, <2>e DEF Become
    <3> QED
      BY <3>1
  <2> HIDE DEF image, asked
  <2>s. ASSUME NEW r \in Requests, NEW s \in Steps, Goto(r, s)
        PROVE  \E x \in Request : /\ Become(r, x) /\ x.pc = s /\ x.op = req[r].op
                                  /\ x.candidate = req[r].candidate /\ x.key = req[r].key
    <3>1. PICK x : x = [req[r] EXCEPT !.pc = s]
      OBVIOUS
    <3>2. x \in Request /\ x.pc = s /\ x.op = req[r].op
          /\ x.candidate = req[r].candidate /\ x.key = req[r].key
      BY <2>t, <3>1 DEF Request
    <3> QED
      BY <2>s, <3>1, <3>2 DEF Goto
  <2>g. ASSUME NEW r \in Requests, Abort(r)
        PROVE  \E x \in Request : Become(r, x) /\ Demand(x) = Gallery!Nothing
    <3>1. CASE Goto(r, "discard")
      BY <2>s, <3>1, Demands DEF Steps, InWork
    <3> QED
      BY <1>n, <2>g, <3>1 DEF Abort
  (* A request goes on, and nobody sees it.                                   *)
  <2>q. ASSUME NEW r \in Requests, NEW x, Become(r, x), Demand(x) = Demand(req[r]),
               UNCHANGED <<database, unclear>>,
               \A c \in Candidates : media[c] \in Keys => (media[c] \in stored' <=> media[c] \in stored)
        PROVE  UNCHANGED Gallery!vars
    BY <2>c, <2>e, <2>q DEF database, Gallery!vars, image, asked
  (* A request gives up before it has saved anything.                         *)
  <2>f. ASSUME NEW r \in Requests, NEW x, Become(r, x), Demand(x) = Gallery!Nothing,
               req[r].pc \in InWork, UNCHANGED <<database, unclear>>,
               \A c \in Candidates : media[c] \in Keys => (media[c] \in stored' <=> media[c] \in stored)
        PROVE  Gallery!Next
    <3>1. Gallery!Refuse(r)
      BY <2>b, <2>c, <2>d, <2>f DEF database, Gallery!Refuse, image, asked
    <3> QED
      BY <3>1 DEF Gallery!Next
  <2>u. ASSUME NEW k \in Keys, k \notin drawn PROVE Gallery!Unused(k)
    <3>1. \A c \in Candidates : image[c] \in drawn \cup {"none", "video", "missing"}
      BY <2>t, <2>a DEF Seen
    <3>2. k \notin {"none", "video", "missing"}
      BY <2>t
    <3> QED
      BY <2>t, <2>b, <2>u, <3>1, <3>2 DEF Gallery!Unused, image, asked
  <2>1. ASSUME NEW r \in Requests, NEW k \in Keys, Create(r, k) PROVE Gallery!Next
    <3>1. PICK x : /\ x = [Idle EXCEPT !.pc = "upload", !.op = "create", !.key = k]
                   /\ Become(r, x) /\ UNCHANGED <<database, stored, unclear>>
                   /\ req[r].pc = "idle" /\ k \notin drawn
      BY <2>1 DEF Create
    <3>2. Demand(x) = [op |-> "create", candidate |-> "none", image |-> k]
      BY <3>1 DEF Demand, Idle
    <3>3. image' = image
      BY <2>c, <3>1 DEF database
    <3>4. Gallery!AskCreate(r, k)
      BY <2>b, <2>d, <2>u, <3>1, <3>2, <3>3 DEF database, Gallery!AskCreate, image, asked
    <3> QED
      BY <3>4 DEF Gallery!Next
  <2>2. ASSUME NEW r \in Requests, NEW c \in Candidates, NEW k \in Keys, Replace(r, c, k)
        PROVE  Gallery!Next
    <3>1. PICK x : /\ x = [pc |-> "upload", op |-> "replace", candidate |-> c, old |-> media[c], key |-> k]
                   /\ Become(r, x) /\ UNCHANGED <<database, stored, unclear>>
                   /\ req[r].pc = "idle" /\ k \notin drawn /\ media[c] \in Keys
      BY <2>2 DEF Replace, Image, Active
    <3>2. Demand(x) = [op |-> "replace", candidate |-> c, image |-> k]
      BY <3>1 DEF Demand
    <3>3. image' = image /\ image[c] \notin {"none", "video"}
      BY <2>a, <2>c, <2>t, <3>1 DEF database, Seen
    <3>4. Gallery!AskReplace(r, c, k)
      BY <2>b, <2>d, <2>u, <3>1, <3>2, <3>3 DEF database, Gallery!AskReplace, image, asked
    <3> QED
      BY <3>4 DEF Gallery!Next
  <2>3. ASSUME NEW r \in Requests, NEW c \in Candidates, NEW op \in Operations, Edit(r, c, op)
        PROVE  Gallery!Next
    <3>1. PICK x : /\ x = [Idle EXCEPT !.pc = "find", !.op = op, !.candidate = c]
                   /\ Become(r, x) /\ UNCHANGED <<database, stored, unclear>>
                   /\ req[r].pc = "idle" /\ op \in {"rename", "video"}
      BY <2>3 DEF Edit
    <3>2. Demand(x) = [op |-> op, candidate |-> c, image |-> "none"]
      BY <3>1 DEF Demand, Idle
    <3>3. image' = image
      BY <2>c, <3>1 DEF database
    <3>4. Gallery!AskEdit(r, c, op)
      BY <2>b, <2>d, <3>1, <3>2, <3>3 DEF database, Gallery!AskEdit, image, asked
    <3> QED
      BY <3>1, <3>4 DEF Gallery!Next
  <2>4. ASSUME NEW r \in Requests, Upload(r) PROVE UNCHANGED Gallery!vars
    <3>1. /\ req[r].pc = "upload" /\ stored' = stored \cup {req[r].key}
          /\ UNCHANGED <<database, unclear>> /\ \E s \in {"commit", "find"} : Goto(r, s)
      BY <2>4 DEF Upload
    <3>2. PICK x \in Request : /\ Become(r, x) /\ x.pc \in {"commit", "find"} /\ x.op = req[r].op
                               /\ x.candidate = req[r].candidate /\ x.key = req[r].key
      BY <2>s, <3>1 DEF Steps
    <3>3. Demand(x) = Demand(req[r])
      BY <3>1, <3>2 DEF Demand
    <3>4. \A c \in Candidates : media[c] # req[r].key
      BY <2>t, <3>1 DEF Safe, Pending, Shape
    <3> QED
      BY <2>q, <3>1, <3>2, <3>3, <3>4
  <2>5. ASSUME NEW r \in Requests, NEW s \in {"media", "name", "commit"}, Goto(r, s),
               req[r].pc \in {"find", "media", "name"}, UNCHANGED <<database, stored, unclear>>
        PROVE  UNCHANGED Gallery!vars
    <3>1. PICK x \in Request : /\ Become(r, x) /\ x.pc = s /\ x.op = req[r].op
                               /\ x.candidate = req[r].candidate /\ x.key = req[r].key
      BY <2>s, <2>5 DEF Steps
    <3>2. Demand(x) = Demand(req[r])
      BY <2>5, <3>1 DEF Demand
    <3> QED
      BY <2>q, <2>5, <3>1, <3>2
  <2>6. ASSUME NEW r \in Requests, Abort(r), req[r].pc \in InWork, UNCHANGED <<database, stored, unclear>>
        PROVE  Gallery!Next
    BY <2>f, <2>g, <2>6
  <2>7. ASSUME NEW r \in Requests, Find(r) \/ SetMedia(r) \/ SetName(r) \/ FindNothing(r) \/ TransactionFails(r)
        PROVE  Gallery!Next \/ UNCHANGED Gallery!vars
    <3>1. CASE Find(r) \/ SetMedia(r)
      BY <2>5, <3>1 DEF Find, SetMedia
    <3>2. CASE SetName(r)
      BY <2>5, <2>6, <3>2 DEF SetName, InWork
    <3>3. CASE FindNothing(r) \/ TransactionFails(r)
      BY <2>6, <3>3 DEF FindNothing, TransactionFails, InWork
    <3> QED
      BY <2>7, <3>1, <3>2, <3>3
  <2>8. ASSUME NEW r \in Requests, NEW c \in Candidates, Commit(r, c) \/ CommitUnclear(r, c)
        PROVE  Gallery!Save(r, c)
    <3>1. /\ req[r].pc = "commit" /\ Write(r, c)
          /\ unclear' \in {unclear, unclear \cup ({req[r].key} \ {"none"})}
      BY <2>8 DEF Commit, CommitUnclear
    <3>2. asked' = [asked EXCEPT ![r] = Gallery!Nothing]
      <4>1. CASE Become(r, Idle)
        BY <1>n, <2>d, <4>1
      <4>2. CASE Goto(r, "clean")
        BY <2>d, <2>s, <4>2, Demands DEF Steps, InWork
      <4>3. CASE Abort(r)
        BY <2>d, <2>g, <4>3
      <4> QED
        BY <2>8, <4>1, <4>2, <4>3 DEF Commit, CommitUnclear
    <3>3. /\ asked[r] # Gallery!Nothing /\ asked[r].op = req[r].op
          /\ asked[r].candidate = req[r].candidate /\ asked[r].image = req[r].key
      BY <2>a, <2>b, <2>t, <3>1, Demands DEF InWork
    <3>4. req[r].op \in {"create", "replace", "rename", "video"}
      <4>1. req[r].op \in Operations \cup {"none"} /\ req[r].op # "none"
        BY <2>t, <3>1 DEF Request, Shape
      <4> QED
        BY <4>1, OperationsAssumption DEF OperationsAssumption
    <3>5. Gallery!Target(r, c)
      <4>1. CASE req[r].op = "create"
        <5>1. media[c] = "none"
          BY <3>1, <4>1 DEF Write
        <5>2. image[c] = "none"
          BY <2>a, <2>t, <5>1 DEF Seen
        <5> QED
          BY <3>3, <4>1, <5>2 DEF Gallery!Target, image, asked
      <4>2. CASE req[r].op # "create"
        <5>1. c = req[r].candidate
          BY <3>1, <4>2 DEF Write
        <5> QED
          BY <3>3, <4>2, <5>1 DEF Gallery!Target, image, asked
      <4> QED
        BY <4>1, <4>2
    <3>6. image' = [image EXCEPT ![c] = Gallery!Saved(r, c)]
      <4>1. /\ \A d \in Candidates \ {c} : media'[d] = media[d]
            /\ media'[c] = CASE req[r].op = "video" -> "video"
                             [] req[r].op = "rename" -> media[c]
                             [] OTHER -> req[r].key
            /\ stored' = stored
        BY <2>t, <3>1 DEF Write
      <4>2. \A d \in Candidates \ {c} : image'[d] = image[d]
        BY <2>a, <4>1 DEF Seen
      <4>3. image'[c] = Gallery!Saved(r, c)
        <5>1. CASE req[r].op = "video"
          BY <2>a, <2>t, <3>3, <4>1, <5>1 DEF Seen, Gallery!Saved, asked
        <5>2. CASE req[r].op = "rename"
          <6>1. media'[c] = media[c]
            BY <4>1, <5>2
          <6>2. Seen(c)' = Seen(c)
            BY <4>1, <6>1 DEF Seen
          <6>3. Gallery!Saved(r, c) = image[c]
            BY <3>3, <5>2 DEF Gallery!Saved, asked, image
          <6> QED
            BY <2>a, <6>2, <6>3
        <5>3. CASE req[r].op \in {"create", "replace"}
          <6>1. req[r].key \in stored
            BY <2>t, <3>1, <5>3 DEF Shape, Safe, Pending
          <6> QED
            BY <2>a, <3>3, <4>1, <5>3, <6>1 DEF Seen, Gallery!Saved, asked
        <5> QED
          BY <3>4, <5>1, <5>2, <5>3
      <4>4. image' = [d \in Candidates |-> image'[d]] /\ image = [d \in Candidates |-> image[d]]
        BY <2>a DEF image
      <4> QED
        BY <4>2, <4>3, <4>4
    <3>7. name' = [name EXCEPT ![c] = r]
      BY <3>1 DEF Write
    <3> QED
      BY <3>1, <3>2, <3>3, <3>5, <3>6, <3>7 DEF Gallery!Save, image, asked
  <2>9. ASSUME NEW r \in Requests, Delete(r) PROVE Gallery!Next \/ UNCHANGED Gallery!vars
    <3>1. PICK k : /\ k = (IF req[r].pc = "clean" THEN req[r].old ELSE req[r].key)
                   /\ req[r].pc \in {"clean", "discard"} /\ stored' = stored \ {k}
                   /\ Become(r, Idle) /\ UNCHANGED <<database, unclear>>
      BY <2>9 DEF Delete
    <3>2. Demand(Idle) = Demand(req[r])
      BY <1>n, <2>t, <3>1, Demands DEF InWork
    <3>3. CASE \A c \in Candidates : media[c] \in stored => media[c] # k
      BY <2>q, <3>1, <3>2, <3>3
    <3>4. ASSUME NEW c \in Candidates, media[c] \in stored, media[c] = k PROVE Gallery!Lose(c)
      <4>1. /\ k \in unclear /\ k \in Keys
            /\ \A d \in Candidates \ {c} : media[d] # k
        <5>1. req[r].pc = "discard" /\ k = req[r].key
          BY <2>t, <3>1, <3>4 DEF Safe
        <5>2. k \in Keys
          BY <2>t, <3>4
        <5>3. k \in unclear
          BY <2>t, <3>4, <5>1, <5>2 DEF Safe, Pending
        <5>4. \A d \in Candidates \ {c} : media[d] # k
          BY <1>2, <3>4, <5>2 DEF IInv, DeletionsAreSafe, OneRowPerKey
        <5> QED
          BY <5>2, <5>3, <5>4
      <4>2. image[c] \in unclear
        BY <2>a, <3>4, <4>1 DEF Seen
      <4>3. image' = [image EXCEPT ![c] = "missing"]
        <5>1. media' = media
          BY <3>1 DEF database
        <5>2. image'[c] = "missing" /\ \A d \in Candidates \ {c} : image'[d] = image[d]
          BY <2>a, <3>1, <3>4, <4>1, <5>1 DEF Seen
        <5>3. image' = [d \in Candidates |-> image'[d]] /\ image = [d \in Candidates |-> image[d]]
          BY <2>a DEF image
        <5> QED
          BY <5>2, <5>3
      <4>4. asked' = asked
        BY <2>e, <3>1, <3>2
      <4> QED
        BY <3>1, <4>2, <4>3, <4>4 DEF database, Gallery!Lose, image, asked
    <3> QED
      BY <3>3, <3>4 DEF Gallery!Next
  <2>10. ASSUME NEW r \in Requests, UploadFails(r) PROVE Gallery!Next
    <3>1. /\ req[r].pc = "upload" /\ stored' \in {stored, stored \cup {req[r].key}}
          /\ UNCHANGED <<database, unclear>> /\ Become(r, Idle)
      BY <2>10 DEF UploadFails
    <3>2. \A c \in Candidates : media[c] # req[r].key
      BY <2>t, <3>1 DEF Safe, Pending, Shape
    <3>3. req[r].pc \in InWork
      BY <3>1 DEF InWork
    <3> QED
      BY <1>n, <2>f, <3>1, <3>2, <3>3
  <2>11. ASSUME NEW r \in Requests, DeleteFails(r) \/ Stop(r)
         PROVE  Gallery!Next \/ UNCHANGED Gallery!vars
    <3>1. Become(r, Idle) /\ UNCHANGED <<database, stored, unclear>>
      BY <2>11 DEF DeleteFails, Stop
    <3>2. CASE req[r].pc \in InWork
      BY <1>n, <2>f, <3>1, <3>2
    <3>3. CASE req[r].pc \notin InWork
      <4>1. Demand(Idle) = Demand(req[r])
        BY <1>n, <2>t, <3>3, Demands
      <4> QED
        BY <2>q, <3>1, <4>1
    <3> QED
      BY <3>2, <3>3
  <2>12. ASSUME NEW c \in Candidates, Remove(c) PROVE UNCHANGED Gallery!vars
    <3>1. UNCHANGED <<media, name, stored, unclear, req>>
      BY <2>12 DEF Remove
    <3>2. image' = image /\ asked' = asked
      BY <2>c, <3>1 DEF asked
    <3> QED
      BY <3>1, <3>2 DEF Gallery!vars, image, asked
  <2>13. ASSUME UNCHANGED vars PROVE UNCHANGED Gallery!vars
    <3>1. image' = image /\ asked' = asked
      BY <2>c, <2>13 DEF vars, asked
    <3> QED
      BY <2>13, <3>1 DEF vars, Gallery!vars, image, asked
  <2>14. (\E r \in Requests, c \in Candidates : Gallery!Save(r, c)) => Gallery!Next
    BY DEF Gallery!Next
  <2> QED
    BY <1>2, <2>1, <2>2, <2>3, <2>4, <2>7, <2>8, <2>9, <2>10, <2>11, <2>12, <2>13, <2>14
       DEF Next, Step, Fault, Quiet
<1> QED
  BY <1>1, <1>2, Invariance, PTL DEF Spec, ImplementsImageStore, Gallery!Spec
=============================================================================
