------------------------- MODULE AuthSessionsProofs -------------------------
(* Theorems about AuthSessions for every set of sessions, families and       *)
(* requests.                                                                 *)
EXTENDS AuthSessions, TLAPS

(* The inductive invariant: types alone are not inductive, the type of a     *)
(* committed row's family needs the presented token to be a stored one.      *)
IInv == TypeOK /\ RequestsAndRowsAgree

(* The state of request r may become x while the rows stay as they are.      *)
Drawing == {"create", "rotate", "rotated"}
Presenting == {"read", "rotate", "rotated", "revoke", "revoking", "answer"}
Fits(r, x) ==
  /\ x \in Request
  /\ x.pc \in Drawing => /\ x.next \in Sessions
                         /\ row[x.next] = "absent"
  /\ \A q \in Requests \ {r} :
        x.pc \in Drawing \/ req[q].pc \in Drawing => req[q].next # x.next
  /\ x.pc \in Presenting => x.token \in Sessions /\ row[x.token] # "absent"
  /\ x.pc = "respond" => x.next \in Sessions /\ row[x.next] # "absent"
  /\ x.pc = "rotated" => /\ row[x.token] = "live"
                         /\ \A q \in Requests \ {r} :
                              ~(req[q].pc = "rotated" /\ req[q].token = x.token)
  /\ x.pc = "revoking" => \A s \in x.targets : /\ row[s] # "absent"
                                               /\ family[s] = family[x.token]

(* What an assignment to one request's record does to req.                   *)
LEMMA BecomeSetsOne ==
  ASSUME TypeOK, NEW r \in Requests, NEW x \in Request, Become(r, x)
  PROVE  /\ req' \in [Requests -> Request]
         /\ req'[r] = x
         /\ \A q \in Requests : q # r => req'[q] = req[q]
  BY DEF TypeOK, Become

(* A request that is answered or fails fits whatever the rows are.           *)
LEMMA IdleFits == ASSUME IInv, NEW r \in Requests PROVE Fits(r, Idle)
<1>1. Idle \in Request
  BY DEF Idle, Request, Steps, Operations
<1>2. \A q \in Requests : req[q].pc \in Drawing => req[q].next # NoSession
  BY SentinelAssumption DEF IInv, RequestsAndRowsAgree, DrawnIds, Drawing
<1> QED
  BY <1>1, <1>2 DEF Fits, Idle, Drawing, Presenting

(* A step that only moves one request preserves the invariant if the new     *)
(* state of the request fits the rows and the other requests.                *)
LEMMA MoveKeepsInvariant ==
  ASSUME IInv, NEW r \in Requests, NEW x, Fits(r, x), Become(r, x), UNCHANGED db
  PROVE  /\ req' \in [Requests -> Request]
         /\ RowsAndFamilies' /\ DrawnIds' /\ StoredTokens' /\ RowLocks' /\ Snapshots'
         /\ OneLiveSessionPerFamily' /\ RotationsFormAChain'
<1> USE DEF IInv, RequestsAndRowsAgree
<1>1. /\ req' \in [Requests -> Request]
      /\ req'[r] = x
      /\ \A q \in Requests : q # r => req'[q] = req[q]
  BY BecomeSetsOne DEF Fits
<1>2. row' = row /\ family' = family /\ replacedBy' = replacedBy
  BY DEF db
<1>3. RowsAndFamilies' /\ OneLiveSessionPerFamily' /\ RotationsFormAChain'
  BY <1>2 DEF RowsAndFamilies, OneLiveSessionPerFamily, RotationsFormAChain
<1>4. DrawnIds'
  BY <1>1, <1>2 DEF DrawnIds, Fits, Drawing
<1>5. StoredTokens'
  BY <1>1, <1>2 DEF StoredTokens, Fits, Presenting
<1>6. RowLocks'
  BY <1>1, <1>2 DEF RowLocks, Fits
<1>7. Snapshots'
  BY <1>1, <1>2 DEF Snapshots, Fits
<1> QED
  BY <1>1, <1>3, <1>4, <1>5, <1>6, <1>7
-----------------------------------------------------------------------------
(* The table and the requests are empty at the start.                        *)
LEMMA InitInvariant == Init => IInv
<1> SUFFICES ASSUME Init PROVE IInv
  OBVIOUS
<1>1. Idle \in Request
  BY DEF Idle, Request, Steps, Operations
<1>2. TypeOK
  BY <1>1 DEF Init, TypeOK, RowStates
<1>3. RequestsAndRowsAgree
  BY SentinelAssumption DEF Init, Idle, RequestsAndRowsAgree, RowsAndFamilies, DrawnIds,
     StoredTokens, RowLocks, Snapshots, OneLiveSessionPerFamily, RotationsFormAChain,
     IssuedTokensAreStored
<1> QED
  BY <1>2, <1>3 DEF IInv

(* Steps of a request that write no row. *)
LEMMA MovesKeepInvariant ==
  ASSUME IInv, NEW r \in Requests,
         \/ \E s \in Sessions : SignIn(r, s) \/ Refresh(r, s) \/ SignOut(r, s) \/ ReadValid(r, s)
         \/ ReadInvalid(r) \/ Rotate(r) \/ RotateNothing(r) \/ ReturnTokens(r)
         \/ SnapshotFamily(r) \/ RevokeFails(r) \/ Answer(r) \/ Fail(r)
  PROVE  IInv'
<1> USE DEF IInv, RequestsAndRowsAgree
<1> DEFINE Rest == /\ expired' \subseteq Sessions
                   /\ issued' \subseteq Sessions
                   /\ signedOut' \subseteq Families
                   /\ \A s \in issued' : row[s] # "absent"
<1>1. SUFFICES ASSUME NEW x, Fits(r, x), Become(r, x), UNCHANGED db, Rest
               PROVE  IInv'
  <2> SUFFICES \E x : Fits(r, x) /\ Become(r, x) /\ UNCHANGED db /\ Rest
    OBVIOUS
  <2>r. req[r] \in Request
    BY DEF TypeOK
  <2>t. req[r].pc \in Presenting => req[r].token \in Sessions /\ row[req[r].token] # "absent"
    BY DEF StoredTokens, Presenting
  <2>d. \A q \in Requests : req[q].pc \in Drawing =>
           /\ req[q].next \in Sessions
           /\ row[req[q].next] = "absent"
           /\ \A p \in Requests : p # q => req[p].next # req[q].next
    BY DEF DrawnIds, Drawing
  <2>u. UNCHANGED <<expired, issued, signedOut>> => Rest
    BY DEF TypeOK, IssuedTokensAreStored
  <2>1. ASSUME NEW s \in Sessions, SignIn(r, s)
        PROVE  \E x : Fits(r, x) /\ Become(r, x) /\ UNCHANGED db /\ Rest
    <3> DEFINE x == [Idle EXCEPT !.pc = "create", !.op = "signIn", !.next = s]
    <3>1. x \in Request /\ x.pc = "create" /\ x.next = s
      BY DEF Idle, Request, Steps, Operations
    <3>2. FreshSession(s) /\ Become(r, x) /\ UNCHANGED <<db, expired, issued, signedOut>>
      BY <2>1 DEF SignIn
    <3> HIDE DEF x
    <3>3. Fits(r, x)
      BY <3>1, <3>2, <2>d DEF Fits, FreshSession, Drawing, Presenting
    <3> QED
      BY <3>2, <3>3, <2>u
  <2>2. ASSUME NEW s \in Sessions, Refresh(r, s)
        PROVE  \E x : Fits(r, x) /\ Become(r, x) /\ UNCHANGED db /\ Rest
    <3> DEFINE x == [Idle EXCEPT !.pc = "read", !.op = "refresh", !.token = s]
    <3>1. x \in Request /\ x.pc = "read" /\ x.token = s /\ x.next = NoSession
      BY DEF Idle, Request, Steps, Operations
    <3>2. s \in issued /\ Become(r, x) /\ UNCHANGED <<db, expired, issued, signedOut>>
      BY <2>2 DEF Refresh
    <3> HIDE DEF x
    <3>3. Fits(r, x)
      BY <3>1, <3>2, <2>d, SentinelAssumption DEF Fits, Drawing, Presenting, IssuedTokensAreStored
    <3> QED
      BY <3>2, <3>3, <2>u
  <2>3. ASSUME NEW s \in Sessions, SignOut(r, s)
        PROVE  \E x : Fits(r, x) /\ Become(r, x) /\ UNCHANGED db /\ Rest
    <3> DEFINE x == [Idle EXCEPT !.pc = "revoke", !.op = "signOut", !.token = s]
    <3>1. x \in Request /\ x.pc = "revoke" /\ x.token = s /\ x.next = NoSession
      BY DEF Idle, Request, Steps, Operations
    <3>2. s \in issued /\ Become(r, x) /\ UNCHANGED <<db, expired, issued, signedOut>>
      BY <2>3 DEF SignOut
    <3> HIDE DEF x
    <3>3. Fits(r, x)
      BY <3>1, <3>2, <2>d, SentinelAssumption DEF Fits, Drawing, Presenting, IssuedTokensAreStored
    <3> QED
      BY <3>2, <3>3, <2>u
  <2>4. ASSUME NEW s \in Sessions, ReadValid(r, s)
        PROVE  \E x : Fits(r, x) /\ Become(r, x) /\ UNCHANGED db /\ Rest
    <3> DEFINE x == [req[r] EXCEPT !.pc = "rotate", !.next = s]
    <3>1. x \in Request /\ x.pc = "rotate" /\ x.next = s /\ x.token = req[r].token
      BY <2>r DEF Request, Steps, Operations
    <3>2. /\ req[r].pc = "read" /\ FreshSession(s)
          /\ Become(r, x) /\ UNCHANGED <<db, expired, issued, signedOut>>
      BY <2>4 DEF ReadValid
    <3> HIDE DEF x
    <3>3. Fits(r, x)
      BY <3>1, <3>2, <2>t, <2>d DEF Fits, FreshSession, Drawing, Presenting
    <3> QED
      BY <3>2, <3>3, <2>u
  <2>5. ASSUME ReadInvalid(r) \/ RotateNothing(r)
        PROVE  \E x : Fits(r, x) /\ Become(r, x) /\ UNCHANGED db /\ Rest
    <3> PICK n \in {NoSession, req[r].next} :
          /\ req[r].pc \in {"read", "rotate"}
          /\ req[r].pc = "rotate" => n = NoSession
          /\ Become(r, [req[r] EXCEPT !.pc = "revoke", !.next = n])
          /\ UNCHANGED <<db, expired, issued, signedOut>>
      BY <2>5, <2>r DEF ReadInvalid, RotateNothing, Goto, Request
    <3> DEFINE x == [req[r] EXCEPT !.pc = "revoke", !.next = n]
    <3>1. x \in Request /\ x.pc = "revoke" /\ x.next = n /\ x.token = req[r].token
      BY <2>r DEF Request, Steps, Operations
    <3> HIDE DEF x
    <3>2. \A q \in Requests \ {r} : req[q].pc \in Drawing => req[q].next # n
      BY <2>d, SentinelAssumption
    <3>3. Fits(r, x)
      BY <3>1, <3>2, <2>t DEF Fits, Drawing, Presenting
    <3> QED
      BY <3>3, <2>u DEF x
  <2>6. ASSUME Rotate(r)
        PROVE  \E x : Fits(r, x) /\ Become(r, x) /\ UNCHANGED db /\ Rest
    <3> DEFINE x == [req[r] EXCEPT !.pc = "rotated"]
    <3>1. x \in Request /\ x.pc = "rotated" /\ x.next = req[r].next /\ x.token = req[r].token
      BY <2>r DEF Request, Steps, Operations
    <3>2. /\ req[r].pc = "rotate" /\ row[req[r].token] = "live" /\ ~Locked(req[r].token)
          /\ Become(r, x) /\ UNCHANGED <<db, expired, issued, signedOut>>
      BY <2>6 DEF Rotate, Goto
    <3> HIDE DEF x
    <3>3. Fits(r, x)
      BY <3>1, <3>2, <2>t, <2>d DEF Fits, Locked, Drawing, Presenting
    <3> QED
      BY <3>2, <3>3, <2>u
  <2>7. ASSUME SnapshotFamily(r)
        PROVE  \E x : Fits(r, x) /\ Become(r, x) /\ UNCHANGED db /\ Rest
    <3> DEFINE L == LiveRows(family[req[r].token])
               x == [req[r] EXCEPT !.pc = "revoking", !.targets = L]
    <3>1. /\ L \in SUBSET Sessions
          /\ \A s \in L : row[s] # "absent" /\ family[s] = family[req[r].token]
      BY DEF LiveRows
    <3>2. /\ req[r].pc = "revoke"
          /\ Become(r, x) /\ UNCHANGED <<db, expired, issued, signedOut>>
      BY <2>7 DEF SnapshotFamily
    <3> HIDE DEF L
    <3>3. /\ x \in Request /\ x.pc = "revoking" /\ x.next = req[r].next
          /\ x.token = req[r].token /\ x.targets = L
      BY <2>r, <3>1 DEF Request, Steps, Operations
    <3> HIDE DEF x
    <3>4. Fits(r, x)
      BY <3>1, <3>2, <3>3, <2>t, <2>d DEF Fits, Drawing, Presenting
    <3> QED
      BY <3>2, <3>4, <2>u
  <2>8. ASSUME ReturnTokens(r) \/ Answer(r) \/ Fail(r)
        PROVE  \E x : Fits(r, x) /\ Become(r, x) /\ UNCHANGED db /\ Rest
    <3>1. Fits(r, Idle) /\ Become(r, Idle) /\ UNCHANGED db
      BY <2>8, IdleFits DEF ReturnTokens, Answer, Fail, Finish
    <3>2. CASE ReturnTokens(r)
      BY <3>1, <3>2 DEF ReturnTokens, TypeOK, StoredTokens, IssuedTokensAreStored
    <3>3. CASE Answer(r)
      <4>1. family[req[r].token] \in Families
        BY <3>3, <2>t DEF Answer, Presenting, TypeOK, RowsAndFamilies
      <4>2. signedOut' \subseteq Families
        BY <3>3, <4>1 DEF Answer, TypeOK
      <4> QED
        BY <3>1, <3>3, <4>2 DEF Answer, TypeOK, IssuedTokensAreStored
    <3>4. CASE Fail(r)
      BY <3>1, <3>4, <2>u DEF Fail
    <3> QED
      BY <2>8, <3>2, <3>3, <3>4
  <2>9. ASSUME RevokeFails(r)
        PROVE  \E x : Fits(r, x) /\ Become(r, x) /\ UNCHANGED db /\ Rest
    <3> DEFINE x == [req[r] EXCEPT !.pc = "answer", !.op = "signOutFailed", !.targets = {}]
    <3>1. x \in Request /\ x.pc = "answer" /\ x.next = req[r].next /\ x.token = req[r].token
      BY <2>r DEF Request, Steps, Operations
    <3>2. /\ req[r].pc \in {"revoke", "revoking"}
          /\ Become(r, x) /\ UNCHANGED <<db, expired, issued, signedOut>>
      BY <2>9 DEF RevokeFails
    <3> HIDE DEF x
    <3>3. Fits(r, x)
      BY <3>1, <3>2, <2>t, <2>d DEF Fits, Drawing, Presenting
    <3> QED
      BY <3>2, <3>3, <2>u
  <2> QED
    BY <2>1, <2>2, <2>3, <2>4, <2>5, <2>6, <2>7, <2>8, <2>9
<1>2. TypeOK'
  BY <1>1, MoveKeepsInvariant DEF TypeOK, db
<1>3. IssuedTokensAreStored'
  BY <1>1 DEF IssuedTokensAreStored, db
<1> QED
  BY <1>1, <1>2, <1>3, MoveKeepsInvariant

(* createSession inserts a live row of a family nobody used. *)
LEMMA CreateSessionKeepsInvariant ==
  ASSUME IInv, NEW r \in Requests, NEW f \in Families, CreateSession(r, f)
  PROVE  IInv'
<1> USE DEF IInv, RequestsAndRowsAgree
<1> DEFINE new == req[r].next
           x == [req[r] EXCEPT !.pc = "respond"]
<1>1. new \in Sessions /\ row[new] = "absent"
  BY DEF CreateSession, DrawnIds
<1>2. /\ x \in Request /\ x.pc = "respond" /\ x.next = new /\ x.token = req[r].token
      /\ Become(r, x)
  BY DEF TypeOK, Request, Steps, Operations, CreateSession, Goto
<1>3. /\ req' \in [Requests -> Request]
      /\ req'[r] = x
      /\ \A q \in Requests : q # r => req'[q] = req[q]
  <2> HIDE DEF x
  <2> QED BY <1>2, BecomeSetsOne
<1>4. /\ row' = [row EXCEPT ![new] = "live"]
      /\ family' = [family EXCEPT ![new] = f]
      /\ UNCHANGED <<replacedBy, expired, issued, signedOut>>
      /\ \A s \in Sessions : family[s] # f
      /\ req[r].pc = "create"
  BY DEF CreateSession, FreshFamily
<1> HIDE DEF x
<1>5. TypeOK'
  BY <1>1, <1>3, <1>4 DEF TypeOK, RowStates
<1>6. RowsAndFamilies'
  BY <1>1, <1>4, SentinelAssumption DEF TypeOK, RowsAndFamilies
<1>7. DrawnIds'
  BY <1>1, <1>2, <1>3, <1>4 DEF TypeOK, DrawnIds
<1>8. StoredTokens'
  BY <1>1, <1>2, <1>3, <1>4 DEF TypeOK, StoredTokens
<1>9. RowLocks'
  BY <1>1, <1>2, <1>3, <1>4 DEF TypeOK, RowLocks, StoredTokens
<1>10. Snapshots'
  BY <1>1, <1>2, <1>3, <1>4 DEF TypeOK, Snapshots, StoredTokens, Request
<1>11. OneLiveSessionPerFamily'
  BY <1>1, <1>4 DEF TypeOK, OneLiveSessionPerFamily
<1>12. RotationsFormAChain'
  BY <1>1, <1>4 DEF TypeOK, RotationsFormAChain
<1>13. IssuedTokensAreStored'
  BY <1>1, <1>4 DEF TypeOK, IssuedTokensAreStored
<1> QED
  BY <1>5, <1>6, <1>7, <1>8, <1>9, <1>10, <1>11, <1>12, <1>13

(* The commit of a refresh revokes the presented session and makes its       *)
(* successor live in one step.                                               *)
LEMMA CommitRotationKeepsInvariant ==
  ASSUME IInv, NEW r \in Requests, CommitRotation(r)
  PROVE  IInv'
<1> USE DEF IInv, RequestsAndRowsAgree
<1> DEFINE old == req[r].token
           new == req[r].next
           x == [req[r] EXCEPT !.pc = "respond"]
<1>1. /\ new \in Sessions /\ row[new] = "absent"
      /\ old \in Sessions /\ row[old] = "live"
      /\ req[r].pc = "rotated"
  BY DEF CommitRotation, DrawnIds, StoredTokens, RowLocks
<1>2. /\ x \in Request /\ x.pc = "respond" /\ x.next = new /\ x.token = old
      /\ Become(r, x)
  BY DEF TypeOK, Request, Steps, Operations, CommitRotation, Goto
<1>3. /\ req' \in [Requests -> Request]
      /\ req'[r] = x
      /\ \A q \in Requests : q # r => req'[q] = req[q]
  <2> HIDE DEF x
  <2> QED BY <1>2, BecomeSetsOne
<1>4. /\ row' = [row EXCEPT ![old] = "revoked", ![new] = "live"]
      /\ family' = [family EXCEPT ![new] = family[old]]
      /\ replacedBy' = [replacedBy EXCEPT ![old] = new]
      /\ UNCHANGED <<expired, issued, signedOut>>
  BY DEF CommitRotation
<1>5. /\ row' \in [Sessions -> RowStates]
      /\ row'[old] = "revoked" /\ row'[new] = "live" /\ old # new
      /\ family'[new] = family[old] /\ family'[old] = family[old]
      /\ \A s \in Sessions \ {old, new} : row'[s] = row[s] /\ family'[s] = family[s]
  BY <1>1, <1>4 DEF TypeOK, RowStates
<1> HIDE DEF x
<1>6. TypeOK'
  BY <1>1, <1>3, <1>4, <1>5 DEF TypeOK
<1>7. RowsAndFamilies'
  BY <1>1, <1>5, SentinelAssumption DEF RowsAndFamilies
<1>8. DrawnIds'
  BY <1>1, <1>2, <1>3, <1>5 DEF DrawnIds
<1>9. StoredTokens'
  BY <1>1, <1>2, <1>3, <1>5 DEF TypeOK, StoredTokens
<1>10. RowLocks'
  BY <1>1, <1>2, <1>3, <1>5 DEF RowLocks, StoredTokens
<1>11. Snapshots'
  <2> SUFFICES ASSUME NEW q \in Requests, req'[q].pc = "revoking", NEW s \in req'[q].targets
               PROVE  row'[s] # "absent" /\ family'[s] = family'[req'[q].token]
    BY DEF Snapshots
  <2>1. q # r /\ req'[q] = req[q]
    BY <1>2, <1>3
  <2>2. s \in Sessions /\ row[s] # "absent" /\ family[s] = family[req[q].token]
    BY <2>1 DEF Snapshots, TypeOK, Request
  <2>3. req[q].token \in Sessions /\ row[req[q].token] # "absent"
    BY <2>1 DEF StoredTokens
  <2> QED
    BY <2>1, <2>2, <2>3, <1>1, <1>5
<1>12. OneLiveSessionPerFamily'
  BY <1>1, <1>5 DEF OneLiveSessionPerFamily
<1>13. RotationsFormAChain'
  <2> SUFFICES ASSUME NEW s \in Sessions, replacedBy'[s] # NoSession
               PROVE  /\ row'[s] = "revoked"
                      /\ row'[replacedBy'[s]] # "absent"
                      /\ family'[replacedBy'[s]] = family'[s]
                      /\ \A t \in Sessions : replacedBy'[t] = replacedBy'[s] => s = t
    BY DEF RotationsFormAChain
  <2>1. \A t \in Sessions : replacedBy'[t] = IF t = old THEN new ELSE replacedBy[t]
    BY <1>1, <1>4 DEF TypeOK
  <2>2. \A t \in Sessions : replacedBy[t] # NoSession =>
           replacedBy[t] \in Sessions /\ replacedBy[t] # new /\ t # new
    BY <1>1 DEF RotationsFormAChain, TypeOK
  <2>3. CASE s = old
    BY <2>1, <2>2, <2>3, <1>1, <1>5, SentinelAssumption
  <2>4. CASE s # old
    <3>1. replacedBy'[s] = replacedBy[s] /\ replacedBy[s] \in Sessions \ {new} /\ s # new
      BY <2>1, <2>2, <2>4
    <3>2. row[s] = "revoked" /\ row[replacedBy[s]] # "absent" /\ family[replacedBy[s]] = family[s]
      BY <3>1 DEF RotationsFormAChain
    <3>3. row'[s] = "revoked" /\ family'[s] = family[s]
      BY <3>1, <3>2, <2>4, <1>5
    <3>4. row'[replacedBy[s]] # "absent" /\ family'[replacedBy[s]] = family[s]
      BY <3>1, <3>2, <1>5
    <3>5. \A t \in Sessions : replacedBy'[t] = replacedBy[s] => s = t
      BY <3>1, <2>1 DEF RotationsFormAChain
    <3> QED
      BY <3>1, <3>3, <3>4, <3>5
  <2> QED
    BY <2>3, <2>4
<1>14. IssuedTokensAreStored'
  BY <1>1, <1>4, <1>5 DEF IssuedTokensAreStored, TypeOK
<1> QED
  BY <1>6, <1>7, <1>8, <1>9, <1>10, <1>11, <1>12, <1>13, <1>14

(* revokeFamily revokes the rows of its snapshot, none of them locked.       *)
LEMMA RevokeFamilyKeepsInvariant ==
  ASSUME IInv, NEW r \in Requests, RevokeFamily(r)
  PROVE  IInv'
<1> USE DEF IInv, RequestsAndRowsAgree
<1> DEFINE T == req[r].targets
           x == [req[r] EXCEPT !.pc = "answer", !.targets = {}]
<1>1. /\ req[r].pc = "revoking"
      /\ \A s \in T : s \in Sessions /\ row[s] # "absent" /\ ~Locked(s)
  BY DEF RevokeFamily, Snapshots, TypeOK, Request
<1>2. /\ x \in Request /\ x.pc = "answer" /\ x.next = req[r].next /\ x.token = req[r].token
      /\ Become(r, x)
  BY DEF TypeOK, Request, Steps, Operations, RevokeFamily
<1>3. /\ req' \in [Requests -> Request]
      /\ req'[r] = x
      /\ \A q \in Requests : q # r => req'[q] = req[q]
  <2> HIDE DEF x
  <2> QED BY <1>2, BecomeSetsOne
<1>4. /\ row' \in [Sessions -> RowStates]
      /\ \A s \in Sessions : /\ s \in T => row'[s] = "revoked"
                             /\ s \notin T => row'[s] = row[s]
      /\ UNCHANGED <<family, replacedBy, expired, issued, signedOut>>
  BY DEF RevokeFamily, TypeOK, RowStates
<1> HIDE DEF x, T
<1>5. TypeOK'
  BY <1>3, <1>4 DEF TypeOK
<1>6. RowsAndFamilies'
  BY <1>1, <1>4 DEF RowsAndFamilies
<1>7. DrawnIds'
  BY <1>1, <1>2, <1>3, <1>4 DEF DrawnIds
<1>8. StoredTokens'
  BY <1>1, <1>2, <1>3, <1>4 DEF StoredTokens
<1>9. RowLocks'
  BY <1>1, <1>2, <1>3, <1>4 DEF RowLocks, StoredTokens, Locked
<1>10. Snapshots'
  BY <1>1, <1>2, <1>3, <1>4 DEF Snapshots, TypeOK, Request
<1>11. OneLiveSessionPerFamily'
  BY <1>4 DEF OneLiveSessionPerFamily
<1>12. RotationsFormAChain'
  BY <1>1, <1>4 DEF RotationsFormAChain, TypeOK
<1>13. IssuedTokensAreStored'
  BY <1>1, <1>4 DEF IssuedTokensAreStored, TypeOK
<1> QED
  BY <1>5, <1>6, <1>7, <1>8, <1>9, <1>10, <1>11, <1>12, <1>13

(* Every step preserves the invariant.                                       *)
LEMMA NextInvariant == IInv /\ [Next]_vars => IInv'
<1> SUFFICES ASSUME IInv, [Next]_vars PROVE IInv'
  OBVIOUS
<1>1. ASSUME NEW r \in Requests, Arrive(r) \/ Step(r) \/ RevokeFails(r) \/ Fail(r) PROVE IInv'
  BY <1>1, MovesKeepInvariant, CreateSessionKeepsInvariant, CommitRotationKeepsInvariant,
     RevokeFamilyKeepsInvariant DEF Arrive, Step
<1>2. ASSUME NEW s \in Sessions, Expire(s) PROVE IInv'
  BY <1>2 DEF Expire, IInv, TypeOK, RequestsAndRowsAgree, RowsAndFamilies, DrawnIds,
     StoredTokens, RowLocks, Snapshots, OneLiveSessionPerFamily, RotationsFormAChain,
     IssuedTokensAreStored, db
<1>3. CASE UNCHANGED vars
  BY <1>3 DEF vars, IInv, TypeOK, RequestsAndRowsAgree, RowsAndFamilies, DrawnIds,
     StoredTokens, RowLocks, Snapshots, OneLiveSessionPerFamily, RotationsFormAChain,
     IssuedTokensAreStored
<1> QED
  BY <1>1, <1>2, <1>3 DEF Next
-----------------------------------------------------------------------------
(* Types and the agreement of requests and rows hold throughout.             *)
THEOREM Invariance == Spec => []IInv
  BY InitInvariant, NextInvariant, PTL DEF Spec

(* Every statement of auth.service.ts writes rows of the shape the others    *)
(* read.                                                                     *)
THEOREM TypeCorrect == Spec => []TypeOK
  BY Invariance, PTL DEF IInv

(* The agreement between requests in flight and committed rows that lets     *)
(* refresh and revokeFamily run concurrently.                                *)
THEOREM Agreement == Spec => []RequestsAndRowsAgree
  BY Invariance, PTL DEF IInv

(* However many refreshes, sign-outs and failures overlap, a family never    *)
(* has two sessions whose tokens work.                                       *)
THEOREM OneLiveSession == Spec => []OneLiveSessionPerFamily
<1>1. IInv => OneLiveSessionPerFamily
  BY DEF IInv, RequestsAndRowsAgree
<1> QED
  BY <1>1, Invariance, PTL

(* A refresh token is redeemed at most once: the rotations of a family form  *)
(* one chain.                                                                *)
THEOREM RedeemedOnce == Spec => []RotationsFormAChain
<1>1. IInv => RotationsFormAChain
  BY DEF IInv, RequestsAndRowsAgree
<1> QED
  BY <1>1, Invariance, PTL

(* No client is given a token whose session was not committed.               *)
THEOREM TokensStored == Spec => []IssuedTokensAreStored
<1>1. IInv => IssuedTokensAreStored
  BY DEF IInv, RequestsAndRowsAgree
<1> QED
  BY <1>1, Invariance, PTL
-----------------------------------------------------------------------------
(* How a step changes the committed rows. *)
LEMMA RowSteps ==
  ASSUME IInv, [Next]_vars
  PROVE  \/ UNCHANGED <<row, family>>
         \/ \E new \in Sessions, f \in Families :
               /\ row[new] = "absent"
               /\ \A s \in Sessions : family[s] # f
               /\ row' = [row EXCEPT ![new] = "live"]
               /\ family' = [family EXCEPT ![new] = f]
         \/ \E old, new \in Sessions :
               /\ row[old] = "live" /\ row[new] = "absent"
               /\ row' = [row EXCEPT ![old] = "revoked", ![new] = "live"]
               /\ family' = [family EXCEPT ![new] = family[old]]
         \/ \E f \in Families, T \in SUBSET Sessions :
               /\ \A s \in T : row[s] # "absent" /\ family[s] = f
               /\ row' = [s \in Sessions |-> IF s \in T THEN "revoked" ELSE row[s]]
               /\ family' = family
<1> USE DEF IInv, RequestsAndRowsAgree
<1>1. ASSUME NEW r \in Requests, NEW f \in Families, CreateSession(r, f)
      PROVE  \E new \in Sessions :
               /\ row[new] = "absent"
               /\ \A s \in Sessions : family[s] # f
               /\ row' = [row EXCEPT ![new] = "live"]
               /\ family' = [family EXCEPT ![new] = f]
  BY <1>1 DEF CreateSession, DrawnIds, FreshFamily
<1>2. ASSUME NEW r \in Requests, CommitRotation(r)
      PROVE  \E old, new \in Sessions :
               /\ row[old] = "live" /\ row[new] = "absent"
               /\ row' = [row EXCEPT ![old] = "revoked", ![new] = "live"]
               /\ family' = [family EXCEPT ![new] = family[old]]
  BY <1>2 DEF CommitRotation, DrawnIds, StoredTokens, RowLocks
<1>3. ASSUME NEW r \in Requests, RevokeFamily(r)
      PROVE  \E f \in Families, T \in SUBSET Sessions :
               /\ \A s \in T : row[s] # "absent" /\ family[s] = f
               /\ row' = [s \in Sessions |-> IF s \in T THEN "revoked" ELSE row[s]]
               /\ family' = family
  <2>1. req[r].pc = "revoking" /\ req[r].targets \in SUBSET Sessions
    BY <1>3 DEF RevokeFamily, TypeOK, Request
  <2>2. family[req[r].token] \in Families
    BY <2>1 DEF StoredTokens, TypeOK, RowsAndFamilies
  <2> QED
    BY <1>3, <2>1, <2>2 DEF RevokeFamily, Snapshots
<1>4. ASSUME NEW r \in Requests,
             Arrive(r) \/ Fail(r) \/ ReadInvalid(r) \/ Rotate(r) \/ RotateNothing(r)
             \/ ReturnTokens(r) \/ SnapshotFamily(r) \/ RevokeFails(r) \/ Answer(r)
             \/ \E s \in Sessions : ReadValid(r, s)
      PROVE  UNCHANGED <<row, family>>
  BY <1>4 DEF Arrive, SignIn, Refresh, SignOut, Fail, ReadInvalid, Rotate, RotateNothing,
     ReturnTokens, SnapshotFamily, RevokeFails, Answer, ReadValid, db
<1>5. ASSUME NEW s \in Sessions, Expire(s) PROVE UNCHANGED <<row, family>>
  BY <1>5 DEF Expire, db
<1>6. CASE UNCHANGED vars
  BY <1>6 DEF vars
<1> QED
  BY <1>1, <1>2, <1>3, <1>4, <1>5, <1>6 DEF Next, Step

(* A family without a live session never gets one back: neither a refresh    *)
(* nor a sign-in reopens what a sign-out or a reuse closed.                  *)
THEOREM ClosedForever == Spec => ClosedFamilyStaysClosed
<1>1. ASSUME IInv, [Next]_vars, NEW f \in Families, Closed(f) PROVE Closed(f)'
  <2>1. PICK t \in Sessions : family[t] = f
    BY <1>1 DEF Closed, FreshFamily
  <2>2. \A s \in Sessions : family[s] = f => row[s] # "live"
    BY <1>1 DEF Closed, LiveRows
  <2>3. \A s \in Sessions : row[s] = "absent" <=> family[s] = NoFamily
    BY <1>1 DEF IInv, RequestsAndRowsAgree, RowsAndFamilies
  <2>4. row \in [Sessions -> RowStates] /\ family \in [Sessions -> Families \cup {NoFamily}]
    BY <1>1 DEF IInv, TypeOK
  <2>5. /\ \E s \in Sessions : family'[s] = f
        /\ \A s \in Sessions : family'[s] = f => row'[s] # "live"
    BY <1>1, <2>1, <2>2, <2>3, <2>4, RowSteps, SentinelAssumption DEF RowStates
  <2> QED
    BY <2>5 DEF Closed, FreshFamily, LiveRows
<1>2. IInv /\ [Next]_vars => [\A f \in Families : Closed(f) => Closed(f)']_vars
  BY <1>1
<1> QED
  BY <1>2, Invariance, PTL DEF Spec, ClosedFamilyStaysClosed

(* The live session of a family is its current one, before a step...         *)
LEMMA CurrentSession ==
  ASSUME IInv, NEW s \in Sessions, row[s] = "live"
  PROVE  Current(family[s]) = s
<1>1. LiveRows(family[s]) = {s}
  BY DEF IInv, RequestsAndRowsAgree, OneLiveSessionPerFamily, LiveRows
<1> QED
  BY <1>1 DEF Current

(* ...and after it.                                                          *)
LEMMA CurrentSessionNext ==
  ASSUME IInv', NEW f, NEW s \in Sessions, row'[s] = "live", family'[s] = f
  PROVE  Current(f)' = s
<1>1. LiveRows(f)' = {s}
  BY DEF IInv, RequestsAndRowsAgree, OneLiveSessionPerFamily, LiveRows
<1> QED
  BY <1>1 DEF Current

(* A family whose rows are the same has the same current session.            *)
LEMMA SameRowsSameCurrent ==
  ASSUME NEW f, \A s \in Sessions : /\ row'[s] = "live" /\ family'[s] = f
                                      <=> row[s] = "live" /\ family[s] = f
  PROVE  Current(f)' = Current(f)
<1>1. LiveRows(f)' = LiveRows(f)
  BY DEF LiveRows
<1> QED
  BY <1>1 DEF Current

(* The committed table is a SessionFamilies: a step opens, rotates or closes *)
(* one family, or changes none.                                              *)
THEOREM Refinement == Spec => ImplementsSessionFamilies
<1> DEFINE current == [f \in Families |-> Current(f)]
           past == [f \in Families |-> {s \in Sessions : family[s] = f}]
<1>1. Init => SF!Init
  BY SentinelAssumption DEF Init, SF!Init, Current, LiveRows
<1>2. ASSUME IInv, IInv', [Next]_vars PROVE [SF!Next]_(SF!vars)
  <2>t. /\ row \in [Sessions -> RowStates] /\ family \in [Sessions -> Families \cup {NoFamily}]
        /\ \A s \in Sessions : row[s] = "absent" <=> family[s] = NoFamily
    BY <1>2 DEF IInv, TypeOK, RequestsAndRowsAgree, RowsAndFamilies
  <2>n. \A s \in Sessions : row[s] = "absent" => SF!NeverUsed(s)
    BY <2>t, SentinelAssumption DEF SF!NeverUsed
  <2>1. CASE UNCHANGED <<row, family>>
    <3>1. current' = current
      BY <2>1, SameRowsSameCurrent
    <3> QED
      BY <2>1, <3>1 DEF SF!vars
  <2>2. ASSUME NEW new \in Sessions, NEW f \in Families,
               row[new] = "absent",
               \A s \in Sessions : family[s] # f,
               row' = [row EXCEPT ![new] = "live"],
               family' = [family EXCEPT ![new] = f]
        PROVE  SF!Next
    <3>0. row'[new] = "live" /\ family'[new] = f
      BY <2>2, <2>t
    <3>1. Current(f)' = new
      BY <1>2, <3>0, CurrentSessionNext
    <3>2. \A g \in Families : g # f => Current(g)' = Current(g)
      BY <2>2, <2>t, SameRowsSameCurrent
    <3>3. current' = [current EXCEPT ![f] = new]
      BY <3>1, <3>2
    <3>4. past' = [past EXCEPT ![f] = {new}]
      BY <2>2, <2>t, SentinelAssumption
    <3>5. past[f] = {}
      BY <2>2
    <3> QED
      BY <2>2, <2>n, <3>3, <3>4, <3>5 DEF SF!Open, SF!Next
  <2>3. ASSUME NEW old \in Sessions, NEW new \in Sessions,
               row[old] = "live", row[new] = "absent",
               row' = [row EXCEPT ![old] = "revoked", ![new] = "live"],
               family' = [family EXCEPT ![new] = family[old]]
        PROVE  SF!Next
    <3>1. PICK f \in Families : f = family[old]
      BY <2>3, <2>t
    <3>0. row'[new] = "live" /\ family'[new] = f
      BY <2>3, <2>t, <3>1
    <3>2. Current(f)' = new
      BY <1>2, <3>0, CurrentSessionNext
    <3>3. \A g \in Families : g # f => Current(g)' = Current(g)
      BY <2>3, <2>t, <3>1, SameRowsSameCurrent, SentinelAssumption
    <3>4. current' = [current EXCEPT ![f] = new]
      BY <3>2, <3>3
    <3>5. past' = [past EXCEPT ![f] = @ \cup {new}]
      BY <2>3, <2>t, <3>1, SentinelAssumption
    <3>6. current[f] # NoSession
      BY <1>2, <2>3, <3>1, CurrentSession, SentinelAssumption
    <3> QED
      BY <2>3, <2>n, <3>4, <3>5, <3>6 DEF SF!Rotate, SF!Next
  <2>4. ASSUME NEW f \in Families, NEW T \in SUBSET Sessions,
               \A s \in T : row[s] # "absent" /\ family[s] = f,
               row' = [s \in Sessions |-> IF s \in T THEN "revoked" ELSE row[s]],
               family' = family
        PROVE  SF!Next \/ UNCHANGED SF!vars
    <3>1. past' = past
      BY <2>4
    <3>2. \A g \in Families : g # f => Current(g)' = Current(g)
      BY <2>4, SameRowsSameCurrent
    <3>3. CASE \E s \in T : row[s] = "live"
      <4>1. PICK s \in T : row[s] = "live" /\ family[s] = f
        BY <3>3, <2>4
      <4>2. current[f] # NoSession
        BY <1>2, <4>1, CurrentSession, SentinelAssumption
      <4>3. LiveRows(f)' = {}
        BY <1>2, <2>4, <4>1 DEF IInv, RequestsAndRowsAgree, OneLiveSessionPerFamily, LiveRows
      <4>4. Current(f)' = NoSession
        BY <4>3 DEF Current
      <4>5. current' = [current EXCEPT ![f] = NoSession]
        BY <3>2, <4>4
      <4> QED
        BY <3>1, <4>2, <4>5 DEF SF!Close, SF!Next
    <3>4. CASE \A s \in T : row[s] # "live"
      <4>1. Current(f)' = Current(f)
        BY <2>4, <3>4, SameRowsSameCurrent
      <4>2. current' = current
        BY <3>2, <4>1
      <4> QED
        BY <3>1, <4>2 DEF SF!vars
    <3> QED
      BY <3>3, <3>4
  <2> QED
    BY <1>2, <2>1, <2>2, <2>3, <2>4, RowSteps
<1> QED
  BY <1>1, <1>2, Invariance, PTL DEF Spec, SF!Spec, ImplementsSessionFamilies
=============================================================================
