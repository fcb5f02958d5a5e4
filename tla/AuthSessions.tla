---------------------------- MODULE AuthSessions ----------------------------
(* The login sessions of src/auth/auth.service.ts: sign-in, refresh-token     *)
(* rotation, sign-out and the query behind every access-token check, run by   *)
(* concurrent requests on any number of replicas against one PostgreSQL       *)
(* table at READ COMMITTED.  One action is one statement or one step between  *)
(* two awaits; uncommitted writes of a transaction live in its request.       *)
EXTENDS FiniteSets

CONSTANTS Sessions,   \* ids drawn by randomUUID(); also stand for their tokens
          Families,   \* family ids drawn by randomUUID()
          Requests,   \* HTTP requests being served, reused once answered
          NoSession, NoFamily

ASSUME SentinelAssumption == /\ NoSession \notin Sessions
                             /\ NoFamily \notin Families

VARIABLES
  row,         \* auth_sessions: row[s] is "absent", "live" (revokedAt null) or "revoked"
  family,      \* familyId of the row
  replacedBy,  \* replacedBySessionId of the row
  expired,     \* sessions whose expiresAt has passed
  req,         \* the requests in flight
  issued,      \* sessions whose tokens reached a client
  signedOut    \* families a sign-out revoked before it was answered 204 (history)

vars == <<row, family, replacedBy, expired, req, issued, signedOut>>
db   == <<row, family, replacedBy>>

RowStates == {"absent", "live", "revoked"}
Steps == {"idle",      \* not in use
          "create",    \* signIn: credentials verified, session row to insert
          "read",      \* refresh: token verified, session row to read
          "rotate",    \* refresh: row found valid, transaction to begin
          "rotated",   \* refresh: row revoked in the open transaction
          "respond",   \* signIn, refresh: committed, tokens to return
          "revoke",    \* revokeFamily to be issued
          "revoking",  \* revokeFamily: snapshot taken, rows to lock and update
          "answer"}    \* revokeFamily done, 204 or 401 to return

Operations == {"none", "signIn", "refresh", "signOut",
               "signOutFailed"}   \* a sign-out whose revokeFamily failed
Request == [pc : Steps, op : Operations,
            token : Sessions \cup {NoSession},   \* the token presented
            next : Sessions \cup {NoSession},    \* nextSessionId
            targets : SUBSET Sessions]           \* rows revokeFamily's snapshot matched

Idle == [pc |-> "idle", op |-> "none", token |-> NoSession,
         next |-> NoSession, targets |-> {}]

(* The rows, the requests in flight and the history of the answers. *)
TypeOK == /\ row \in [Sessions -> RowStates]
          /\ family \in [Sessions -> Families \cup {NoFamily}]
          /\ replacedBy \in [Sessions -> Sessions \cup {NoSession}]
          /\ expired \subseteq Sessions
          /\ req \in [Requests -> Request]
          /\ issued \subseteq Sessions
          /\ signedOut \subseteq Families

Init == /\ row = [s \in Sessions |-> "absent"]
        /\ family = [s \in Sessions |-> NoFamily]
        /\ replacedBy = [s \in Sessions |-> NoSession]
        /\ expired = {}
        /\ req = [r \in Requests |-> Idle]
        /\ issued = {}
        /\ signedOut = {}

(* randomUUID() never draws an id that is stored or about to be. *)
FreshSession(s) == row[s] = "absent" /\ \A r \in Requests : req[r].next # s
(* Variant: the family id is not random but follows from the member. *)
FamilyOfMember(f) == TRUE
FreshFamily(f) == \A s \in Sessions : family[s] # f

(* The row lock an UPDATE holds until its transaction ends. *)
Locked(s) == \E r \in Requests : req[r].pc = "rotated" /\ req[r].token = s

(* The rows revokeFamily's WHERE matches. *)
LiveRows(f) == {s \in Sessions : row[s] = "live" /\ family[s] = f}

(* The row authorizeAccess looks for: what makes the session's tokens work. *)
Active(s) == row[s] = "live" /\ s \notin expired

Become(r, x) == req' = [req EXCEPT ![r] = x]
Goto(r, step) == Become(r, [req[r] EXCEPT !.pc = step])
Finish(r) == Become(r, Idle)
-----------------------------------------------------------------------------
(* signIn: member read, password verified, tokens signed for new ids. *)
SignIn(r, s) ==
  /\ req[r].pc = "idle"
  /\ FreshSession(s)
  /\ Become(r, [Idle EXCEPT !.pc = "create", !.op = "signIn", !.next = s])
  /\ UNCHANGED <<db, expired, issued, signedOut>>

(* createSession: one INSERT, committed by itself. *)
CreateSession(r, f) ==
  /\ req[r].pc = "create"
  /\ FreshFamily(f)
  /\ row' = [row EXCEPT ![req[r].next] = "live"]
  /\ family' = [family EXCEPT ![req[r].next] = f]
  /\ Goto(r, "respond")
  /\ UNCHANGED <<replacedBy, expired, issued, signedOut>>

(* refresh, verifyRefreshToken: signature, kind and JWT expiry hold. *)
Refresh(r, s) ==
  /\ req[r].pc = "idle"
  /\ s \in issued \ expired
  /\ Become(r, [Idle EXCEPT !.pc = "read", !.op = "refresh", !.token = s])
  /\ UNCHANGED <<db, expired, issued, signedOut>>

(* refresh: the row is read and found usable; the next tokens are signed. *)
ReadValid(r, s) ==
  /\ req[r].pc = "read"
  /\ Active(req[r].token)
  /\ FreshSession(s)
  /\ Become(r, [req[r] EXCEPT !.pc = "rotate", !.next = s])
  /\ UNCHANGED <<db, expired, issued, signedOut>>

(* refresh: the row is missing, revoked or expired; the family is revoked. *)
ReadInvalid(r) ==
  /\ req[r].pc = "read"
  /\ ~Active(req[r].token)
  /\ Goto(r, "revoke")
  /\ UNCHANGED <<db, expired, issued, signedOut>>

(* Variant: the UPDATE lacks revokedAt: null. *)
RotateUnguarded(r) ==
  /\ req[r].pc = "rotate"
  /\ ~Locked(req[r].token)
  /\ Goto(r, "rotated")
  /\ UNCHANGED <<db, expired, issued, signedOut>>

(* Variant: the tokens are returned without awaiting the transaction. *)
RotateAndRespond(r) ==
  /\ req[r].pc = "rotate"
  /\ ~Locked(req[r].token)
  /\ row[req[r].token] = "live"
  /\ Goto(r, "respond")
  /\ UNCHANGED <<db, expired, issued, signedOut>>

(* refresh, first statement of the transaction: a conditional UPDATE that     *)
(* waits for the row's lock and then finds the row still live.                *)
Rotate(r) ==
  /\ req[r].pc = "rotate"
  /\ ~Locked(req[r].token)
  /\ row[req[r].token] = "live"
  /\ Goto(r, "rotated")
  /\ UNCHANGED <<db, expired, issued, signedOut>>

(* refresh: the conditional UPDATE changed no row; the transaction rolls back *)
(* with RefreshTokenReuseError and the family is revoked.                     *)
RotateNothing(r) ==
  /\ req[r].pc = "rotate"
  /\ ~Locked(req[r].token)
  /\ row[req[r].token] # "live"
  /\ Become(r, [req[r] EXCEPT !.pc = "revoke", !.next = NoSession])
  /\ UNCHANGED <<db, expired, issued, signedOut>>

(* Variant: the presented session is linked to its successor, not revoked. *)
CommitWithoutRevoking(r) ==
  /\ req[r].pc = "rotated"
  /\ row' = [row EXCEPT ![req[r].next] = "live"]
  /\ family' = [family EXCEPT ![req[r].next] = family[req[r].token]]
  /\ replacedBy' = [replacedBy EXCEPT ![req[r].token] = req[r].next]
  /\ Goto(r, "respond")
  /\ UNCHANGED <<expired, issued, signedOut>>

(* Variant: the transaction also takes the rows a revokeFamily is to update,  *)
(* while that one waits for the row of the transaction.                       *)
CommitAfterRevocations(r) ==
  /\ req[r].pc = "rotated"
  /\ \A q \in Requests : req[q].pc = "revoking" => req[r].token \notin req[q].targets
  /\ row' = [row EXCEPT ![req[r].token] = "revoked", ![req[r].next] = "live"]
  /\ family' = [family EXCEPT ![req[r].next] = family[req[r].token]]
  /\ replacedBy' = [replacedBy EXCEPT ![req[r].token] = req[r].next]
  /\ Goto(r, "respond")
  /\ UNCHANGED <<expired, issued, signedOut>>

(* refresh: the successor is inserted in the same transaction, which commits. *)
CommitRotation(r) ==
  LET old == req[r].token
      new == req[r].next
  IN /\ req[r].pc = "rotated"
     /\ row' = [row EXCEPT ![old] = "revoked", ![new] = "live"]
     /\ family' = [family EXCEPT ![new] = family[old]]
     /\ replacedBy' = [replacedBy EXCEPT ![old] = new]
     /\ Goto(r, "respond")
     /\ UNCHANGED <<expired, issued, signedOut>>

(* Variant: the presented token is sent back; a sign-in presented none. *)
ReturnPresented(r) ==
  /\ req[r].pc = "respond"
  /\ issued' = issued \cup {req[r].token}
  /\ Finish(r)
  /\ UNCHANGED <<db, expired, signedOut>>

(* signIn, refresh: the tokens reach the client. *)
ReturnTokens(r) ==
  /\ req[r].pc = "respond"
  /\ issued' = issued \cup {req[r].next}
  /\ Finish(r)
  /\ UNCHANGED <<db, expired, signedOut>>

(* signOut: expiration is ignored, any signed token names its family. *)
SignOut(r, s) ==
  /\ req[r].pc = "idle"
  /\ s \in issued
  /\ Become(r, [Idle EXCEPT !.pc = "revoke", !.op = "signOut", !.token = s])
  /\ UNCHANGED <<db, expired, issued, signedOut>>

(* revokeFamily: the UPDATE's snapshot sees committed rows only. *)
SnapshotFamily(r) ==
  /\ req[r].pc = "revoke"
  /\ Become(r, [req[r] EXCEPT !.pc = "revoking", !.targets = LiveRows(family[req[r].token])])
  /\ UNCHANGED <<db, expired, issued, signedOut>>

(* Variant: the rows of the snapshot are written without waiting for locks. *)
RevokeLocked(r) ==
  /\ req[r].pc = "revoking"
  /\ row' = [s \in Sessions |-> IF s \in req[r].targets THEN "revoked" ELSE row[s]]
  /\ Become(r, [req[r] EXCEPT !.pc = "answer", !.targets = {}])
  /\ UNCHANGED <<family, replacedBy, expired, issued, signedOut>>

(* revokeFamily: the UPDATE waits for its rows' locks, re-evaluates its       *)
(* condition on each of them and commits; rows it did not see it never finds. *)
RevokeFamily(r) ==
  /\ req[r].pc = "revoking"
  /\ \A s \in req[r].targets : ~Locked(s)
  /\ row' = [s \in Sessions |-> IF s \in req[r].targets THEN "revoked" ELSE row[s]]
  /\ Become(r, [req[r] EXCEPT !.pc = "answer", !.targets = {}])
  /\ UNCHANGED <<family, replacedBy, expired, issued, signedOut>>

(* signOut swallows the error of its revokeFamily: nothing is revoked, and    *)
(* the 204 is sent all the same.                                              *)
RevokeFails(r) ==
  /\ req[r].op = "signOut"
  /\ req[r].pc \in {"revoke", "revoking"}
  /\ Become(r, [req[r] EXCEPT !.pc = "answer", !.op = "signOutFailed", !.targets = {}])
  /\ UNCHANGED <<db, expired, issued, signedOut>>

(* signOut answers 204, refresh answers 401. *)
Answer(r) ==
  /\ req[r].pc = "answer"
  /\ signedOut' = IF req[r].op = "signOut" THEN signedOut \cup {family[req[r].token]}
                  ELSE signedOut
  /\ Finish(r)
  /\ UNCHANGED <<db, expired, issued>>

(* A statement fails, a transaction times out, a replica dies or a response   *)
(* is lost: what is not committed is rolled back.                             *)
Fail(r) ==
  /\ req[r].pc # "idle"
  /\ Finish(r)
  /\ UNCHANGED <<db, expired, issued, signedOut>>

(* expiresAt passes. *)
Expire(s) ==
  /\ row[s] # "absent"
  /\ s \notin expired
  /\ expired' = expired \cup {s}
  /\ UNCHANGED <<db, req, issued, signedOut>>

Step(r) ==
  \/ \E s \in Sessions : ReadValid(r, s)
  \/ \E f \in Families : CreateSession(r, f)
  \/ ReadInvalid(r) \/ Rotate(r) \/ RotateNothing(r) \/ CommitRotation(r)
  \/ ReturnTokens(r) \/ SnapshotFamily(r) \/ RevokeFamily(r) \/ Answer(r)

Arrive(r) == \E s \in Sessions : SignIn(r, s) \/ Refresh(r, s) \/ SignOut(r, s)

Next == \/ \E r \in Requests : Arrive(r) \/ Step(r) \/ RevokeFails(r) \/ Fail(r)
        \/ \E s \in Sessions : Expire(s)

Spec == Init /\ [][Next]_vars

(* Awaited statements and signatures finish.  A request waiting for a row     *)
(* lock can be overtaken, but PostgreSQL grants row locks in queue order, so  *)
(* not for ever: strong fairness.  Clients owe nothing, failures are not fair. *)
FairSpec == Spec /\ \A r \in Requests : SF_vars(Step(r))
-----------------------------------------------------------------------------
(* A family never has two sessions that are not revoked, however many         *)
(* refreshes, sign-outs and failures overlap: the conditional UPDATE of       *)
(* refresh (auth.service.ts:168) lets one request rotate.                     *)
OneLiveSessionPerFamily ==
  \A s, t \in Sessions : row[s] = "live" /\ row[t] = "live" /\ family[s] = family[t] => s = t

(* The rotations of a family are one chain: a session has at most one         *)
(* predecessor, of its own family, and every session with a successor is      *)
(* revoked (replacedBySessionId, auth.service.ts:174-177).                    *)
RotationsFormAChain ==
  \A s \in Sessions : replacedBy[s] # NoSession =>
     /\ row[s] = "revoked"
     /\ row[replacedBy[s]] # "absent"
     /\ family[replacedBy[s]] = family[s]
     /\ \A t \in Sessions : replacedBy[t] = replacedBy[s] => s = t

(* A client only ever holds tokens whose session was committed: tokens are    *)
(* signed before the row is written but returned after.                       *)
IssuedTokensAreStored == \A s \in issued : row[s] # "absent"

(* What the concurrent requests rely on, an inductive strengthening of the    *)
(* properties above: an id drawn and not yet stored is absent and drawn by    *)
(* one request, a presented or returned token has a row, an open transaction  *)
(* alone holds the lock of a live row, and revokeFamily's snapshot stays in   *)
(* the family of the presented token.                                         *)
RowsAndFamilies == \A s \in Sessions : row[s] = "absent" <=> family[s] = NoFamily
DrawnIds ==
  \A r \in Requests : req[r].pc \in {"create", "rotate", "rotated"} =>
     /\ req[r].next \in Sessions
     /\ row[req[r].next] = "absent"
     /\ \A q \in Requests : q # r => req[q].next # req[r].next
StoredTokens ==
  \A r \in Requests :
     /\ req[r].pc \in {"read", "rotate", "rotated", "revoke", "revoking", "answer"} =>
          req[r].token \in Sessions /\ row[req[r].token] # "absent"
     /\ req[r].pc = "respond" => req[r].next \in Sessions /\ row[req[r].next] # "absent"
RowLocks ==
  \A r \in Requests : req[r].pc = "rotated" =>
     /\ row[req[r].token] = "live"
     /\ \A q \in Requests : req[q].pc = "rotated" /\ req[q].token = req[r].token => q = r
Snapshots ==
  \A r \in Requests : req[r].pc = "revoking" =>
     \A s \in req[r].targets : row[s] # "absent" /\ family[s] = family[req[r].token]
(* All of it together: what every interleaving of requests preserves. *)
RequestsAndRowsAgree ==
  /\ RowsAndFamilies /\ DrawnIds /\ StoredTokens /\ RowLocks /\ Snapshots
  /\ OneLiveSessionPerFamily /\ RotationsFormAChain /\ IssuedTokensAreStored

(* Once a family has had sessions and no committed row of it is live, no      *)
(* later interleaving of requests gives it a live session again: a stolen or  *)
(* stale token stays dead.                                                    *)
Closed(f) == ~FreshFamily(f) /\ LiveRows(f) = {}
(* Closed for good: revokeFamily and a lost rotation are never undone. *)
ClosedFamilyStaysClosed == [][\A f \in Families : Closed(f) => Closed(f)']_vars

(* Every request past the point where it drew its ids is answered: waiting    *)
(* for row locks, inside a transaction or not, never lasts for ever.          *)
RequestsFinish ==
  \A r \in Requests : req[r].pc \notin {"idle", "create", "read"} ~> req[r].pc = "idle"

(* The table implements SessionFamilies: every commit opens, rotates or       *)
(* closes one family, or changes nothing.                                     *)
Current(f) == IF LiveRows(f) = {} THEN NoSession ELSE CHOOSE s \in LiveRows(f) : TRUE
SF == INSTANCE SessionFamilies WITH
        current <- [f \in Families |-> Current(f)],
        past <- [f \in Families |-> {s \in Sessions : family[s] = f}]
(* The refinement itself: auth_sessions behaves as SessionFamilies. *)
ImplementsSessionFamilies == SF!Spec
-----------------------------------------------------------------------------
(* README.md on sign-out: the cookie and the server session are discarded     *)
(* together.  After the 204 of a sign-out whose revokeFamily went through no  *)
(* token of the family works.                                                 *)
SignOutEndsFamily == \A s \in Sessions : family[s] \in signedOut => ~Active(s)
=============================================================================
