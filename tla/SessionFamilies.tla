--------------------------- MODULE SessionFamilies ---------------------------
(* What the refresh-token rotation of src/auth promises: the sessions        *)
(* born from one sign-in form a family, one of them is current, each refresh *)
(* hands the family over to a session that never existed before, and once    *)
(* the family is closed it has no current session ever again.                *)
CONSTANTS Sessions,   \* session ids (randomUUID)
          Families,   \* family ids (randomUUID)
          NoSession   \* "no current session"

VARIABLES current,    \* current[f]: the session not yet revoked, or NoSession
          past        \* past[f]: every session the family ever had

vars == <<current, past>>

TypeOK == /\ current \in [Families -> Sessions \cup {NoSession}]
          /\ past \in [Families -> SUBSET Sessions]

Init == /\ current = [f \in Families |-> NoSession]
        /\ past = [f \in Families |-> {}]

NeverUsed(s) == \A f \in Families : s \notin past[f]

(* A sign-in opens a family that was never opened before. *)
Open(f, s) == /\ past[f] = {}
              /\ NeverUsed(s)
              /\ current' = [current EXCEPT ![f] = s]
              /\ past' = [past EXCEPT ![f] = {s}]

(* A refresh replaces the current session by a new one. *)
Rotate(f, s) == /\ current[f] # NoSession
                /\ NeverUsed(s)
                /\ current' = [current EXCEPT ![f] = s]
                /\ past' = [past EXCEPT ![f] = @ \cup {s}]

(* A sign-out or a detected reuse closes the family for good. *)
Close(f) == /\ current[f] # NoSession
            /\ current' = [current EXCEPT ![f] = NoSession]
            /\ UNCHANGED past

Next == \E f \in Families :
          \/ \E s \in Sessions : Open(f, s) \/ Rotate(f, s)
          \/ Close(f)

Spec == Init /\ [][Next]_vars
=============================================================================
