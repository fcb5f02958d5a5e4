--------------------------- MODULE MCAuthSessions ---------------------------
(* Instances of AuthSessions for TLC; ids and requests are model values. *)
EXTENDS AuthSessions, TLC

Symmetry == Permutations(Sessions) \cup Permutations(Families) \cup Permutations(Requests)
=============================================================================
