----------------------------- MODULE GameRounds -----------------------------
(* findAvailableRounds and findContents of world-cups.service.ts, as a player *)
(* calls them during a game: the available rounds, then each round in slices, *)
(* without what he has already got and what has lost.  Composed with the      *)
(* publication and the edits of the world cup that he plays.                  *)
EXTENDS DraftPublishing

CONSTANTS SUPPORTED_ROUNDS, MaxSlices

ASSUME RoundsAssumption ==
  /\ SUPPORTED_ROUNDS \subseteq Nat \ {0}
  /\ \A n \in SUPPORTED_ROUNDS : n # 2 => n % 2 = 0 /\ n \div 2 \in SUPPORTED_ROUNDS
  /\ MaxSlices \in Nat \ {0}

VARIABLES
  game,    \* the game of one player
  shrunk,  \* a candidate or the world cup was withdrawn during it (history)
  spare    \* others than the first round's candidates were offered (history)

vars == <<draft, game, shrunk, spare>>
history == <<shrunk, spare>>

Game == [pc : {"none", "count", "fetch", "play", "refused"},
         round : SUPPORTED_ROUNDS \cup {0},
         slices : 0..MaxSlices,           \* into how many requests it is split
         served : 0..MaxSlices,           \* how many of them are answered
         out : SUBSET Candidates,         \* the candidates that have lost
         winners : SUBSET Candidates,     \* those of the last round
         got : SUBSET Candidates]         \* what this round's answers contained
NoGame == [pc |-> "none", round |-> 0, slices |-> 0, served |-> 0,
           out |-> {}, winners |-> {}, got |-> {}]

(* The world cup's rows, the requests and the game. *)
TypeOK == /\ DraftTypeOK
          /\ game \in Game
          /\ shrunk \in BOOLEAN
          /\ spare \in BOOLEAN

Init == DraftInit /\ game = NoGame /\ shrunk = FALSE /\ spare = FALSE
-----------------------------------------------------------------------------
(* findAvailableRounds: a round that the offered candidates suffice for. *)
FindAvailableRounds(n) ==
  /\ game.pc = "none"
  /\ public
  /\ n <= Cardinality(Offered)
  /\ game' = [NoGame EXCEPT !.pc = "count", !.round = n]
  /\ shrunk' = FALSE
  /\ spare' = (n < Cardinality(Offered))
  /\ UNCHANGED draft

(* findContents: the candidates are counted in one statement; the slices      *)
(* divide the round. *)
CountCandidates(s) ==
  /\ game.pc = "count"
  /\ game.slices \in {0, s}
  /\ game.round % s = 0
  /\ game' = [game EXCEPT !.pc = IF public /\ Cardinality(Offered) >= game.round
                                 THEN "fetch" ELSE "refused",
                          !.slices = s]
  /\ UNCHANGED <<draft, history>>

(* Variant: every slice holds a whole round. *)
SliceOfRound == game.round

(* A slice of the round. *)
ContentsCount == game.round \div game.slices

(* Variant: excludeContentsIds is ignored. *)
ExcludeNothing == {}

(* What the player excludes: the losers and what this round's answers held. *)
ExcludedContents == game.out \cup game.got

(* Variant: one candidate more than asked for must be left. *)
EnoughAndOne(S) == Cardinality(S) > ContentsCount

(* Refused if fewer are left than the slice holds. *)
EnoughContents(S) == Cardinality(S) >= ContentsCount

(* They are fetched in another, shuffled, and the first ones answered. *)
FetchContents(S) ==
  /\ game.pc = "fetch"
  /\ IF EnoughContents(Offered \ ExcludedContents)
     THEN /\ S \subseteq Offered \ ExcludedContents
          /\ Cardinality(S) = ContentsCount
          /\ game' = [game EXCEPT !.got = @ \cup S, !.served = @ + 1,
                        !.pc = IF game.served + 1 = game.slices THEN "play" ELSE "count"]
     ELSE S = {} /\ game' = [game EXCEPT !.pc = "refused"]
  /\ UNCHANGED <<draft, history>>
-----------------------------------------------------------------------------
(* The client plays the matches of the round, W win theirs, *)
NextRound(W) ==
  /\ game.pc = "play" /\ game.round > 2
  /\ W \subseteq game.got /\ Cardinality(W) = game.round \div 2
  /\ game' = [NoGame EXCEPT !.pc = "count", !.round = game.round \div 2, !.winners = W,
                            !.out = game.out \cup (game.got \ W)]
  /\ UNCHANGED <<draft, history>>

(* until the last; a refused game is over too.                                *)
GameOver ==
  /\ \/ game.pc = "play" /\ game.round = 2
     \/ game.pc = "refused"
  /\ game' = NoGame
  /\ shrunk' = FALSE
  /\ spare' = FALSE
  /\ UNCHANGED draft

(* What becomes of the candidates while the game goes on. *)
Withdrawn == ~(Offered \subseteq Offered') \/ (public /\ ~public')
Joined == ~(Offered' \subseteq Offered)

Change == /\ DraftNext
          /\ shrunk' = (game # NoGame /\ (shrunk \/ Withdrawn))
          /\ spare' = (game # NoGame /\ (spare \/ Joined))
          /\ UNCHANGED game

Play == \/ \E n \in SUPPORTED_ROUNDS : FindAvailableRounds(n)
        \/ \E s \in 1..MaxSlices : CountCandidates(s)
        \/ \E S \in SUBSET Candidates : FetchContents(S) \/ NextRound(S)
        \/ GameOver

Next == Change \/ Play

Spec == Init /\ [][Next]_vars
-----------------------------------------------------------------------------
(* However a round is sliced and whatever is edited between its requests, the *)
(* player who has its answers holds as many candidates as the round has, and  *)
(* none that has lost before.                                                 *)
RoundsComplete == game.pc = "play" => /\ Cardinality(game.got) = game.round
                                      /\ game.got \cap game.out = {}

(* A game that findAvailableRounds allowed is played to its end: a request is *)
(* refused for want of candidates only if one, or the world cup, was          *)
(* withdrawn since.                                                           *)
RefusedOnlyIfWithdrawn == game.pc = "refused" => shrunk

(* A later round is drawn among the winners of the one before, if no others   *)
(* than the candidates of the first round were offered: findContents cannot   *)
(* tell a winner from a candidate that was never drawn.                       *)
WinnersGoOn == game.winners # {} => spare \/ game.got \subseteq game.winners

(* A game as the player sees it: slices that have come in are no round yet.   *)
Phase == CASE game.pc = "none" -> "over"
           [] game.pc \in {"count", "fetch"} -> "open"
           [] game.pc = "play" -> "drawn"
           [] game.pc = "refused" -> "refused"
Hand == IF game.pc = "play" THEN game.got ELSE {}
Promised == INSTANCE Tournament WITH
              Rounds <- SUPPORTED_ROUNDS,
              phase <- Phase, round <- game.round, hand <- Hand,
              winners <- game.winners, lost <- game.out,
              withdrawn <- shrunk, others <- spare

(* However the rounds are sliced, counted and fetched between the edits and   *)
(* the publication, all requests of a game add up to a tournament: whole      *)
(* rounds, each among the winners of the one before.                          *)
ImplementsTournament == Promised!Spec
=============================================================================
