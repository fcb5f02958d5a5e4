# Verification of iwtc-backend-nest

TLA+ models of the backend in `src/`, checked with TLC and, for the properties that matter most, proved with
TLAPS for every value of the constants. The modules are written from the code; `PROJECT.json` names the lines of
each definition.

Contents: [the system](#the-system), [modules](#modules), [how code becomes actions](#how-code-becomes-actions),
[module by module](#module-by-module), [runs](#runs), [fairness](#fairness), [proofs](#proofs),
[what the runs found](#what-the-runs-found), [not modelled](#not-modelled), [plan](#plan),
[how to run](#how-to-run).

## The system

A NestJS application serves a "world cup" game: candidates (videos or images) of a world cup compete in rounds in
the browser, the result is saved, candidates are ranked by their points and commented on. Owners manage their world
cups and candidates; an automation account drafts and publishes them. Two replicas of the process
(`k8s/backend-deployment.yaml`) share one PostgreSQL database, through Prisma, and one S3-compatible bucket. Nothing
is kept in the memory of a replica between two requests, so every interaction of two requests goes through the
database or the bucket. Transactions run at PostgreSQL's default READ COMMITTED.

| Component | State | Operations | Interacts with | What is hard | What makes it correct |
| --- | --- | --- | --- | --- | --- |
| Login sessions (`auth/`) | `auth_sessions`; tokens at the clients | `signIn`, `refresh`, `signOut`, `authorizeAccess` | every guarded endpoint | replayed and simultaneous refreshes on two replicas, revocation during a rotation | one live session per family; a token is redeemed once; a closed family stays closed; tokens only for committed sessions |
| Members (`auth/`) | `members` | `signUp`, `getMySummary` | sessions | two sign-ups of one name | the unique keys decide |
| Game results (`world-cups/`) | `game_plays`, `game_placements` | `saveGameResult` | candidates, world cups, their owner | a client repeats a save whose answer it lost; two saves of one `playId`; candidates edited and world cups removed in between | saves are idempotent; nothing is rewritten, and only the removal of its world cup takes a result away; only candidates of the world cup are placed |
| Rankings (`world-cups/`, `manage-world-cups/`) | none | `findGameResultContents`, `findAll` | game results, numbering | ties, zero points, the first candidate | competition ranking |
| Public reads (`world-cups/`) | none; the client keeps who has lost | lists, details, `findAvailableRounds`, `findContents` | drafts and edits of the world cup | count and fetch are separate statements, a round comes in slices, edits in between | a round is complete and without losers; an allowed game is not refused for nothing |
| Candidate numbering (`manage-world-cups/`) | `candidates.sort_order` | `createOne`, `createMany`, `createStaticImage` | media | overlapping batches, failures half-way, soft-deleted candidates | no gap, no repetition, new ones last |
| Candidate media (`manage-world-cups/`, `media-files/`) | `media_files`, `candidates`, the bucket | `createStaticImage`, `updateStaticImage`, `updateOne`, `remove` | object storage | two stores without a common transaction; uploads, commits and deletions fail one by one | no broken image; nothing left behind; deleted candidates stay as they are |
| World cup management | `world_cups` and everything below | `create`, `update`, `remove` | all of the above | locks of a large deletion; objects after rows; failures half-way | no orphan row, no broken image, every object accounted for; deadlocks are broken |
| Automation | drafts, `automation_content_attributions` | draft, candidates, attribution, publish | media, numbering | attribution saved after the candidate; publication checks one snapshot and updates another | what is offered has its source |
| Comments (`comments/`) | `comments` | `create`, `remove`, list | candidates, members | two removals at once; candidates deleted in between | removed once, by the author |
| Object storage, media responses, health, configuration, error filter, seed, deployment | none of their own | | | | |

Components interact by rows: a save reads candidates that the management endpoints edit; a comment or a candidate
belongs to a world cup that may be removed; media rows name objects of the bucket. There are no queues, timers or
callbacks; the only waiting is for row locks, unique keys and one advisory lock. The hazards in `PROJECT.json` list
where this bites, line by line.

## Modules

| Module | Stands for |
| --- | --- |
| `SessionFamilies` | abstract specification: what the rotation of refresh tokens promises |
| `AuthSessions` | sign-in, refresh, sign-out and the access check; implements `SessionFamilies` |
| `AuthSessionsProofs` | type correctness, the inductive invariant, the refinement |
| `ResultStore` | abstract specification: a `playId` is given one result, which stays as long as its world cup; clients are told the truth about it |
| `GameResults`, `GameResultsProofs` | saving a game against concurrent saves and the owner; implements `ResultStore` |
| `CandidateList` | abstract specification: a world cup's candidates are a list that grows at its end by whole batches |
| `CandidateOrder`, `CandidateOrderProofs` | numbering new candidates under the advisory lock; implements `CandidateList` |
| `ImageStore` | abstract specification: an image and a name are saved at once and once, or not at all; an image is lost to an unclear answer only |
| `CandidateMedia`, `CandidateMediaProofs` | candidate rows, media rows and bucket objects, with every fault; implements `ImageStore` |
| `CommentWall` | abstract specification: a comment is about a candidate that was on show, and goes once, by its author |
| `Comments`, `CommentsProofs` | writing and removing comments; implements `CommentWall` |
| `Rankings`, `RankingsProofs` | the queries and the ranking loop of the two lists; extends `CandidateOrder`, so that candidates come and go beside them |
| `WorldCupStore` | abstract specification: candidates always have their images, rows are about existing candidates, a removal takes everything at once |
| `WorldCupRemoval`, `WorldCupRemovalProofs` | the removal of a world cup, composed with saves, comments, creations, replacements and another removal; implements `WorldCupStore` |
| `DraftPublishing` | the automation's draft, its attributions and its publication, against the owner's edits |
| `Tournament` | abstract specification: whole rounds, drawn at once, each among the winners of the one before |
| `GameRounds`, `GameRoundsProofs` | rounds and slices as a player draws them; extends `DraftPublishing`, so that the draft changes during a game; implements `Tournament` |
| `MC*` | the instances TLC checks: symmetry sets and the values that are no plain sets |

Modules to be proved about use no RECURSIVE operator; constants carry named assumptions that TLC evaluates on every
run.

## How code becomes actions

* One action is one statement that reaches the database or the bucket, or the step between two awaits; a handler is a
  chain of such actions of one request, whose `pc` names the next await. Requests interleave at every await, which is
  what two replicas and an event loop allow.
* A transaction's writes become visible in one action, its commit. Until then they live in the record of the request,
  and the row locks, unique keys and advisory lock they hold are predicates over those records (`Locked`, `KeyHeld`,
  `Holds`, `MediaLocked`, `CandidateLocked`, `HoldsCandidate`). Waiting is a guard that is not true yet. Where two statements of a
  transaction touch only rows that it has just created they are one action.
* READ COMMITTED: each statement sees what is committed when it starts. An `UPDATE ... WHERE` that waited evaluates its
  condition again on the rows of its snapshot and never finds rows committed meanwhile; `revokeFamily` is therefore two
  actions, the snapshot and the write.
* `Fail` ends a request at any point: an error, Prisma's transaction timeout, a lost connection, the end of a replica,
  a lost answer. What is not committed is gone. Its committed part stays. `CandidateMedia` splits it by what fails,
  because the code reacts differently.
* Ids (`randomUUID`, sequences) are drawn from a set of model values that no row and no request has used yet; the sets
  are the bound on how many rows a run can create.
* Requests are records that are reused once answered, so that a run explores arbitrarily long histories as far as the
  ids allow. Deadlock checking is on in every run; where a module could run out of work it says so with an action
  (`Quiet`).
* Data is reduced to what the properties distinguish: a token is its session id, a name is the request that wrote it,
  an object is its key. Owner checks compare constants (the owner of a world cup never changes), so requests of
  others, which are refused without effect, are left out.
* An operator marked `Variant:` is a plausible bug in the definition next to it; nothing uses it. It shows that the
  property it is paired with in `PROJECT.json` notices.

## Module by module

**AuthSessions.** `row`, `family`, `replacedBy` are columns of `auth_sessions` (`revokedAt` is `row[s] = "revoked"`);
`expired` abstracts time: a session may expire at any moment after it exists. `issued` is what clients hold,
`signedOut` a history variable. `SignIn`, `CreateSession`, `ReturnTokens` are `signIn`; the family id is drawn when the
row is inserted, since nobody sees it before. `Refresh`, `ReadValid`/`ReadInvalid`, `Rotate`/`RotateNothing`,
`CommitRotation`, `ReturnTokens` are `refresh`; its error path and `signOut` share `SnapshotFamily`, `RevokeFamily`,
`Answer`. `signOut` swallows every error of `revokeFamily` and answers 204 all the same: `RevokeFails`. `SignOutEndsFamily` is about
sign-outs whose revocation did not fail. `Rotate` is the conditional `updateMany` that waits for the row and counts; the successor's INSERT takes no
lock another request wants and is part of the commit. `RevokeFamily` updates its rows in one action: a family has at
most one live row (proved), so the UPDATE never holds one lock while it waits for another. Password and signature
checks are guards that hold; a request that fails them changes nothing. `Active` is the query of `authorizeAccess`.

**SessionFamilies.** `current[f]` is the one usable session of a family, `past[f]` everything it ever had; `Open`,
`Rotate` and `Close` are all that can happen. `AuthSessions` refines it with `current` as the only live row and `past`
as the rows of the family.

**GameResults.** `play` is `game_plays` with its placements, inserted by one nested create. `Save` chooses any
validated body (two or four placements with distinct ranks and candidates); `LookUpMissing`, `CompareSame`,
`CompareDifferent`, `CheckCup`, `CheckCandidates`, `Reject`, `Insert`, `UniqueViolation`, `Commit`, `Respond` are
`saveGameResult` statement by statement. `SameResult` is `assertSameGameResult`, which compares sizes and looks every
requested placement up; that this amounts to equality is a lemma (`SameMeansEqual`), not assumed. The owner's `update`,
`updateStaticImage` and `remove` appear as what a save can see of them: changes of `visibleType` and `deletedAt`.
`RemoveWorldCup` is the removal of a world cup as a save can see it, one commit that takes plays, candidates and the row itself; an insert
that comes after it fails by its foreign key (`ForeignKeyViolation`), and the second look after a unique violation may find nothing
(`RereadMissing`), in which case the code throws the violation again. `answers` and `deletedAt` are history variables. `SavedForGood` (a
play goes with its world cup or stays as it is) follows from the refinement and is proved as `NeverRewritten`.

**CandidateOrder.** `cup` and `order` are columns of `candidates`. `Create` is a batch of `createMany` (`createOne` is
a batch of one, and the transaction of `createStaticImage` numbers its candidate the same way); `Lock` is
`pg_advisory_xact_lock`, `ReadLast` is `nextCandidateSortOrder`, `Insert` is `createCandidate`, `Commit` publishes
the batch and releases the lock. The properties say that the lock is taken early enough and that the unique key
`(worldCupId, sortOrder)`, whose violation the service does not handle, is never met.

**CandidateList.** `list[w]` are the candidates of a world cup in their order, `asked[r]` what a request wants. `CandidateOrder` implements
it with `InOrder`, the committed rows sorted by `sort_order`, and `Wanted`, the rows a transaction has inserted and those it will:
`Create` is `Ask`, `Commit` is `Grant` of the whole batch, `Fail` is `Refuse` and leaves no part of one, `Remove` is `Hide`; locks, reads and single inserts
are stutters. That the list exists at all, a sequence without a hole or a tie, is part of what is shown.

**CandidateMedia.** `media[c]` is the media row of a candidate, `name[c]` the last writer of its name, `stored` the
bucket. `Create` and `Replace` draw a key and go on with `Upload` (`putObject`, outside of the `try`), the transaction
(`Find`/`FindNothing`, `SetMedia`, `SetName`, `Commit`), and `Delete`: of the replaced object after the commit, or of
the upload after an error (`Abort`). `Edit` is `updateStaticImage` without a file or `updateOne`. The latter updates
the candidate only while `deletedAt` is null; the former by its id. `CONSTANT Faults` chooses what may go wrong:
`put` (uploads fail, stored or not), `delete`, `transaction` (rollback), `unclearCommit` (the COMMIT succeeds, its
answer is lost and `$transaction` rejects), `stop` (the replica ends). `unclear` records the keys saved by such a
COMMIT.

**ImageStore.** `image[c]` is what is seen of a candidate, `asked[r]` what a request is to save. A request asks (`AskCreate`, `AskReplace`,
`AskEdit`) and is then saved whole or refused. `CandidateMedia` implements it with `Seen`, the key of the row or "missing" if the
bucket does not have it, and `Demand`, which is empty once a request has committed or given up: `Commit` and `CommitUnclear` are `Save`,
every error, fault and stop before them is `Refuse`, and the deletion of a key in `unclear` is `Lose`. Uploads, statements
inside of a transaction, `Remove`, the deletions of replaced and discarded objects, and faults after the commit are stutters.
Whether a deleted candidate may still be saved to is not its business: the store does not know of deletions. `EditsSpareDeleted` and
`VideosSpareDeleted` speak of them.

**ResultStore.** `Store` gives a `playId` its result, `Tell` answers a client. `GameResults` implements it with the
identity on `play`, `removed` and `answers`: `Commit` is `Store`, `Respond` and `CompareDifferent` are `Tell`, `RemoveWorldCup` is
`Remove`, everything else is a stutter.

**Comments.** `create` is three statements without a transaction, `remove` a read and a conditional update that
counts. `told` counts the 204 answers per comment.

**CommentWall.** A request to write may look at what is on show at any moment (`See`) and posts once it has seen the world cup public and the candidate
on show, whatever they are by then; `TakeDown` is one step, `Tell` its only confirmation. `Comments` implements it with `Wish`, what a
request still wants, and `Found`, the reads of `create` that succeeded: `FindWorldCup` and `FindCandidate` are `See`, `Update` is
`TakeDown`, `FindComment` is a stutter, and every refusal and failure is `Leave`. The wall does not say that the candidate is still there
when the comment is posted, which the policy wants and the code does not give: that is `NoCommentOnDeleted`, and its run violates it.

**Rankings.** A list is two queries, `FindAll` or `FindGameResultContents` for the candidates and `GroupScores` for the sums of their
points, then `Sort`, and one `Rank` per iteration of the loop, with `previousScore` (-1 for `undefined`) and `previousRank`. The two services
have the loop twice, in the same form. The module extends `CandidateOrder`, whose requests go on adding and removing candidates beside the
list; it changes nothing of theirs (`ListsOnlyRead`). A sum may be any of `Scores`: games are saved by other modules. `Private` are the
candidates that only their owner's list shows.

**WorldCupRemoval.** `remove` of `manage-world-cups.service.ts`: `Remove` reads the media ids of the candidates;
`DeleteComments`, `DeletePlays`, `DeleteCandidate`/`CheckReferences`, `DeleteMedia`, `DeleteCup` and `CommitRemove` are
its transaction, `DeleteObject`/`RetryObject`/`GiveUpObject` the loop of `deleteStorageObjectWithRetry`. Beside it run
what inserts or updates below the world cup: a save or a comment (`Save`, `ReferToCup`, `ReferToCandidate`,
`CommitSave`), `createStaticImage` (`Create`, `ReferToCup`, `CommitCreate`), `updateStaticImage` (`Replace`,
`UpdateMedia`, `UpdateCandidate`, `CommitReplace`, `Clean`), and other removals. Foreign keys are modelled by what PostgreSQL
does for them: an INSERT takes FOR KEY SHARE on the rows it refers to, fails if they are gone, and is in the way of a DELETE only.
`candidate.deleteMany` goes row by row in any order, because the order in which rows of one statement are locked is not specified;
rows that the statement meets deleted are skipped; the references to a deleted row are checked at the end of the statement; candidates
inserted after the statement's snapshot go by CASCADE with the world cup. `Circle` is a set of requests each of which waits
for another of them, `BreakCircle` PostgreSQL's deadlock detector, `Fail` an error or a timeout of a transaction, `Stop`
the end of the replica after the commit. `late` and `abandoned` are history variables. The failures of the uploads
themselves, and of the deletion that answers them, are in `CandidateMedia`, so an `Abort` here deletes its upload in the step that rolls back:
that rollbacks leave nothing is shown here for deletions that succeed. `StepsLeft` counts what a request has still to do at most.

**WorldCupStore.** `image[c]` is what a visitor sees of a candidate, `on[i]` the candidates that a result or comment is about, `asked[i]`
those it was sent for. `WorldCupRemoval` implements it with `ImageOf`, the key of the row if the bucket has the object, so that a
broken image would be a step the store does not have, and `SavedOn`, the candidates of the open transaction. `CommitCreate`, `CommitReplace`,
`CommitSave` and `CommitRemove` are its `Create`, `Replace`, `Record` and `Remove`, each with all its statements; uploads,
deletions of rows before the commit and of objects after it are stutters.

**DraftPublishing.** `CreateStaticCandidate`, `FindMedia`, `SaveAttribution` are `createStaticCandidate` of the automation controller, whose
two halves are two transactions; `ReadCandidates`, `CheckSources`, `UpdateCandidates`, `CommitPublication` are
`publishAutomationDraft` statement by statement. The owner of the draft is an ordinary member and edits it with the
management API all the while (`AddCandidate`, `ReplaceImage`, `UpdateCandidate`, `SetVideo`, `RemoveCandidate`,
`UpdateWorldCup`). `image[c]` is what a candidate shows: the photo of the automation, an upload of the owner, a video.
`chosen` (what the owner saved as PUBLIC himself) and `late` are history variables. `OfferedAreAttributed` names the three
exceptions the code allows; without any one of them it fails.

**GameRounds.** `FindAvailableRounds`, `CountCandidates`, `FetchContents` are the two reads of `world-cups.service.ts` as a
game uses them. The order of the answer is shuffled, so any subset of the right size may come. `game` is what the client holds: the
round, how many requests it is split into (a divisor of the round: the 400 for any other number changes nothing and is left to the client), the losers and this round's answers, both of which it sends as
`excludeContentsIds`. `NextRound` is the client between two rounds, external to the service. `shrunk` and `spare` record, for the properties,
whether something was withdrawn or others than the first round's candidates were offered during the game.

**Tournament.** A round is `Draw`n whole, without losers, and among the winners unless `others` came in; `Refuse` needs `withdrawn`; `Advance`
halves the round. `GameRounds` implements it with `Phase` and `Hand`: a player who has some slices has no hand yet, so every
`CountCandidates` and every slice but the last is a stutter, the last one is `Draw`, a refusal of either statement is `Refuse`, and the owner's
edits and the publication are `Edit`.

## Runs

| Run | Instance | Shows |
| --- | --- | --- |
| `AuthSessions` | 3 sessions, 1 family, 2 requests, no symmetry; 323k states | `TypeOK`, `OneLiveSessionPerFamily`, `RotationsFormAChain`, `IssuedTokensAreStored`, the inductive `RequestsAndRowsAgree`, `ImplementsSessionFamilies`, `RequestsFinish` |
| `AuthSessionsSignOutRace` | 2 sessions, 1 family, 2 requests | violated: `SignOutEndsFamily` |
| `GameResults` | 2 world cups, 2 candidates, 3 bodies, 1 `playId`, 2 requests; 224k states | `TypeOK`, `SaveInvariant`, `AnswersAgree`, `SavesFinish`, `ImplementsResultStore` |
| `GameResultsDeletionRace` | 1 world cup, 2 bodies | violated: `NoDeletedCandidateSaved` |
| `CandidateMedia` | 1 candidate, 3 keys, 2 requests, all operations, all faults, no symmetry; 145k states | `TypeOK`, `DeletionsAreSafe`, `LiveKeysStored`, `VideosSpareDeleted`, `RequestsFinish`, `ImplementsImageStore` |
| `CandidateMediaReplaceRace` | 3 candidates, 3 keys, 2 requests, no fault | violated: `NothingLeftBehind` |
| `CandidateMediaDeletionRace` | 1 candidate, 2 keys, 2 requests, creations and replacements, no fault | violated: `EditsSpareDeleted` |
| `Comments` | 2 comments, 1 candidate, 2 members, 3 requests; 109k states | `TypeOK`, `RemovedOnce`, `ImplementsCommentWall` |
| `CommentsDeletionRace` | 1 comment, 1 candidate, 1 request | violated: `NoCommentOnDeleted` |
| `Rankings` | 2 world cups, 4 candidates, 2 requests, batches of 1 or 2, every pattern of ties, symmetry; 144k states | `TypeOK`, `ListTypeOK`, `NextOrderIsFree`, `NumberedWithoutGaps`, `ImplementsCandidateList`, `CompetitionRanking` |
| `WorldCupRemoval` | 2 images, 2 plays, 1 comment, 2 requests, 3 attempts per object; 67k states | `TypeOK`, `ImagesStored`, `NoRowOutlives`, `ObjectsAccounted`, `OnlyRemovalsDeadlock`, `RequestsFinish`, `WorkEnds`, `ImplementsWorldCupStore` |
| `GameRounds` | 4 candidates, rounds of 2 and 4, up to 4 slices, 2 automation requests, 1 edit, symmetry; 467k states | `TypeOK`, `OfferedAreAttributed`, `RefusedOnlyIfWithdrawn`, `WinnersGoOn`, `ImplementsTournament` |

Why the bounds are enough:

* *Sessions.* Every race of the code is one of two requests: two refreshes of one token, or a refresh and a revocation. Requests are reused, so
  that a third operation finds what two have left. Three sessions are a current one and two competing or consecutive successors. One run asks
  for liveness too, hence no symmetry and one family; that rows of families do not mix, whatever their number, and everything else but
  `RequestsFinish`, is proved for every number of sessions, families and requests.
* *Game results.* A duplicate is two requests with one `playId`; requests are reused, so that a later repetition and a
  conflict follow in the same run. Plays with different ids do not interact except through candidates. The bodies are a
  final, the same final reversed (same size, other result) and the final sent to the wrong world cup, whose check of the candidates refuses it.
  Theorems cover the rest, a `playId` that a removal frees and another world cup takes included.
* *Numbering.* Two requests contend for one lock or use two world cups; a batch of two is the least that can fail half-way. The theorems cover
  every number.
* *Media.* Two replacements of one candidate need three keys; every race of the two is over one candidate's row and
  its keys, and `DeletionsAreSafe` compares every key that is about to be deleted with every row and request. The run has no
  symmetry, because it checks liveness. `LiveKeysStored`, `DeletionsAreSafe` and the refinement are proved for every size, several
  candidates included; the replacement race runs with three candidates.
* *Comments.* Two removals race, a third request writes; the second member is the wrong author.
* *Rankings.* Four candidates give ties at the top, in the middle and at the end, twice, and four scores give every order of them.
  `ListsApart` (an ACTION_CONSTRAINT in `MCRankings`) reads lists only while nobody adds a candidate, of candidates numbered in the order of
  their ids: a list reads committed rows and never their numbers, so that its steps commute with those it is kept apart from. The
  specification has no such bound, and the theorems, `CompetitionRanking` for every number of candidates among them, are about it.
* *Removal.* A removal and one other request at a time show every pair of operations, each of which is reused, so that
  a third operation finds what the two left; two images allow an image replaced and a game of two candidates;
  `STORAGE_DELETE_ATTEMPTS` has the code's value. Circles of three transactions need three requests: with `r3` and one
  play the same invariants hold (1.0M states, without liveness), and all of them but `RequestsFinish` are proved for any number.
* *Rounds.* Four candidates make two rounds, in one, two or four slices; two automation requests are a creation beside a publication.
  One edit is what each named exception takes. The automation's own changes are not bounded by it, so that a game meets
  several of them. Its four invariants and the refinement are proved for every number of candidates, requests, edits, rounds and slices.

A candidate with a media row `"none"` is one that does not exist, so `CandidatesLeft` bounds creations by the ids.

## Fairness

`FairSpec` is strong fairness of `Step(r)`, for every request: an awaited statement, upload or deletion finishes, with
success or, in `CandidateMedia`, by one of the error steps; a request that waits for a lock and is overtaken now and
then gets it in the end. PostgreSQL grants row locks, advisory locks and unique-key waits in the order of the queue, so
that the guard being true again and again suffices; weak fairness would let a waiter starve behind new requests. Clients owe nothing
(`SignIn`, `Save`, `Create` and so on are not fair) and no fault is obliged to happen or to stop. Liveness then says
that no combination of locks, held by any other request that also moves, keeps a request waiting for ever. In
`AuthSessions` it covers requests from the point where their ids are drawn (`rotate` on), because a request that finds no unused id in the
bounded instance cannot go on. In `CandidateMedia` a request that commits a creation always finds a candidate id, by `CandidatesLeft`;
its liveness holds with every fault switched on, since a fault ends a request or sends it to its last step.

In `WorldCupRemoval`, `Step(r)` contains `BreakCircle(r)`: PostgreSQL looks for a circle after `deadlock_timeout` and
aborts one of its transactions. A removal does close circles with saves (it deletes candidates in another order than a save
refers to them) and with replacements (media row and candidate row), so that without the detector
requests would wait for ever. Deleting an object ends because the attempts are bounded, not because the bucket ever
answers well: a deletion may fail every time. `GameRounds` states no fairness; a player may stop at any moment.

## Proofs

All theorems hold for every value of the constants that satisfies the named assumptions: sentinels are not members of
the sets they stand beside (`SentinelAssumption`, `KeysAssumption`, `CupAssumption`), `MaxBatch` is a positive
number, validated bodies have distinct ranks and distinct candidates and finitely many placements (`ResultsAssumption`, which is what
`ClearWorldCupDto` enforces), candidates of a ranking are finitely many numbers and their scores natural numbers, 0 among them, `STORAGE_DELETE_ATTEMPTS`
is positive (`BoundsAssumption`), supported rounds are halved down to 2 within the set (`RoundsAssumption`, true of
`SUPPORTED_ROUNDS`), candidates of a draft are finitely many. A theorem named `TypeCorrect` in each proof module is the type invariant.

Each proof module has the same plan: an inductive invariant `IInv`, `Init => IInv`, one lemma or step per action for
`IInv /\ [Next]_vars => IInv'`, and the temporal conclusions.

* `AuthSessionsProofs`. `OneLiveSessionPerFamily` is not inductive: a commit adds a live row, and what saves it is that the open
  transaction holds the lock of the family's live row (`RowLocks`), that the drawn id has no row (`DrawnIds`), that
  the presented token has one (`StoredTokens`) and that a revocation writes rows of its own family only
  (`Snapshots`). `RequestsAndRowsAgree` is their conjunction. A step that moves one request and leaves the table alone
  is settled by one lemma (`MoveKeepsInvariant`) and the three that write rows by one each. From it follow `TypeCorrect`,
  `Agreement`, `OneLiveSession`, `RedeemedOnce`, `TokensStored`, the action property `ClosedForever` and
  `Refinement`: `CreateSession` maps to `Open`, `CommitRotation` to `Rotate`, `RevokeFamily` to `Close` or to a stutter, all others to a stutter.
* `GameResultsProofs`. `SaveInvariant`: an uncommitted insert is the only one of its key and no play is stored under
  it, nor is its world cup removed; a request about to answer "saved" asked for what is stored, unless the world cup has gone since. Theorems
  `Idempotency`, `NeverRewritten`, and `OwnCandidates` for `PlacedInOwnCup`, which is part of the invariant. `Refinement`
  needs it too: `Commit` is a `Store` because the key is free until then, `Respond` tells the truth because the
  play is still the one compared or inserted, or went with its world cup; nothing is left of a removed world cup (`NothingLeft`).
* `CandidateOrderProofs`. `OpenTransactions` with `NumberedWithoutGaps`: the holder of a lock is alone, its inserted
  rows continue the committed ones. Theorems `NoGaps`, `InsertsSucceed` and `AlwaysAppended`. `Refinement` adds `Batches`: the rows of a
  world cup are numbered up to some n, and an inserting request's next number is n plus what it has inserted, whose sum with what is
  left stays the size of its batch. The lemmas on `InOrder` say that rows so numbered are a sequence, that numbers from n on append to
  it, and that nothing else changes it; `Fail` is a `Refuse` because the rows of an open transaction are in no list.
* `CandidateMediaProofs`. `DeletionsAreSafe`: keys are known, one row per key, and every pending upload or deletion concerns a
  key that no row and no other request has. The one exception is a key in `unclear`, whose request is
  at its deletion. Theorems `NoBrokenImages` and `DeletesOnlyUnused`, for every choice of operations and faults.
  `VideosKeepOff` rests on a second invariant (`EditInv`): an `updateOne` at its commit holds the row of a candidate that is not deleted.
  `Refinement` rests on the first: a key at its commit is in the bucket and in no row, so that it becomes visible with the row and not before;
  a deletion touches an image that is seen only if its COMMIT was unclear.
* `RankingsProofs`. The loop invariant `RanksSoFar` (`RanksAreRight`) speaks of positions in the sorted list;
  `CompetitionRanking` counts candidates with more points. `PositionsBefore` joins the two: the sorted list is a bijection, so those
  above the first of a tie are as many as its position says. `ListsOnlyRead`: every behaviour with lists is one of `CandidateOrder`, so that the
  theorems of `CandidateOrderProofs` hold beside them.
* `CommentsProofs`. `RemovedOnce` follows from an invariant that ties the count of 204 answers to `deletedAt`: none for a comment that is
  not removed, at most one for one that is. `AuthorsRemove` needs that a
  request at its update is of a member. `Refinement` needs that a request to write at its insert has passed both reads, and the count of answers for `Tell`.
* `WorldCupRemovalProofs`. Nothing the runs check is inductive alone. `IInv` adds, per request, that an upload is in no
  row yet and in the bucket (`UploadOK`), that the key a replacement read is in no other row (`OldOK`), what its row locks keep
  (`CupOK`: the world cup while an insert refers to it, the candidates a save refers to), and that what a removal has read
  is still so but for late candidates (`RemovalOK`); and for two requests, that their keys differ and that their locks exclude
  each other (`Apart`). Steps that only move one request are settled by `GoesOn`, ends by `Ends`, rollbacks by
  `AbortInvariant`; the four commits have a lemma each. `CirclesHaveRemovals` is an argument on the lock order: without a removal a
  replacement may wait for one that holds the media row and waits for the candidate row, whose holder is at its commit.
  `Refinement` adds `SaveRows`: open saves have different rows, none of them committed, and candidates they refer to, or will, so that what is asked of a row changes only
  with its own request; and `ImagesSeen`, which `IInv` implies: the key of every row is in the bucket, so that no upload or deletion of an
  object is seen by anybody. `WorkRunsOut` proves `WorkEnds`: `StepsLeft` falls with every step of a request that is under way, whatever the others do, and
  is positive until its answer (`LeftIsPositive`). What a statement has still to visit is bounded by the images (`Counted`), the tries by
  `Attempts` for each object; `Tried` says that an unfinished count of attempts belongs to an object still to be deleted.
  With `OnlyRemovalsDeadlock` it is the part of `RequestsFinish` that can be proved: a request makes finitely many steps, and waits in a circle only with a
  removal, which `BreakCircle` ends. That it is scheduled is the fairness that TLC assumes.
* `GameRoundsProofs`. `OfferedAreAttributed` needs that a publication at its check or update has attributed photos, but for late ones, in what
  it read; `RoundsComplete` that the answers of a round are disjoint slices of equal size, none of them a loser; `RefusedOnlyIfWithdrawn`
  that as long as nothing is withdrawn there are as many offered candidates left as the rest of the round wants, through halving
  and slicing; `WinnersGoOn` that without others every offered candidate is a winner or excluded. `Refinement` rests on `Whole`, the sum of these
  at the last slice (as many as the round, no loser, all of the winners: a set of winners as large as theirs), and on `Forgotten`: a game that is
  over has no history, without which an edit between two games would be a step of the next.

Only model-checked: liveness (TLAPS does not prove fairness or ENABLED), that is `SavesFinish` and the three
`RequestsFinish`. Every other property of a passing run is a theorem. Five theorems state what no run checks any more, since a
refinement in its run says more: `ClosedForever` (`ClosedFamilyStaysClosed`), `NeverRewritten` (`SavedForGood`), `AlwaysAppended`
(`AppendedAtTheEnd`), `AuthorsRemove` (`RemovedByAuthor`) and `CompleteRounds` (`RoundsComplete`).

## What the runs found

Five runs end in a counterexample; each contradicts a sentence of the repository's documents.

* `AuthSessionsSignOutRace`. A refresh has revoked its row and inserted the successor in an open transaction; the sign-out's UPDATE
  sees the old row only, waits for it, finds it revoked, changes nothing and answers 204; the successor is committed
  and usable. The reuse detection of `refresh` calls the same `revokeFamily` and has the same gap.
* `GameResultsDeletionRace`. A candidate deleted after `candidate.findMany` and before the insert is placed in a new result, against
  `CANDIDATE_DELETION_POLICY.md:48` and its section 8.
* `CommentsDeletionRace`. Comment creation has the same check-then-act form: a candidate deleted between `candidate.findFirst` and
  `comment.create` gets the comment. `CANDIDATE_DELETION_POLICY.md:55` (also :11 and :80) and `HANDOFF.md:158` forbid it.
* `CandidateMediaDeletionRace`. `updateStaticImage` finds the candidate active and then updates media row and candidate by their ids alone
  (`manage-world-cup-contents.service.ts:165`, `:185`). A deletion committed in between is ignored: the deleted candidate gets the new image,
  or the new name, and the edit is answered as saved. `CANDIDATE_DELETION_POLICY.md:131-132` wants the last update to test `deletedAt`
  again, and the edit to fail and its media change to roll back. `updateOne` does so: `VideosSpareDeleted` holds and is proved.
* `CandidateMediaReplaceRace`. Two replacements of one image both read the same old key before their transactions; the one that commits
  second leaves the other's upload in the bucket for ever. The run uses creations and replacements without faults only: a failed
  upload or deletion, a stop, and `updateOne` over an image leave objects behind by design of the code.

Beside them, the properties that hold name as exceptions what the code does not promise. They do not catch these cases; they say that nothing
else goes wrong:

* `ObjectsAccounted` needs `late`: `remove` of a world cup reads the media ids first (HANDOFF.md:345-352 describes the order), and a
  candidate committed between that read and the deletion of the world cup goes by CASCADE, while its media row and its object stay with
  nobody to delete them. It needs `abandoned` for deletions given up after three tries, a stop before the clean-up, and two
  overlapping replacements.
* `OfferedAreAttributed` needs `late`: a candidate that the owner adds, or whose photo he replaces, between the check and the update of
  `publishAutomationDraft` is published unchecked, because the update names the world cup and not the candidates that were checked; and an attribution that
  was found before its photo was replaced is saved on the new image. A video set by `updateOne` keeps the photo's attribution
  (HANDOFF.md:302 speaks of resetting it when the image is replaced).
* `WinnersGoOn` needs `spare`: `findContents` draws every round from all that is not excluded, and the client excludes losers. In a world cup
  with more candidates than the round has, a later round may hold a candidate that was never drawn in place of a winner. The test
  "excludes eliminated candidates when loading the next round" (`world-cups.service.spec.ts:250`) has no such candidate.

Not a contradiction but worth knowing: with `unclearCommit`, the error path of `createStaticImage` and `updateStaticImage`
deletes the object that the database has just been told about. `LiveKeysStored` and its theorem say that this is the only way to a broken image.

## Not modelled

* Sign-up: one INSERT decides by the two unique keys; nothing is read before it. The member's summary, lists and details of world
  cups, comments and candidates are single reads, and their cursor and sort options are data.
* Password hashing, token signatures and request validation are pure; what validation guarantees is an assumption on constants.
* `MediaFilesService` answers an object or 404 and changes nothing; health checks, configuration, bootstrap, the error filter and the
  response shape have no state.
* `createDraft` of the automation and `create` of world cups are one INSERT each: the first state of `DraftPublishing` and `WorldCupRemoval`.
  `AutomationGuard` compares a constant.
* Seed and migrations run outside of the service; the keys and columns they create are assumed by the modules. Deployment files are declarative.
* Prisma and the S3 client are external; the modules take from them the isolation level, row locks, foreign keys,
  unique keys, the deadlock detector, and that a call succeeds, fails, or succeeds without saying so. Prisma's interactive transaction timeout is
  `Fail`.

## Plan

Done, in this order: sessions with their refinement; game results; numbering; media; comments and rankings; the removal
of a world cup in composition with what writes below it; drafts and their publication in composition with games in progress;
the store that `GameResults` implements; a theorem for every safety property of every passing run; the abstract list, stores, wall of comments and tournament
with the proofs that numbering, removal, media, comments and games implement them; the bounded work of a removal.

What would add most next, by weight:

1. The composition of the faults of `CandidateMedia` with `WorldCupRemoval` (lost COMMIT answers during a removal).
2. Games of eight candidates and more: the theorems cover every size, the run has four.

## How to run

    tlasany AuthSessions.tla
    tlc -workers 2 -config AuthSessions.cfg MCAuthSessions
    tlapm AuthSessionsProofs.tla

`PROJECT.json` lists the runs with their modules and expected outcomes, the variants with the properties that notice
them, the source lines of every definition, the hazards and the theorems.
