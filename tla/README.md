# battle-go-api: specification, model checking and proofs

battle-go-api runs quiz battles between students: one process (`cmd/api`) serves
requests, another (`cmd/worker`) kicks students who do not confirm and ends
battles. Both work on the same tables in PostgreSQL, without transactions and
without locks: every repository method is one SQL statement, and every handler
and daemon is a sequence of such statements over *copies* of rows. Almost
everything that can go wrong in this program goes wrong between two of those
statements, so that is what is modelled first; next to it stand the three parts that
have difficulties of their own: the WebSocket hub, the deadlines of a battle, and the
drawing and judging of its questions.

Contents: [inventory](#1-inventory) · [modules](#2-modules) ·
[properties](#3-properties) · [runs](#4-runs-and-their-bounds) ·
[disagreements](#5-where-code-and-documents-disagree) · [fairness](#6-fairness) ·
[proofs](#7-proofs) · [not modelled](#8-what-is-not-modelled) ·
[plan](#9-plan)

## 1. Inventory

| Part | Source | State | Operations | Model |
|---|---|---|---|---|
| Domain model, battle rules | `internal/models`, `internal/battle` | none | kick, idle, answer, blank-fill, ranking rules | `BattleModels`, with the content of questions in `QuizRules` and times in `BattleClock` |
| Live battles | `internal/db/postgres` | tables `battles`, `battle_members` | one statement per repository method | `PgStore` |
| Final results | `internal/db/mysql/result_writer.go` | tables `battle`, `battle_member`, `student_battle` | upsert battle, update or insert member, count win/loss | `ResultStore` |
| Request handlers | `internal/service` | none of their own; local copies of rows | find, confirm, answer, leave, change-type (view only reads) | `BattleApi` |
| Worker | `cmd/worker/main.go`, `internal/service/end_battle.go` | the list each pass works through | kick loop; end loop with three passes | `BattleWorker` |
| Whole system | `cmd/api`, `cmd/worker` | all of the above | everything interleaved, with failures and crashes | `BattleSystem` |
| Documented lifecycle | `docs/BATTLE_API.md`, `docs/ADR.md` | phase, lobby, questions, results of a battle | open, join, close, start, finish, record, ... | `BattleLifecycle` |
| Question reader | `internal/db/mysql/question_reader.go` | words and units drawn so far | template, exercises, vocabulary draw | `BattleQuiz` |
| Realtime over WebSocket | `internal/realtime/ws.go`, `service/realtime.go` | the hub's map, a channel per connection, the LISTEN connection | publish, listen, broadcast, subscribe, unsubscribe, write | `RealtimeHub` |
| Realtime over Ably | `internal/realtime/ably.go` | none | publish, token | `RealtimeHub` (Ably is external) |
| Student reader | `internal/db/mysql/student_reader.go` | none | student, testing users, battles finished today | constants of `BattleApi`, `FinishedBattlesOf` |
| Profile reader, view service | `profile_reader.go`, `service/view.go` | none | reads for responses | not modelled |
| HTTP, JWT, configuration, fakes | `internal/handler`, `internal/auth`, `internal/config`, `*/fake` | none | binding, responses, tokens | request kinds only |

How they interact. A student's `find` joins a WAITING battle or creates one; the
call that fills the lobby moves it to ON_QUEUE with `expire_time` 20 seconds
ahead. Each student confirms; the confirm that counts everyone CONFIRMED draws
questions and moves the battle to ON_GOING with `end_time`. Answers go to the
student's member row. Every 5 seconds the kick loop takes ON_QUEUE battles past
`expire_time`, deletes the unconfirmed members and resets the battle to WAITING
(or deletes it). Every 3 seconds the end loop ends battles past `end_time`, fills
blanks for idle members, and ends battles all of whose members finished. Ending
writes PostgreSQL first and then MySQL, which no other part writes. AI battles are
created ON_GOING at once, with a testing user as opponent.

Handlers and worker publish what they did. With the `ws` driver that is a
`pg_notify`; one goroutine of the API LISTENs, and broadcasts each notification
under a read lock into the bounded channels of the battle's connections, from which
a goroutine per connection writes. With `ably` it is a call of an external service.
Errors of publishing are ignored everywhere.

What is hard (the full list, with the line each bites at, is `hazards` in
`PROJECT.json`):

* **Stale whole-row saves.** `battles.Save` and `members.Save` write back every
  column of a copy read earlier (`battle_repo.go:120`, `member_repo.go:90`). A kick
  reset can undo a start, an answer in flight can wipe a result.
* **Check, then act.** Joining, filling a lobby, counting confirmations and drawing a
  bot are each several statements. Only the unique index and the foreign key of
  `battle_members` are enforced by the database.
* **No status check in confirm** (`confirm.go:66`): it starts whatever battle has
  enough confirmed members, including one that is ON_GOING or FINISHED.
* **Two stores, no transaction.** EndBattle finishes the battle in PostgreSQL before
  MySQL has its results, and counts wins and losses by increment.
* **Progress by timestamps.** A daemon finds a row only by status *and* a time
  column; a row with the status and without the time is stuck for good.
* **Errors that are only logged.** The kick loop goes on past failed deletes.
* **A lock, channels and clients that stop reading.** `unsubscribe` closes a channel that
  a broadcast may be about to send on, and a broadcast must not wait for the slowest
  client (`ws.go:216-239`).
* **Three deadlines that must fit.** `end_time`, the idle timeout and the worker's period
  decide whether a student has the time the question promises (`daemon.go:66-102`).
* **Counting instead of comparing.** An answer is judged by the number of matching
  pairs, a member is finished by the number of answers, bonuses are keyed by a
  question's text, and the draw may return one word twice.

What makes each part correct: the tables hold a student once per battle and no
member without a battle; a status always comes with the time its daemon needs; a
lobby leaves ON_QUEUE, a started battle ends, its results arrive; MySQL holds
nothing of a battle that is not FINISHED, counts nothing twice and nothing it has
not stored; a member finishes exactly when every question is answered. A connection
is in the hub while it is served and never after its channel is closed, and its client
sees the battle's events in order. Who keeps to the question time is never cut
off, who does not play holds nobody up. A right answer is judged right, and points go to
whom the rules say.

## 2. Modules

```
BattleModels ──┬─ PgStore ───┬─ BattleApi ────┐
               └─ ResultStore┴─ BattleWorker ─┴─ BattleSystem ─ BattleRefinement ─ MCBattleSystem
                                                    │                 │
                                           BattleSystemProofs    BattleLifecycle
                                                    │
                      TimerProofs ─ ResultProofs ─ AIBattleProofs ─ SerialProofs (with BattleRefinement)

BattleModels ─ BattleClock ─┬─ MCBattleClock        RealtimeHub ─┬─ MCRealtimeHub
                            └─ BattleClockProofs                 └─ RealtimeHubProofs

QuizRules ─ BattleQuiz ─┬─ MCBattleQuiz      (BattleQuiz instantiates BattleModels)
                        └─ QuizProofs
```

* **`BattleModels`**: rows, statuses, and the pure rules. Data the properties do not
  tell apart is abstracted: a question is an element of `QuestionSets`' members, an
  answer is its question and whether it was right, a timestamp is whether it is
  NULL. `start_time`, `end_time` and `questions` are assigned together and only in
  `startBattle`, so `questions = {}` stands for all three unset; `place` and
  `points` are assigned together and `place = 0` is NULL. Ties in the ranking are
  broken by answer times, so `RankedMembers` allows either order.
* **`PgStore`**: a table is the set of its rows. `SaveBattle(b)` overwrites the row
  with `b`'s id by the copy `b`, except for the columns the UPDATE leaves out
  (`type` of a battle; student, battle and type of a member). `DeleteBattle`
  includes the cascade. `Insertable` is the foreign key and the unique index.
* **`ResultStore`**: the three MySQL tables. The member INSERT that selects the
  battle by uuid inserts nothing when there is no such battle.
* **`BattleApi`**: one process per request in flight. `handler[h].at` is the next
  repository call, `b`, `m` and `ms` are the copies the Go code holds in locals of
  those names, and each action is one call with everything the code does before
  the next one. `told` records which responses carried which battle's uuid: uuids
  are random, so a student can name only a battle it was told of. `Budget` bounds
  the requests of each kind. `Abort` is a failed call or a crash of the API.
* **`BattleWorker`**: two processes, `kicker` and `ender`, again one action per call.
  Which rows are past their time is the clock's choice: a scan returns any subset of
  the rows whose time column is set. A pass without work does nothing, so the ender
  may begin a tick at the first pass that has some. `KickError` and `EndError` are
  the error branches, `WorkerCrash` the death and restart of the process.
* **`BattleSystem`**: the composition and the properties. Three constants select what a
  run looks at: `Loops` (worker loops that are up), `Exclusive` (a request or tick
  starts only when nothing else is running), `Faults` (calls fail and processes
  crash).
* **`BattleLifecycle`**: what the documents promise about one battle, without tables,
  handlers or daemons. **`BattleRefinement`** reads a state of the system as a state
  of it: the row's status gives the phase (an ON_GOING row without questions is
  still being set up), member rows the lobby, `battle_member` rows the recorded
  results.
* **`RealtimeHub`**: publishers, the notifications under way, the listener, the hub's
  map, and for each connection its handler, its channel, its writer and its client. A
  publish call emits its events one by one. `listener.at = "broadcast"` is the time
  the read lock is held; `subscribe` and `unsubscribe` need it free. A message is
  offered to a channel or dropped, a writer takes it, writes it or fails. `lost` and
  `missed` record where the code drops events. The Ably driver shares the
  publishers; its service delivers what it accepts.
* **`BattleClock`**: the rules of `BattleModels` with the times that the other modules
  leave open: `StartBattle` computes `start_time` and `end_time`, `AnswerQuestion` sets
  `last_question_at`, and `Tick` is the end loop with its three passes. Handlers and
  ticks are atomic, take no time and share one clock, and ticks come at most `Period`
  apart: the module asks only whether the deadlines fit each other.
* **`QuizRules`**: what `BattleModels` abstracts of `internal/battle`, without state: matching
  values with alternatives, answers as sequences with times, bonuses, the order of
  placement. What the code computes in a loop is stated by counting (the k-th open
  question is the one with `k - 1` open ones before it, a total time the number of its
  ticks), which says the same and can be proved about. **`BattleQuiz`**: one battle from
  the draw of its questions, call by call of the reader, over the answers to the results; and, through an instance of
  `BattleModels`, that its results are ones the worker of `BattleSystem` may write.
* **`MCBattleSystem`, `MCRealtimeHub`, `MCBattleClock`, `MCBattleQuiz`**: values for the
  constants.
* **`BattleSystemProofs`, `TimerProofs`, `ResultProofs`, `AIBattleProofs`, `SerialProofs`,
  `RealtimeHubProofs`, `BattleClockProofs`, `QuizProofs`**: section 7.

A few definitions stand before the one they vary (`OnQueueUntimed`, `FinishOnly`,
`SqlSaveBattleSkipped`, ...). They are plausible bugs of that definition, used to
see that a property notices them (`mutants` in `PROJECT.json`); no action uses them.

Two places where the model says less than the source needs a reason:

* `FindWaiting` never returns an AI battle, because AI battles are created ON_GOING
  and a kick deletes them. This is the third conjunct of `RowIsTimed` and is
  proved, so joining an existing AI battle (`find.go:89-94`) is left out.
* The idle pass takes `now` once and loads each battle's members later. The model
  fixes the set of idle rows at the scan and rechecks them at the load; a member who
  joined in between is seen by the next tick.

## 3. Properties

| Property | Says |
|---|---|
| `TypeOK` | every variable has its type |
| `StatusTimers` | an ON_QUEUE row has `expire_time`, a started P2P/GROUP row its questions and `end_time`, whatever stale copies are saved over it |
| `UniqueMembership` | a student is in a battle once, though exists-check and insert are two statements |
| `NoOrphans` | a member row has its battle, though kick and leave delete in two statements |
| `OneAnswerPerQuestion` | a member answers a question once, however answers, blanks and retries overlap |
| `FinishedIffComplete` | a member of a started battle is finished exactly when all questions are answered |
| `FinishedMembersStay` | a finished member stays finished, with its answers |
| `SqlOnlyWhenFinished` | MySQL has a battle only once PostgreSQL has it FINISHED |
| `CountedResultsAreStored` | a win or loss counted is backed by a stored result |
| `EachBattleCountedOnce` | a battle is counted once per member |
| `FinishedBattlesAreRanked` | a FINISHED battle the worker is through with has every member finished and placed |
| `StoredResultsAgree` | place, points and answers in MySQL are those in PostgreSQL |
| `ImplementsLifecycle` | the system implements `BattleLifecycle` |
| `QueueResolves`, `PlayedBattlesEnd`, `ResultsArrive` | progress: ON_QUEUE is left, a started battle ends, its results reach MySQL for every member |
| `DemoLimitStops` | a demo student with the day's battles played gets into no other one as a player, while no find overlaps an end |
| `QuestionsFrozen`, `BotsOnlyInAIBattles` | promises of the documents the code breaks, section 5 |
| **`RealtimeHub`** | |
| `NoPanic` | no goroutine sends on a closed channel or closes one twice |
| `HubMatchesConnections` | the hub's map holds exactly the connections being served |
| `InOrder` | a client gets its battle's events only, in order, none twice, and nothing pending overtakes them |
| `NothingVanishes` | an event since the client subscribed is received, under way, or was dropped in one of the two places that drop |
| `BroadcastEnds`, `EventsArrive`, `GoneIsForgotten` | progress: no client holds a broadcast up, events reach who reads, a client that has gone leaves the hub and its goroutines end |
| **`BattleClock`** | |
| `EndsInTime`, `IdleInTime` | a battle is over a period after `end_time`, an idle member finished a period after its timeout |
| `PunctualNeverBlanked` | who spends at most the question time per question is never blanked |
| `PlayedIsNotDeleted` | what `ShouldDeleteAIBattle` deletes was not played in time |
| **`BattleQuiz`** | |
| `DrawEnds` | the draw ends, whatever the packs hold |
| `VocabularyIsSound` | a vocabulary question has one right alternative, its word's other side, and nothing else of that word |
| `AnswersFit` | no more answers than questions, and finished means answered, also when a word was drawn twice |
| `CorrectMeansAllRight` | counting matching pairs judges an answer to the first question with its id as comparing would, whatever values a client sends, if the right alternatives differ |
| `BonusGoesToTheFastest`, `RewardsAreEarned` | bonuses go to the fastest right answers, a reward to who has the most right answers, and never with more of them wrong than right |
| `ResultsRefineModels` | placement by answers, time and id is one `BattleModels` allows |

## 4. Runs and their bounds

Deadlock is not checked in any run: when all requests of the budget are spent and no
daemon has work, when the clock has reached its bound, when a battle has its results
or every client has gone, the system is at rest.

| Run | System | Shows | Distinct states |
|---|---|---|---|
| `lobby` | 2 concurrent handlers + kick loop, faults; 2 students of different levels, 2 finds, 1 confirm, 1 leave, 1 change-type, questions or none | `StatusTimers`, `UniqueMembership`, `NoOrphans` | 755,200 |
| `ai` | 2 concurrent handlers + end loop, faults; an AI battle of 2 questions, 2 answers, 1 leave | `EachBattleCountedOnce`, `SqlOnlyWhenFinished`, `FinishedIffComplete`, `OneAnswerPerQuestion` | 81,910 |
| `serial` | both loops, nothing overlaps, confirms only for ON_QUEUE battles; P2P, GROUP and AI, one of the students and the bot are demo students with a limit of 1, 2 finds, 2 confirms, 2 answers, 1 leave, 1 change-type, question sets of 1 and 2 | `TypeOK`, `ImplementsLifecycle`, `FinishedMembersStay`, `FinishedBattlesAreRanked`, `StoredResultsAgree`, `EachBattleCountedOnce`, `DemoLimitStops` | 921,000 |
| `live` | 1 handler + both loops overlapping, fair; 2 finds, 2 confirms, 1 leave, questions or none | `QueueResolves`, `PlayedBattlesEnd` | 202,678 |
| `results` | 2 concurrent handlers + end loop, fair; 2 finds, 2 confirms at any time | `ResultsArrive`, `CountedResultsAreStored` | 36,945 |
| `hub` | 2 connections of one battle that come, stop reading, go and come back; channels of 1 message; one publish call of up to 3 events, of this battle or another; both drivers, failing publishes, writes and LISTEN | the `RealtimeHub` properties, fair | 341,000 |
| `clock` | unit 5s: question time 3, start delay 2, ticks at most 1 apart, up to time 14; P2P of two or AI; 1 or 2 questions or none; up to 2 starts | the `BattleClock` properties | 1,754,113 |
| `quiz` | 2 members; 2 words with one translation, a unit with too few words, one with a word in two of its packs, an empty one; a template, an exercise question with two gaps that its join returns twice; 5 submissions (nothing, one value, two in another spelling, three with one repeated); answer times 1 and 2, a blank's is 3 | the `BattleQuiz` properties | 882,280 |

Why the bounds suffice. The races of `BattleSystem` are between two or three processes over one
battle, each with at most a dozen calls: two handlers and a loop cover every
pairwise interleaving, and a second find or confirm is what makes a lobby fill, a
start repeat or a uniqueness check race. Two students fill a P2P lobby; a GROUP lobby
that two students cannot fill is still opened, converted, left and kicked. A
question set of two tells "some answered" from "all answered", sets of different
size tell one draw from another. Symmetry sets permute handlers and equal students,
and are not used where liveness is checked or a student is set apart.

In `hub` the two connections compete for one broadcast, which is the only thing shared;
a buffer of one is full after one message, and three events in one call are one
buffered, one in the writer and one dropped. In `clock`, 14 units are past every
deadline of a battle of two questions started once (`end_time` is 9 after the start,
the idle timeout 6), with room for a start that comes late or again; the worker's three
seconds are rounded up to a unit. In `quiz`, equal translations, the repeated word, the
empty unit and the one that needs another to fill up are the cases the draw could get wrong. A question
with two gaps is the smallest where pairs can be miscounted; the submissions are right, wrong, too
few and too many for it, and right and wrong for each word. Two answer times give both orders
and a tie.
The rewards of six or more members (three of them paid) are beyond this instance.

Where a run narrows the system, the narrowing is what the property needs, and the
disagreements of section 5 are what happens without it:

* `serial` excludes overlap and late confirms, because with them the lifecycle is
  broken (`frozen`, `unranked`, and the overfull and reopened lobbies of section 5):
  it shows that the handlers and the worker are right *one at a time*, so those are
  purely races. Its question sets are not empty: a reader that finds nothing breaks the
  lifecycle without a race (section 5).
* `results` leaves the kick loop out and faults off. With faults the property fails
  (`lost_results`). With the kick loop beside it, it fails too: a kick that
  loaded its members before the last confirm deletes a member of the battle
  that confirm started, and EndBattle gives up at that member's `ErrNotFound`
  (`end_battle.go:56-59`), after FINISHED is saved and before MySQL is written.
  `CountedResultsAreStored` stands in this run because here a battle may end twice and be
  counted twice, and still every count must have its row; `ai`, without a second end, has the
  stronger `EachBattleCountedOnce`.
* `ai` has no confirm: one sent for an AI battle restarts it (the missing status
  check again), and its second end would be counted a second time.

## 5. Where code and documents disagree

Each is a run that TLC ends with a counterexample; the quoted lines are in
`findings` of `PROJECT.json`.

| Run | Property | What happens |
|---|---|---|
| `frozen` | `QuestionsFrozen` | Two last confirms save before either counts; both start the battle, with different questions (`confirm.go:72`). |
| `bot_in_p2p` | `BotsOnlyInAIBattles` | change-type's new type is never saved (`battle_repo.go:126`): a P2P battle with a bot. |
| `lost_results` | `ResultsArrive` | A crash or error after FINISHED is saved: results never reach MySQL (`end_battle.go:64`). |
| `unranked` | `FinishedBattlesAreRanked` | An answer in flight when the battle ends puts `place` and `points` back to NULL (`member_repo.go:96`). |

Other behaviours of the model that differ from what a document says, without a run of
their own:

* Two finds may take the last place of one lobby (`find.go:84`); the third student of
  the P2P battle plays on.
* A kick reset, saved from an ON_QUEUE copy, may land after the last confirm: the
  battle goes from ON_GOING back to WAITING (`main.go:156`), and the next start gives
  it new questions.
* A lobby in which everybody confirmed and for which no questions are found stays ON_QUEUE
  (`confirm.go:90`). When its time is up nobody is left to kick, so the kick pass sets it to
  WAITING with every place taken (`main.go:154`), and the next find enters it: three students in a
  P2P battle, with no two requests overlapping. TLC finds this with `MaybeNone` for the question
  sets of `serial` and a third student; it is why the refinement theorem needs `QuestionsFound`.
* An AI battle for which no questions are found stays ON_GOING without `end_time`
  (`find.go:178`); no pass of the worker ends it.
* "AI exception: if student never played, delete battle" (`main.go:194`; `daemon.go:38-39` says the
  same) is what happens only to battles of one question. With two or more, the idle pass answers
  for the student before `end_time`, `current_question` is no longer 1, and the battle ends as a
  loss. No property takes either for the rule: `PlayedIsNotDeleted` is about the other direction,
  that what was played is not deleted.
* ">50% wrong" loses the reward in a comment and three documents (`result.go:65`, `docs/ADR.md:169`,
  `docs/BATTLE_API.md:325`, `docs/BATTLE_PRESENTATION.md:140`); the code takes half for enough
  (`result.go:87`). `RewardsAreEarned` leaves exactly half open and holds under both rules.
* Right alternatives of one question that are equal but for spelling are counted once each
  (`answer.go:63`): of "is" and "IS", the value "is" alone is judged wrong, and "is" with a wrong
  value right. `CorrectMeansAllRight` excludes such questions; nothing in the source says whether
  the content has any.
* A demo student who is also a testing user may be drawn as a bot past its limit
  (`student_reader.go:49`), and each such battle counts against the limit.
* The kick daemon deletes a battle without an event for it; its clients learn of that
  from the next view.

## 6. Fairness

`BattleSystem!FairSpec` asks for four things, none of a client: requests need not be sent.

* `WF_vars(Handle(h))`: a request that was accepted runs on, as a goroutine does.
* `WF_vars(Kick)`, `WF_vars(End)`: each loop is `for { ...; time.Sleep }` and ticks for
  ever; and while a row has its time column set, that time comes, so a scan that can
  return a row does so in the end.
* `SF_vars(ScanExpired /\ End)`: every tick of the end loop begins with the query for
  `end_time < NOW()`, so ticks with other work do not pass it over for ever. Strong
  fairness, because the query is one step of a loop and not enabled between ticks.

Nothing asks that a failed call succeeds later, and with `Faults` set crashes are
never excluded.

`RealtimeHub!FairSpec` asks that goroutines run on: `WF_vars(Broadcast)`,
`WF_vars(WriterStep(c))`, and `WF_vars(Unsubscribe(c))`, which includes that a handler
waiting for the lock gets it (Go's `RWMutex` lets a waiting writer in before new
readers). It asks nothing of clients, publishers or the network: a writer whose client
does not read has `WriteFails`, the ten-second timeout, as its other way out.
`BattleQuiz!Spec` has `WF_vars(Draw)`, the request that draws running on. `BattleClock`
has safety properties only: its clock does not pass the next tick, so a deadline
missed is a state.

## 7. Proofs

TLAPS checks the theorems about `BattleSystem` for every number of students, handlers,
requests, battles and questions, with any overlap, failing calls and crashes; those about
`RealtimeHub` for every number of battles, connections and publishers and every buffer
size; those about `BattleClock` for every question time, period and number of questions
and members; those about `BattleQuiz` for all packs, templates, members, submitted values and answer times.

The assumptions are the named `ASSUME`s of the modules: `NoStudent` is not a student,
levels are natural numbers, the questions are a finite set, budgets are natural numbers,
and the switches have the values their comments say; `RealtimeAssumption`, that a channel
holds at least one message and every connection watches a battle; `TimesAssumption`, that
the delay before `start_time` (10s) is at most one question time (15s); `QuizAssumption`,
that words and questions have their types, the counts the reader asks for are positive,
and no text of a question is spelled like the text of a blank answer, `(no answer)`,
which would make a blank a right answer.

Five hypotheses stand in the theorems that need them:

* `NoConfirms`, in `AIBattleProofs`: the budget of confirms is 0, as in the run `ai`. A
  confirm starts a battle from the copy it read before, and brings a FINISHED one back
  to ON_GOING (section 5); the three properties are false with it. Everything else may
  happen: lobbies fill, expire, are left and change type next to the AI battles.
* `OneAtATime`, in `SerialProofs`: requests and ticks do not overlap (`Exclusive`), calls do
  not fail, and clients confirm only battles they see ON_QUEUE (`Documented`), as in the run
  `serial`. All battle types and all requests are there, confirms included. Without it
  the properties are false (`frozen`, `unranked`, section 5); with it they hold, so it is
  the overlap that breaks them and no single handler. `DemoLimitHolds` and `OneProcessAtWork` need
  `Exclusive` alone.
* `QuestionsFound`, next to `OneAtATime` in the refinement: the question reader never comes back
  with nothing (`{} \notin QuestionSets`), as in the run `serial`. Without it a lobby that everybody
  confirmed is reopened full, and a third student enters a P2P battle without any overlap
  (section 5).
* `TickFits`, in `BattleClockProofs`: `Period <= QuestionTime - StartDelay` (3s and
  15s - 10s). It is tight: with a period of 2, a question time of 3 and a delay of 2 TLC
  finds an answered battle deleted.
* `FewMembers`, in `QuizProofs`: a battle has one to five members (two or four,
  `models/battle.go:62`). From six on, several members get points.

| Theorem | States |
|---|---|
| `BattleSystemProofs!TypeCorrect` | `Spec => []TypeOK` |
| `BattleSystemProofs!MembershipIsUnique` | `Spec => []UniqueMembership` |
| `BattleSystemProofs!MembersHaveBattles` | `Spec => []NoOrphans` |
| `TimerProofs!CopiesAreSound` | `Spec => []SoundCopies` |
| `TimerProofs!TimersAreSet` | `Spec => []StatusTimers` |
| `ResultProofs!AnswersAreSingle` | `Spec => []OneAnswerPerQuestion` |
| `ResultProofs!CountsAreBacked` | `Spec => []CountedResultsAreStored` |
| `AIBattleProofs!CopiesFit` | `NoConfirms /\ Spec => []FitCopies` |
| `AIBattleProofs!StoredBattlesAreFinished` | `NoConfirms /\ Spec => []SqlOnlyWhenFinished` |
| `AIBattleProofs!FinishedMembersAreComplete` | `NoConfirms /\ Spec => []FinishedIffComplete` |
| `AIBattleProofs!BattlesAreCountedOnce` | `NoConfirms /\ Spec => []EachBattleCountedOnce` |
| `SerialProofs!OneProcessAtWork` | `Exclusive /\ Spec => []Alone` |
| `SerialProofs!DemoLimitHolds` | `Exclusive /\ Spec => DemoLimitStops` |
| `SerialProofs!CopiesAreExact` | `OneAtATime /\ Spec => []SerialInv` |
| `SerialProofs!EndedBattlesAreRanked` | `OneAtATime /\ Spec => []FinishedBattlesAreRanked` |
| `SerialProofs!ResultsAgree` | `OneAtATime /\ Spec => []StoredResultsAgree` |
| `SerialProofs!StoredMeansFinished` | `OneAtATime /\ Spec => []SqlOnlyWhenFinished` |
| `SerialProofs!FinishedMeansComplete` | `OneAtATime /\ Spec => []FinishedIffComplete` |
| `SerialProofs!CountsAreSingle` | `OneAtATime /\ Spec => []EachBattleCountedOnce` |
| `SerialProofs!QuestionsStay` | `OneAtATime /\ Spec => QuestionsFrozen` |
| `SerialProofs!FinishedStayFinished` | `OneAtATime /\ Spec => FinishedMembersStay` |
| `SerialProofs!BattlesHaveRoom` | `OneAtATime /\ QuestionsFound /\ Spec => []RoomInv` |
| `SerialProofs!SystemImplementsLifecycle` | `OneAtATime /\ QuestionsFound /\ Spec => ImplementsLifecycle` |
| `RealtimeHubProofs!HubTypeCorrect` | `Spec => []TypeOK` |
| `RealtimeHubProofs!NoClosedChannelUsed` | `Spec => []NoPanic` |
| `RealtimeHubProofs!HubIsConsistent` | `Spec => []HubMatchesConnections` |
| `RealtimeHubProofs!EventsComeInOrder` | `Spec => []InOrder` |
| `RealtimeHubProofs!NoEventVanishes` | `Spec => []NothingVanishes` |
| `BattleClockProofs!ClockTypeCorrect` | `Spec => []TypeOK` |
| `BattleClockProofs!BattlesEndInTime` | `Spec => []EndsInTime` |
| `BattleClockProofs!IdleMembersEndInTime` | `Spec => []IdleInTime` |
| `BattleClockProofs!PunctualMembersKeepTheirAnswers` | `Spec => []PunctualNeverBlanked` |
| `BattleClockProofs!PlayedBattlesStay` | `TickFits /\ Spec => []PlayedIsNotDeleted` |
| `QuizProofs!TypeCorrect` | `Spec => []TypeOK` |
| `QuizProofs!VocabularySound` | `Spec => []VocabularyIsSound` |
| `QuizProofs!AnswersKeepFitting` | `Spec => []AnswersFit` |
| `QuizProofs!AnswersAreJudged` | `Spec => []CorrectMeansAllRight` |
| `QuizProofs!FastestGetTheBonus` | `Spec => []BonusGoesToTheFastest` |
| `QuizProofs!RewardsEarned` | `FewMembers /\ Spec => []RewardsAreEarned` |
| `QuizProofs!ResultsAreModelled` | `Spec => []ResultsRefineModels` |

*Types.* `TypeOK` alone is not inductive: `BattleModels` takes cardinalities of answer
sets and of sets of members, which are numbers only of finite sets, and a handler that
is at work must have a student. `TypeInv` adds `StudentsAtWork` and
`IsFiniteSet(members)`. `BattleSystemProofs` has what the rules return (`ProcessAnswer`,
`FillBlanks`, `FilledAIMembers`, `RankedMembers` keep rows in their type), and one lemma
per handler and per group of worker actions.

*Tables.* `StoreStep` says that a step of the system is at most one statement of
the PostgreSQL store. Each kind of statement preserves uniqueness and the foreign
key by itself, so the two theorems follow without looking at a handler again.

*Timers.* `StatusTimers` is not inductive, because a Save is only as good as the
copy it writes. `SoundCopies` strengthens it over every copy in flight: a copy
that may still be saved is itself timed, has an id the sequence has given out, and
agrees with any row of that id on the type, the one column no statement changes. A
handler that fills a lobby holds a WAITING copy, a kick pass ON_QUEUE copies, an
end pass ON_GOING ones. `TimedStep` classifies what a step may do to the table
(remove rows, save one timed copy, create one timed row); the rest of the proof is
that each of these keeps all copies sound, and that each handler and each loop
only makes such steps. This is the argument that the stale saves of section 5,
which do break the order of statuses, can never leave a battle that no daemon
finds; the AI battle without questions is exactly the exemption in `RowIsTimed`.

*Answers.* A member row is saved whole, so `OneAnswerPerQuestion` holds of the table only if
it holds of every copy in flight: `SingleCopies`, over the table, the handlers, the kick
pass and the end pass. `ProcessAnswer` and `FillBlanks` look the question up in the copy
they extend, and that is all it needs; a save may lose answers but not double them.

*Counts.* `CountedEnder` says what the ender has written by the time of its next write: the
battle row before the member rows, a row for every member before the first increment.
Nothing is ever removed from MySQL, so a crash at any point leaves a prefix of this order.

*AI battles.* Without confirms a row only moves forward (`RowsAdvance`): the one handler that
created it gives it its questions, the end loop finishes it, and no save of a lobby
takes that back, because a P2P or GROUP battle never starts (`LobbyRow`). `FitCopies` says
what follows for the copies: a copy's questions are those of the row, an answer in it is to one of them, and "finished" in it means that all are
answered. `CountedOnce` adds that the ender comes to the MySQL writes of a battle once: it
took the battle up when it was ON_GOING, and saved FINISHED before. Members whose result is still
to be inserted have none yet, so wins and losses stay within the number of results.

*One at a time.* `Alone` says that no two processes are at work, and is inductive by itself: a
handler begins in a quiet system, and a loop stays the one at work until it is back at its
first scan. `DemoLimitStops` needs in addition only that the Find at work has been checked
against results that nobody has added to since; whoever enters a battle otherwise is its bot.

The other serial theorems rest on `SerialInv`. A whole-row save is harmless when the copy it
writes is the row as it stands, with the one change the handler means to make; so `ExactCopies`
states, call by call, what the process at work holds: `ExactHandler` for handlers (a lobby
copy *is* a WAITING row, the member an answer goes to *is* a row of that battle),
`ExactKicker` (the loaded members are all there still are; `left` and `kicked` part them), and
`ExactEnder`: between finishing a battle and its last MySQL write, which members have
been saved in their final form and which results are stored. `FitTables` says that rows of
a table have one id each and that answers, questions and status fit; `FitResults` is what holds
of the results whenever no battle is being ended. No part is inductive without the others:
that a lobby has untouched members needs that no answer is on its way to it, and that an
`answerSave` keeps to the questions needs that its battle row is still the one it read.

The induction classifies steps before it looks at them again (`OpenMove`): create a battle, enter
a member, write one row, remove members of one battle, delete an empty battle, all on a battle
that is not FINISHED; or one of the five writes of the ender. Each move keeps the
tables fit whoever makes it; each handler, loop and pass is shown to make only such moves and to
hold exact copies afterwards (one lemma per call). `FrozenStep` reads the action properties off
the same moves.

*The hub.* Neither `NoPanic` nor `HubMatchesConnections` is inductive. A broadcast works
through the set of connections it found when it took the lock, and would send on a
closed channel if one of them had left since. `HubInv` adds `BroadcastSafe`: while the
listener broadcasts, all connections still to come to are in the hub. `subscribe`,
`unsubscribe` and the broadcast itself are the only steps that touch hub or set, and
`unsubscribe` waits for the lock; every other step changes a connection without touching
its handler or closing its channel (`QuietStep`).

*Events.* What a client has, what the writer holds, its channel, the event being broadcast and
the pending notifications are one sequence with ascending ids. `StreamInv` says so by the
sets of events on each hop and the order of their ids (`ConnInv`), with the listener's part
of it (`ListenerInv`) and where each event of the past has gone (`Accounted`). Each step
moves events one hop on, or drops them and says so.

*Deadlines.* `Ticked` says that the last tick of the worker came before every deadline
that is still open. Since the clock never runs further than a period past the last
tick, `EndsInTime` and `IdleInTime` follow. An answer moves the member's deadline, a second
start all of them, always to a later time than the last tick.

*Punctual members.* `OnTime` counts: after `k` answers, a member that kept to the
question time was at the next question at most `k` question times after `start_time`.
`end_time` lies one question time plus one per question after the start, so a battle of `n > k`
questions expires no earlier than `start_time + (k + 1) * QuestionTime`, *if the delay
before `start_time` is no longer than the spare question time*. That is the one
relation between the constants the theorem needs, and it is not written anywhere in the
source.

*Deleted AI battles.* `Solo` follows the one student of an AI battle that was started once:
`current_question` leaves 1 with the first answer of a battle of several questions; and a
student who finished in time, perhaps with the answer to the only question, is seen by the
tick that finds the battle finished before `end_time` passes, which is where `TickFits` is needed.

*Questions and results.* Sorting, searching and numbering in `QuizRules` are stated by
counting, and one lemma stands where induction would: `Ranking` says that counting the
predecessors in a strict order of a finite set numbers the set from one on. The first
element, the k-th open question, the shuffles, the sorted right answers and the places all
come from it. `QuizInv` is inductive: `DrawInv` for what has been drawn (vocabulary questions
are sound whatever is drawn twice), `PlayInv` for rows that fit the questions and are
judged as `Judged` says, `EndInv` that the results are an outcome of bonus and placement
over rows all finished. The properties of the results then follow from that outcome
alone: places are different numbers, one member is first, and the order by right answers,
time and id is one that `BattleModels` allows.

*The lifecycle.* `SystemImplementsLifecycle` is about every battle at once: the phase, the type, the
lobby, the questions and the recorded results that `BattleRefinement` reads off the tables. Two
things are missing from `SerialInv` for it.

* *The places.* That nobody enters a full battle and none starts before it is full is decided by
  counts a handler read some calls ago. `RoomInv` says of every row that it has room (`HasRoom`: a
  WAITING row has a place left and nobody confirmed, an ON_QUEUE row somebody who has not confirmed,
  in an ON_GOING row everybody has), except for the one battle a process is at between changing
  its members and looking at the count (`HeldRooms`), and what that process knows instead at that
  call (`HandlerHasRoom`, `KickerHasRoom`). It is proved as `BattlesHaveRoom`, call by call. The
  proof classifies what a step does (`RoomyMove`, a move of `OpenMove` with the count that allows it;
  or `Records`, the ender's write of one result).
* *The members.* `Enrolled` says that every member row is of one of `Students`, so that who enters is
  somebody `BattleLifecycle` knows; a handler at work always has one, a place is never filled
  by `NoStudent`.

`LifecycleStep` then reads each class of move as one action of `BattleLifecycle`, or as a stutter:
opening, converting, closing, reopening, starting and finishing are one write of the battle row
(`MovesStep`); joining is one insert; leaving, kicking and being abandoned are deletes of member
rows; storing a result is the insert in `battle_member`; writes of single member rows, and of the
counts, are invisible. Battles other than the one
written keep their view (`OnlyBattle`).

*Counts, with confirms.* `EachBattleCountedOnce` rests on three facts about the other tables
(`CountsFit`), and `OnceStep` is proved from those alone. `FitCopies` gives them without
confirms and with any overlap and fault; `SerialInv` gives them with confirms, one at a time.

*Only model-checked.* The liveness properties, whose proofs are beyond the prover
(`QueueResolves`, `PlayedBattlesEnd`, `ResultsArrive`, `BroadcastEnds`, `EventsArrive`,
`GoneIsForgotten`, `DrawEnds`). Every other property that a passing run checks is a theorem, under
the hypotheses in the table.

## 8. What is not modelled

* **View service** (`service/view.go`): it changes no state. Its two reads are not one
  snapshot: between them the worker may finish the battle, and the response then shows a
  status and members that never stood together.
* **Profile reader, HTTP binding and envelopes, JWT, configuration**: stateless input and
  output. The requests a client may send are the kinds of `BattleApi`.
* **Fakes**: test doubles. The models follow the PostgreSQL and MySQL implementations.
* **Ably**: external. What its service accepts it delivers; its own delays and retries
  are left out, and so are token expiry and the check of tokens at a WebSocket.
* **Payloads** of events: an event is its battle, its channel and its place in the order.
* **lobby type, course and level group** in the matching of `find`: all battles of a type
  match. In `BattleQuiz` the lobby type selects the draw.
* **The demo limit's day boundary**: all battles are of one day.
* **The clock in `BattleSystem`**: `end_time`, the idle timeout and `expire_time` elapse in any
  order, which includes orders real timeouts exclude. Every safety result holds a
  fortiori. `BattleClock` has the times, and in turn atomic handlers and ticks, one clock
  for both processes, no failing calls, and no bot: its answers are filled in at the
  start, so it never holds a pass back.
* **Concurrency in `BattleQuiz`**: answers are atomic there; their overlap is the subject
  of `BattleSystem`.

Whole columns that repeat others (`json_data`, names, languages) are left out everywhere.

## 9. Plan

1. Done: the two stores, handlers, worker and their composition, with safety, liveness
   and the lifecycle refinement; the hub; the deadlines; questions and results, with their
   invariants proved.
2. Done: the system one process at a time (`SerialProofs`): exact copies, results that are ranked
   and agree, frozen questions, finished members, counts, the demo limit, places, and the
   refinement of `BattleLifecycle`.
3. Left: `ImplementsLifecycle` and the ranked results under a weaker hypothesis than `OneAtATime`,
   that is, which pairs of requests may overlap without breaking them. The known breakers are two
   finds or two confirms of one lobby, a confirm and the kick pass, an answer and the end of the
   battle; the liveness properties stay with TLC.
