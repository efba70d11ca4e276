# Whippin AI: formal verification

TLA+ models of the daily sentence game in this repository (`src/packages/*`): a player
reconstructs a published sentence guess by guess; a serverless backend over DynamoDB keeps
the log of guesses, the score and the streak, the accounts and the groups; the browser
synchronises a round and an identity with it; a WhatsApp bot follows a group's day.

Paths below are under `src/packages/`.

## 1. Inventory

| Part | State it keeps | Operations | Talks to | What is hard | What makes it correct |
|---|---|---|---|---|---|
| **Round route and store** `backend/src/rounds.ts`, `dynamoRoundStore.ts`, `memoryRoundStore.ts` | one item per player, day, language: puzzle, guesses, progress, solved, gaveUp, last write, version | append, restart, settle, give up, read, purge, move | slice, score store, history, puzzle store | devices and tabs racing; stale reads; a sentence corrected under a round; a corrective write retried; lost answers | the log is append-only and capped; a stored solve is real; an answer is never ahead of the row; no solve is lost; rewards are earned |
| **Derivation slice, scoring** `backend/src/slice.ts`, `shared/src/scoring.ts` | none | buildSlice, deriveRound, guessKey, countTries | publication, round route | duplicate secrets, aliases, cut at the start rank, rounding | the slice decides what the full artifact would; 100 is exactly a solve; the distinct tries replay the board |
| **Score store** `backend/src/dynamoScoreStore.ts` | a row per player and day; allowance per address | submit, replace, remove, boards | round route, purge | idempotence, correction of a sentence, address allowance | one score per player and revision, of a stored solve |
| **Publication** `backend/src/publish.ts`, `puzzleReads.ts`, `ledger.ts` | slice, artifact, assigned sentences | publish, correct | round route, web | two objects replaced in an order; warm caches | nobody derives against another revision |
| **Solved days** `backend/src/dynamoHistoryStore.ts` | set of at most 800 days | recordSolvedDay | round route | concurrent credits at the cap | no solved day lost, the bound converges |
| **Link and adoption** `backend/src/link.ts`, `dynamoLinkStore.ts`, `accountLink.ts` | challenges, allowances, bindings, departure and purge jobs | challenge, verify, bind, adopt, delete account | rounds, scores, groups, devices | one transaction planned from many reads; replans, conflicts; concurrent wrong codes | accounts stay reachable; a code grants once and the inbox is bounded; a play moves whole or not at all |
| **Groups** `backend/src/groups.ts`, `dynamoGroupStore.ts` | group row with membership version, two rows per membership | create, join, leave, remove, leave all | profile, purge | succession decided from an older read | a group has an owner who is in it, or does not exist |
| **Deletion and purge** `backend/src/purge.ts`, `devices.ts` | purge jobs | delete, run purges | all stores | the worker is cut off anywhere; late writes of requests already authenticated | the purge ends, and nothing of a deleted account survives it |
| **Devices** `backend/src/dynamoDeviceStore.ts` | device and account items | bootstrap, list, revoke | link | lost answers, two tabs, orphaned items | one token, one identity |
| **Web round sync** `web/src/state/roundSync.ts`, `identityScope.ts` | outbox, flight, identity epoch | pump, append, read, give up, resync | round route | unknown outcomes, republished sentence, identity change, two tabs | every guess typed is stored once, for its own sentence, or told refused |
| **Web identity** `web/src/identity.ts`, `adopt.ts`, `state/signedOutVerdict.ts` | one storage key, the memory of each tab, a lock | bootstrap, sign-out, fresh start, delete, link, follow the key | devices, link | two tabs; storage events late or lost; writes that fail; verdicts on an older token | the tabs agree with the key; a browser opens one account; a token left comes back only as the answer to a bootstrap of its own |
| **WhatsApp session** `whatsapp-bot/src/whatsapp/lease.ts`, `main.ts`, `pair.ts`, `client.ts` | lease item, keeper, socket | acquire, renew, release, connect, shut down | DynamoDB, WhatsApp | calls that hang, throw or land late | one socket speaks as the device |
| **Declarations and leader** `whatsapp-bot/src/ingest.ts`, `declarations.ts`, `dynamoDeclarationStore.ts`, `leader.ts` | a row per player and language, the leader row | ingest: record, claim, acknowledge, announce | outbound | messages twice and out of order, lost answers, concurrent handlers | the latest declaration stands; who shared is thanked; only a real change of lead is news |
| **Outbound queue** `whatsapp-bot/src/outbound/*` | queue, dead letters, sent records | dispatch, defer, settle | session | redelivery, a closing socket, a crash between send and record | what was queued is said or seen; a recorded send is not repeated |
| **Conversation** `whatsapp-bot/src/main.ts`, `chat/*`, `llm/*` | exchange of each group, day log (memory over a table), two ceilings | remember, decide, ask the model, queue, record | outbound, diary | bursts, restarts over stale reads, echoes, the flip of the day, calls that throw or are never answered | it volunteers within a budget, knows what it said, and a call that fails never stops it answering |
| **Diary** `whatsapp-bot/src/chat/diary.ts`, `podiumJob.ts`, `diarySeed.ts`, `cli.ts` | one conditional row per group | nightly fold, forget, seed | day log | minutes between read and put, retried jobs, stale reads | no rewrite undoes another |
| Credential store `whatsapp-bot/src/whatsapp/authStore.ts` | Signal state | saveCreds, drain | session | queued snapshots, exit | the last snapshot lands last |
| Boards, avatars, mail, previews | reads and single rows | | | formatting and sorting | not modelled |
| Web screens, Python data preparation, infrastructure | | | | | not modelled |

## 2. Modules

| Module | Models |
|---|---|
| `RoundStore` | the POST of one player's round: every store call of the route is one action, the conditional writes with their exact conditions, the corrective write, both rewards, the give-up, the publication of a correction |
| `RoundContract` | what a reader of a round relies on: it is started for a puzzle, accepts guesses until it is over, is solved only by its own log, given up at most by its player |
| `Slice` | the pure functions `BuildSlice`, `DeriveRound`, `GuessKey`, `CountTries`, `Projected` |
| `Replay` | a sentence played guess by guess, its log read through `Slice` at every length |
| `SessionLease` | the lease on the one WhatsApp session, the keeper's timer and the processes that hold it |
| `Accounts` | devices, codes, saves at an address, switches, deletions, sign-outs, and the hourly purge |
| `AccountContract` | what the routes rely on: each of these is one step on what is stored |
| `Groups` | groups, succession and departures |
| `RoundSync` | the browser's conversation with the round route |
| `Identity` | the browser's identity: tabs over one storage key |
| `Shares`, `Outbound`, `Bot` | the ingestion of shares, the outbound queue, and the two in one task that crashes |
| `Chat`, `Diary` | the conversation with a group; the diary beside it and the jobs that rewrite it |
| `RoundStoreProofs`, `SessionLeaseProofs`, `AccountsProofs`, `GroupsProofs`, `IdentityProofs`, `BotProofs`, `ConversationProofs`, `RoundSyncProofs` | theorems about the modules they are named for; `RoundStoreProofs` also about `Replay`, `ConversationProofs` about `Chat` and `Diary` |
| `MC*` | small instances for TLC |

How they compose: `RoundStore` uses `Slice` (its instance derives each log with it, and what it
assumes of the two readings is proved of `Slice`) and is
shown to implement `RoundContract`; `Accounts` implements `AccountContract`. `RoundSync`
takes one request of the round route as one step, which is what `RoundContract` allows of
it, and `Identity` one request of the account routes, which is what `AccountContract` allows.
`Bot` joins `Shares` and `Outbound`, `Diary` joins itself to `Chat`.

### RoundStore and the code

`row` is the DynamoDB item; `Absent` is its absence. `replica` is an older copy that an
eventually consistent read may serve. `edition` is the revision the stored slice names,
`artifact` that of the full artifact: a correction replaces the slice first. `score` and
`streak` are the two rewards' rows. A request slot in `req` goes through the route:

    Begin -> Read -> (Confirm) -> AppendBatch -> (Classify -> Restart)
          -> (Settle ...) -> rewards in parallel -> answer
    Begin -> GiveUp -> (Judge) -> answer

Each arrow is an `await`. Between two of them any other request, a correction or time may
move. `AppendAllowed`, `RestartAllowed`, `SettleAllowed`, `GiveUpAllowed` and
`ReplaceAllowed` are the ConditionExpressions of `dynamoRoundStore.ts` and
`dynamoScoreStore.ts`, clause by clause. `Fail`, `SettleThrows`, `RewardThrows` and
`LostAnswer` are the calls that throw, after having been applied or not; in `LostAnswer`
the SDK repeats the call and its own first write refuses the repeat. A request may also
never take its next step: that is a Lambda that died.

Abstractions. A guess is a model value; its derivation is read off `Rank`, `Progress` and
`Tries`, whose only assumed law is that a log with more guesses derives to at least as much
(`MonotoneAssumption`; section 4 proves it of `Slice`, as `ReadingsAsAssumed`). The
arrival of a request and its read of the slice are one step: a client learns its tag from
the artifact, which the slice precedes, so a tag still named at the read was named at the
arrival. `createdAt` is left out; no decision reads it. A POST without guesses only reads
and is left out. All instants are of one clock, read when the request arrives, as the code
does. A revision is a hash of its content: publishing an older content again (which would
bring an older revision back) is not modelled.

### RoundContract

The refinement maps the item to `[puzzle, log, solved, gaveUp]`. `Start` takes any batch
and any newer puzzle, `Accept` extends a round that is not over, `RecordSolve` may only
follow a solving log, `GiveUp` only an unsolved one. `memoryRoundStore.ts`, the reference
implementation the repository's tests use, is what it translates. It knows of no request,
no version, no clock and no stale read.

### Slice, Replay and the code

A puzzle is its holes (secret and start rank) and the rank map of each distinct secret.
`BuildSlice` keeps the entries closer than the start, and rank 0; `DeriveRound` reads the
closest rank of each hole and sums the shares in the order the slice lists its secrets;
`GuessKey` is the whole outcome of a guess in every map; `Projected` is the client's play log
(`projectPlayLog`). Logarithms are integers, `Ln`, scaled by 100 and rounded in `MCSlice`, and a
share and the average are rounded down, where the code keeps fractions: rounding down keeps
their order and leaves 100 to a solve alone. `Replay` is one log, to which any slug may be
added (`TypeSlug`), and its readings: against the slice, against the whole maps, and with
repeats left out.

### SessionLease and the code

`record` is the item `AUTH#bot / lease`, `proc` the processes that ever run. A conditional
write has an instant that stamps it, may land at any later one (`Land`), and its answer may
come later still (`Acquired`, `Renewed`), fail (`RenewThrows`) or never come. `Tick` is the
keeper's interval, counted from the answer of the acquisition (`since`): it fires exactly when
due, starts a renewal when none is outstanding, and looks at the deadline only when one is.
`Stopped` is `shutdown`: a client that exists is closed, then the release is sent (`Release`). `Connect` and `Open` are the await of
`connectWhatsApp` and its socket. The pairing command leaves without releasing when it
loses the lease. A process that crashes may leave a write that lands later.

Nothing bounds how long a call takes. An acquisition answered within the grace window is
taken, a later one handed back; a renewal is answered, throws or neither, at any instant; one that
threw before its write landed (`strays`) may land later all the same (`LandLate`), with the
expiry of its own stamp. `Ttl` is three renew periods, which is what the grace of two periods, the
window less one, is reckoned from. Timers fire on time, all processes read one clock, and what the
SDK repeats within one call is part of that call.

`Exposed` names the keepers the code does not protect: one that has yet to renew and whose
acquisition took more than a renew period, or any time at all if a renewal has thrown since; and
one whose record an older write of its own has put back. `HolderOwns` is what every other
keeper has, and `OverrunIsShort` what the exposed ones still have. `OneHolder` does not hold
without the exception: run `LeaseSlow`.

### Accounts and the code

`account`, `device`, `binding`, `challenge`, `sends`, `depart` and `purge` are the items of
`dynamoDeviceStore.ts` and `dynamoLinkStore.ts`; `round`, `score`, `history`, `profile` and
`member` are what an account leaves behind elsewhere. A request is a process: `Resolve`,
`Create`, `Authenticate`, the code's steps (`ReadSends`, `SpendSends`, `PutChallenge`), those of a
verification (`Verify`, `Judge`, `Bind`, `Confirm`, `PlanMoves`, `Adopt`), of a deletion and of a sign-out are
its calls, each with the condition of its write or transaction. A verification reads the
challenge, then the account at the address, then plans from the rounds it reads, and commits
one transaction over everything it read (`PlanStands`, `SourceStands`). `Departs` leaves the
groups a switch owes. The worker (`TakeJob` to `ClearPurge`) may be cut off at any step
(`WorkerStops`). A request takes no step after the Lambda's timeout; the settle time of
the purge is more than two of them (`SettleAssumption`).

A code is its place among the codes of its address, a guess of a wrong one is 0. The sends an
allowance counts are a set, each with its instant and the request that spent it. A round
holds the requests whose guesses it took; a group membership is one bit.

### AccountContract

`memoryDeviceStore.ts`, `memoryLinkStore.ts` and `memoryRoundStore.ts`, the reference
implementations of the repository's tests, as one-step operations: a bootstrap, a bind, an
adoption with the rounds it hands over, a deletion, a revocation, a play. The refinement
hides challenges, jobs, versions and every read.

### Groups and the code

`group` is the group item with its membership version, `memberRow` and `playerRow` its two
lists. Each request reads, decides and commits one transaction whose conditions are on the
version and owner it read (`SnapshotStands`, `AccountStands`); a commit may be cancelled by contention
alone, up to `MaxConflicts` times. A departure (`Departure`) lists its groups, leaves each,
and starts another pass. Which member is the oldest is left open: any may be the heir. The
caps are counted before the transaction and may be overshot by joins that race, which the
code accepts (`groupStore.ts:24-28`).

### RoundSync and the code

A tab has an outbox (`box`), the conversation (`flight`) and the request it waits for
(`call`). `Pump` decides what to send next, exactly as `pump` does: a read until the round
is settled, a give-up once the outbox is flushed, or a batch; an append whose outcome is
unknown is followed by a read. A first append waits for its challenge (`Challenged`), and its body is
built after that: it names the sentence the conversation is about by then (`edition`), while the answer
is compared with the sentence it was started for (`puzzle`). `Serve` is the server's one step; its answer lands, is lost,
or comes after the client gave up on it. `Publish` replaces the sentence, `Move` and the
device change the identity under the conversation, `Visit` loads the page again from the
stored outbox.

### Identity and the code

`stored` is the key of `localStorage`, `tab` the module state of each tab, field by field.
`Ensure` to `BootLands` are `bootstrap` inside its lock; `Refuse`, `VerdictLands` the 401 and
the verdict; `Follow` is `syncFromStorage` on a storage event, which may be late. A write
may fail (`unwritten`), and then the tab goes on from memory (`sessionOnly`).

### Shares, Outbound, Bot and the code

One delivery of a message is a call that records the declaration (retried when its answer is
lost), looks up the leader, claims the lead, acknowledges and announces, each an `await`.
The queue hands a message out again when it was not deleted, and moves it to the dead letters after `MaxReceives`; the
consumer checks the sent record, sends, notes, deletes. `Bot` runs both in one
task, with its crashes, its socket and its configuration. Assumed: the group acknowledges
shares and announces leads.

### Chat, Diary and the code

A delivery of a message is a handler: it is remembered (`Deliver`, `Kept`), ingested
(`Ingest`; `Shares` has what that does), then waits in `turns`, the chain of `serialByKey`.
Inside: `Offer` is what `main.ts` decides before it asks, `Charge` and `Round` take the two
ceilings, `Queue` enqueues the answer and only then moves the exchange and keeps the line,
`Close` awaits the write and leaves. `Throw` is any call of the section that throws. `memory`
is the day log's copy, `stored` its rows, `storing` the writes in between; `ComesBack` is
the echo of a line. `Crash` loses the copy, the exchanges and the row of handlers; `Boot`
reloads the rows of the day, or fails to. `Hang` is any awaited call of DynamoDB or SQS that is never
answered, whether it took effect or not; only the call of the model has a timeout (`agent.ts:403`).

The reload is not a consistent read (`dayLog.ts:246-253`): the rows it comes back with, `Reloaded`, may
lack any that stand, and nothing reads them again. A fold reads the rows the same way, and may get any
part of them that is not empty.

In `Diary` a version of the row is whom it names and which days it holds. A job reads a
version, perhaps an old one, and puts its own only if the one it read still stands, by day
and stamp (`Unmoved`). Two versions are assumed never to carry the same stamp.

## 3. Runs

Each behaviour of `Accounts`, `Groups`, `RoundSync`, `Identity`, `Bot` and `Talk` begins with one of a
few *starts*: what is stored, who asks what, and how many faults may strike. A start is one
race; what a run multiplies is the interleavings of each race, not the races with one
another.

| Run | Instance | Checks | Distinct states |
|---|---|---|---|
| `RoundPair` | 2 requests, 3 guesses, 2 holes, 2 editions, instants 0..3, 2 faults, cap 3 | `AcknowledgedKept`, `SolveAnswerIsDurable`, `RewardsAreEarned`, `ImplementsContract` | 410,012 |
| `RoundLive` | 3 requests with single guesses, 1 edition | `SummarySettles`, `SolveIsRecorded` under `FairSpec` | 519,237 |
| `Slice` | `Replay` over every puzzle of 3 holes over 2 secrets and 3 slugs, ranks 0..2, logs up to 3 | `SliceIsEnough`, `TriesReplayTheBoard`, `ProgressOnlyRises` | 92,160 |
| `Lease` | a task and a pairing; TTL 6, renew 2, instants 0..9 | `LeaseHolds` (`HolderOwns` and `OverrunIsShort`), `NeverResurrected` | 7,075,532 |
| `Accounts` | 3 accounts, 2 tokens, 2 addresses, up to 4 requests and the worker, 18 kinds of races | `AccountsReachable`, `CodesHold`, `PurgedClean`, `ImplementsContract`, `PurgeFinishes` | 197,468 |
| `Groups` | 3 players, 2 groups, 3 requests, 336 races, 1 conflict | `OwnerIsMember`, `RowsArePaired`, `DepartedForGood`, `DepartureConverges` | 236,335 |
| `RoundSync` | 2 tabs, 2 accounts, 3 words of 2 identities, cap 3, 2 editions, 16 starts | `NoGuessLost`, `NoGuessTwice`, `SyncSound`, `BoardKeepsGuesses`, `GiveUpAnswered`, `OutboxDrains` | 96,968 |
| `Identity` | 2 tabs, 4 tokens, 4 registrations, 12 starts | `TabsSound`, `OneAccount`, `NeverBack`, `NewerKept` | 225,429 |
| `Bot` | 2 players, 6 messages, 2 languages, 3 receives, batches of 2, 12 plans | `LatestStands`, `ShareIsThanked`, `LeadIsBest`, `LeadChangedHands`, `NeverRepeated`, `SaidOrSeen` | 159,829 |
| `Talk` | 9 messages of every shape, 3 days, ceilings 2 and 3, budget 1, 13 plans of talk and jobs | `UnaskedBounded`, `LinesRemembered`, `TurnsEnd`, `DiarySound` | 286,235 |
| `LeaseSlow` | the processes of `Lease` | `OneHolder` | violated |
| `SyncRepublished` | one tab whose sentence is replaced | `StoredForItsSentence` | violated |

What they show, part by part:

- **Round.** Whatever two devices, a correction and failing calls do to one round: an
  acknowledged guess stays, in its place, while its sentence stands; an answer that says
  solved is never ahead of the row; score and streak are paid only for a solve of the row's
  own sentence; the item steps as `RoundContract` allows. When no corrective write is under
  way the stored summary is what the log derives to, and the solve of two racing halves
  reaches the row.
- **Slice.** The cut slice derives what the full rank maps do, for duplicate secrets,
  aliases and unknown words; the distinct tries replay the board; progress never falls and 100 is
  exactly a solve, which is why refusing a lower corrective write refuses no solve.
- **Lease.** Whatever hangs or throws, a process that believes it holds the session owns an unexpired
  record, unless its acquisition was answered late and it has not renewed since or an old
  write of its own landed last; even then it gives up less than a renew period after its
  window; a late renewal never brings back a lease that was released.
- **Accounts.** No race of bootstraps, saves, switches, deletions, sign-outs and the purge leaves
  a live account out of reach, an address that names a dead account, or a device on an erased
  one. A code grants once, the latest one only, and no more are sent than the allowance. A
  purge ends though it is cut off, and what it cleared stays clean.
- **Groups.** The owner is a member, both lists agree, a deleted player leaves and never
  comes back.
- **RoundSync.** A typed guess is in the outbox or the stored round until the round is over, and is
  stored no more often than it was typed for its sentence or one that sentence replaced, and once more for
  each device its tab has acted with since; a tab never shows another account's or edition's round;
  the board takes nothing back while its sentence stands; give-ups are answered and the outbox drains.
- **Identity.** Once it heard what changed a tab acts as the key says or for a reason it
  can name; a browser opens one account; a token left is not taken up again, but as the answer
  to a bootstrap that was on its way; an identity said to be minted is nobody's yet; a newer
  identity is never erased by a verdict on an older one.
- **Bot.** The latest declaration stands, whoever counted is thanked, an announced lead
  displaced another player's worse row, the day's best is no worse than any declaration, a
  recorded send is never repeated, and everything queued is said or seen in the dead letters.
- **Talk.** Between two restarts the bot answers unasked within its budget and its copy of the day
  holds what it said and what it was asked; a restart brings back what is stored but for what the replica
  lacked; every message is done with in the end, unless its handler, or the one it waits behind, made a call
  that is never answered; and no job undoes what another did to the diary.

### Bounds, and why they are enough

*Round.* Two requests are every race of two devices, and one correction is every race with a
correction; the third request of `RoundLive` is what an overtaken corrective write needs.
The cap of 3 is reached. `MaxAttempts` is 2 (of the code's retries the second is the one that
can differ). `MaxFaults` 2 allows a lost append followed by a failing correction. `MinGap` 0
still demands a later instant between two accepted writes. *Lease.* The window is three
renew periods, as 90 s is of 30 s, and an instant is half a period; instants up to 9 hold an
acquisition, the latest give-up of a keeper that renewed once or never, and another process
after it. *Accounts.* `Settle` 3 over a
`Timeout` of 1, codes live 2 instants, two wrong guesses, allowances of 2 and 3: each
limit is reached. Three accounts are a player, the one adopted and one yet to be minted.
*Groups.* Three members are an owner, an heir and one more; a group at its cap of 3 and a
player at a cap of one group occur. *RoundSync.* Two words open the two holes, the third repeats the first one's
identity; the cap is reached; each start spends a few of: typing, giving up,
reloading, faults, delays, republication, moves of account and device. *Identity.* Four
tokens and registrations are more than any start can use. *Bot.* A player shares, shares
better, repeats and shares again, another shares two languages, then a capped run; a
message is handed out up to three times. *Talk.* A burst of ambient talk exceeds the
budget of one; the ceilings are reached from starts that have nearly spent them.

Every run lets the system stop (requests used up, clock at its bound), so deadlock is not
checked; the liveness properties say what must not be left undone.

### Fairness

- `RoundStore`: a request that owes the corrective write is not cut off (weak fairness of
  `Settle`). A Lambda that dies there is outside the property, and `rounds.ts:640-660` says so.
- `Accounts`: the clock ticks and the hourly worker goes through its job when not cut off;
  a job it was cut off from is started again at the next hour.
- `Groups`: a departure takes its steps; `purge.ts` retries a departure until it is done.
- `RoundSync`: promises settle and timers fire; the server, when asked, answers or the call fails.
- `Bot`: handlers and the consumer run on, the queue returns what is not deleted, the client
  reconnects, and the task is started again by its service.
- `Diary` and `Chat`: a call that has not hung (`Hang`) settles, writes land or fail, the task is
  started again. Nothing is assumed of the jobs.

### What the runs show of the code and its comments

1. `LeaseSlow`: the record ages from the stamp of the acquisition, the keeper's timer runs from its
   answer, which may come up to two renew periods later (`lease.ts:121`, `:204`). If the acquisition
   took more than one and the first renewal hangs, or took any time and the first throws and the second hangs,
   the keeper gives up only after the record has expired and another process holds the
   session (`lease.ts:24-25` says it gives up one renew period before).
2. `SyncRepublished`: the sentence is replaced while the first append waits for its challenge. The body
   is built afterwards, with the revision the conversation has then (`roundSync.ts:661`, `:671`, `:376`,
   replaced at `:192`), and only the identity is looked at again (`:668`): the batch typed for the retired sentence is
   stored under the corrected one (`:285` says that preventing this is what the revision is for).

The models also have the following, which the properties above are stated around; no run is
given to them:

- Deleted accounts: a guess solves a round while its account is switched away; the round moves, the score
  is submitted for the erased account after that, and its purge, which finds scores through rounds,
  never removes it (`purge.ts:97`; `purge.ts:21` says that a row is never half a pair there). `PurgedClean`
  allows exactly that score.
- Scores: a request solves a sentence, which is corrected, solved again and scored; the
  first request's score, submitted last, replaces the corrected one, as the condition asks only
  that the revisions differ (`dynamoScoreStore.ts:185`, against `scoreStore.ts:31-36`). `RewardsAreEarned`
  says that either was earned.
- Device change: `superseded` compares the identity, but the conversation is reset only
  when the account changed. After a change of device alone the answer of an append under
  way is dropped while the conversation goes on, and the batch is sent once more
  (`roundSync.ts:386-388`, `identityScope.ts:63`; the comment says that the conversation was reset to read again).
  `NoGuessTwice` allows one more copy for each change, and two starts of `RoundSync` have it happen.
- Day log: the task restarts and reloads the day from a replica that lacks the last rows; the
  copy goes on without a turn that is stored (`dayLog.ts:246-253`; `dayLog.ts:11` says that a restart
  forgets nothing). `LinesRemembered` leaves out what the load was not shown (`missed`).

Seen while modelling, and not run:

- Rounds: two devices can both be told that they finished (`rounds.ts:458`); a give-up can land
  between the append that solves and its corrective write (`dynamoRoundStore.ts:433`).
- Lease: a renewal that threw and whose write lands after a newer one puts an older expiry back
  (`lease.ts:65-67` avoids it only by not overlapping calls); a lease lost while the client is
  being built leaves a socket that opens afterwards (`main.ts:468`).
- Declarations: an overtaken record is acknowledged by neither call; a crash between the record and
  the queueing loses the acknowledgement; a share one of whose records failed is
  acknowledged and also offered to the model.
- Conversation: a call of DynamoDB or SQS in the section that is never answered keeps the group silent
  until the task restarts (`Stranded`), as none of them has a timeout; a restart forgets the exchange's
  budget, as exchanges are only in memory, and the bot may volunteer a whole one again;
  a message set that comes late sets the exchange's clock back and may end it early; an answer
  whose enqueue threw after it was accepted is said but neither counted nor kept until its
  echo; a reply kept under its message's day whose echo comes after the flip is remembered
  in both days; after a restart over the flip, yesterday's turns are not reloaded.
- Diary: a `forget` that lands during the nightly rewrite costs that day's fold; a forgotten person
  comes back with the next fold of a day that still names them; `seed --from` a day before the standing
  one can take the diary's day back; a seed's rows of today are kept beside live ones under other ids.
- Identity: a link writes the key without a look (`identity.ts:779-799`), unlike every other writer. A
  tab that leaves a token while a bootstrap with that very token is on its way is moved back to it by
  the answer, though a left token is fenced because re-adopting it "would resurrect an
  identity the server already rejected" (`identity.ts:488-490`); it takes three tabs. A sign-out or a fresh start in the middle of a bootstrap clears what the tab knew of it, and
  the answer may be announced as minted though somebody has acted as it.
- Browser and round: an append that reaches the server only after the client gave up on it and
  read the round again is stored beside the batch that read let it send once more; no client can
  know. When a sentence was replaced and another tab already plays the new one, a tab still on the
  old one whose give-up failed reads again, is told that there is no round (`rounds.ts:254-278`), and its
  board is emptied before the watch replaces the page.
- Account summary: a read out when a link of the same account lands is fenced on the identity only, which
  a kept account does not change (`state/account.ts:88-96`), and the link's note raises no generation
  (`:129-141`): an answer taken before the link puts the account back to unsaved, and stands as loaded.

## 4. Proofs

Eight modules hold theorems, each for every value of the constants that the named ASSUMEs admit.
TLC evaluates each ASSUME in a run of a module that extends the one that states it.

A property is seldom inductive, because it speaks of what is stored, while a step acts on what
a request read some steps before. Each invariant below therefore adds what the parties remember, and says
why it still matters when they act on it. Mostly it is one of three reasons: the write is refused
unless what was read still stands (a version, an owner, a token); what was read can only
have grown (a log, a birth, a death, a code number); or the clock has not gone far enough.

### RoundStoreProofs

| Theorem | Says |
|---|---|
| `Invariance` | `[]Inv` |
| `TypeCorrect` | `[]TypeOK` |
| `CapHolds` | `[]CapRespected` |
| `SolvesAreReal` | `[]SolveIsReal` |
| `AcknowledgementsHold` | `[]AcknowledgedKept` |
| `SolveAnswersAreDurable` | `[]SolveAnswerIsDurable` |
| `RewardsEarned` | `[]RewardsAreEarned` |
| `SummariesSettle` | `[]SummarySettles` |
| `LogsOnlyGrow` | `LogOnlyGrows` |
| `NeverBack` | `NeverBackToRetired` |
| `VersionsMove` | `VersionMoves` |
| `Implementation` | `RoundStore` implements `RoundContract` |

Assumptions: the named ASSUMEs of `RoundStore` (bounds are naturals, a batch is not empty
and at most the cap, ranks are naturals, derivations are naturals, and, for `SummariesSettle`,
`MonotoneAssumption`).

The argument. None of the properties is inductive: each rests on what the requests in flight
remember. The invariant `Inv` has four parts. `StoreOK`: the item is of a published edition
and within the cap, its solve is real, and the replica is an earlier state of it.
`RequestOK`: what a request holds, the log it saw, the log it was answered with, the solve
it claims, is still in the row or the row has moved to a newer edition (`Holds`). `Timely`:
a request of an older edition arrived no later than any request of a newer one, and no later
than the last write of a newer one. The last part is what makes a restart safe: the route's
check of the revision is stale when the write lands, and it is the write interval, measured
from the arrival, that refuses a request from before the correction. Without `Timely` the
row could return to the retired sentence, and with it every acknowledgement be lost. Each
write of the row is shown to produce an item that `Follows` the old one, and `Follows`
carries everybody else's `Holds` over (`HoldsKept`, `WriteStep`).

Rewards (`RewardInv`): who rewards holds a log that solves (`Entitled`), which is in the row by
`Holds`, and the tries of a score are those of a beginning of that log. Summaries (`Summarised`): as
long as no call was lost, the stored progress is at most what the log derives to, and is exactly it, with
the solve, or a request that holds the whole log is still settling. The last is what a request that
was overtaken relies on; a lower summary refused by the condition is refused because a longer log has
put a higher one.

Of `Replay`, in the same module because `RoundStore` relies on it:

| Theorem | Says |
|---|---|
| `SliceDecides` | `[]SliceIsEnough` |
| `TriesReplay` | `[]TriesReplayTheBoard` |
| `ProgressRises` | `ProgressOnlyRises` |
| `MoreGuessesMoreProgress` | a log with every guess of another derives to at least as much, and stays solved |
| `ReadingsAsAssumed` | `ScoringAssumption` and `MonotoneAssumption` hold where `Progress` is `DeriveRound` and `Tries` is `CountTries` |
| `SolvesAsDerived` | `Solves` is `DeriveRound`'s solve, unless a start hint is the secret itself |

Assumptions: `SentencesAssumption` (holes in a row, start hints and ranks up to `Farthest`) and
`LogarithmAssumption` (0 at 1, rising). The number of holes, of words and of ranks, and which slug
is an alias of which, are arbitrary.

The argument. `Best` is characterised without the set it is the minimum of (`Closest`: no known
guess is nearer, and it is the start hint or the rank of a guess), which only one rank can satisfy
(`ClosestIsOne`). The cut keeps it, because what it takes is farther than the start hint
(`CutKeepsBest`); the tries keep it, because guesses of one identity have one rank in every map
(`SameKeySameRank`: this is where an identity anchored on one map fails); more guesses lower it
(`BestFalls`). What `Best` settles, `DeriveRound` inherits through the sum, whose recursive function
is shown to exist and to be monotone by induction over its length (`TotalRises`,
`TotalOfPercents`), as is the one that keeps first guesses (`KeptOfPrefix`).

### SessionLeaseProofs

For every number of processes and every renew period, whatever calls hang, throw or land late:

| Theorem | Says |
|---|---|
| `LeaseInvariance` | `[]Inv` |
| `HolderOwnsHolds` | `[]HolderOwns` |
| `OverrunIsShortHolds` | `[]OverrunIsShort` |
| `LeaseIsHeld` | `[]LeaseHolds`, of the two |
| `ReleasesAreFinal` | `NeverResurrected` |

Assumption: `LeaseAssumption` (the window is three renew periods). The argument is about where a
timer may fall. Its periods count from `Base`, the answer of the acquisition or the stamp of the last
renewal answered. `OnSchedule` says that every tick at which a keeper can still be holding lies one
period after that, or, after a throw within the grace window, two; the renewal sent at the second
that throws finds the lease overdue. So a keeper is gone three periods after `Base` (`HeldInTime`). Where
it has renewed, `Base` is the stamp it holds from, and three periods are the window; where it has not,
`Base` is later than that stamp by what the acquisition took, which is what `Exposed` is about. `Owns`
says that until the window passes the record is the holder's: nobody may take an unexpired one
(`ClaimsStand`), and only a late write of its own moves its expiry back.
`NeverResurrected` needs that nothing but renewals are out once a release was sent, whose condition is
to own.

### AccountsProofs

For every number of accounts, tokens, addresses, rounds and requests, every timeout, and every
number of faults:

| Theorem | Says |
|---|---|
| `Invariance` | `[]Inv` |
| `Reachable` | `[]AccountsReachable` |
| `CodesAreRationed` | `[]CodesHold` |
| `PurgedStaysClean` | `[]PurgedClean` |
| `Implementation` | `Accounts` implements `AccountContract` |

Assumptions: `SettleAssumption` (a purge settles for more than two timeouts), `CodeAssumption` (the window
of an allowance is longer than a timeout), `NoneAssumption`, and `StartsAssumption` (a run begins with
stores as the code leaves them: `Startable`).

`Inv` is `Types`, `Stores` (what the items agree on: an address and its account name each other,
nobody else is on an account saved nowhere, a code is the latest of its address, ...), `Truth` (what
each request holds at each of its steps), `Purging` (what the worker has swept so far) and `Clean`
(what is purged has left nothing). A step of one request is a step of the environment to the
others, so there are two contracts every step is shown to keep: `Onward` (births, deaths, codes and
versions are not taken back, and a deletion is stamped at most a timeout ago), from
which `Truth` of all others follows; and `HandsOff` (nobody but the
worker touches an account that is settled for its purge), from which `Purging` and `Clean` follow. The
second holds by the clock: a request that resolved the account before its deletion has timed
out, with whatever the deletion left in its hands, before the settle time is over (`InTime`).

The allowance (`Spending`): the sends an address was charged with are still counted until their
window has passed (`Counted`), no two codes are one send (`Distinct`), and a request about to spend read fewer
than the limit (`Room`); a spend is refused unless the list is the one that was read.

The refinement: a switch commits one transaction planned from many reads. `Fresh` says that a plan whose
versions stand names the rounds and scores as they are now, so the commit is the
contract's one-step adoption of what is stored at that moment; every other action is one operation
of the contract or changes nothing it sees.

### GroupsProofs

For every number of players, groups and requests, every cap, and every number of conflicts:

| Theorem | Says |
|---|---|
| `GroupsInvariance` | `[]Inv` |
| `OwnersAreMembers` | `[]OwnerIsMember` |
| `MembershipsArePaired` | `[]RowsArePaired` |
| `DeparturesAreFinal` | `[]DepartedForGood` |
| `RemovalsAreTheOwners` | `RemovalIsOwners` |

Assumptions: `NoneAssumption` (None is nobody; the players are finitely many) and
`StartsAssumption` (a behaviour starts with groups as the store leaves them). The argument:
every write of a group's members raises its version, and a write of the version is refused
unless it is the one the request read. So while the version a request read still stands, so do
the members and the owner it saw, and the heir it chose is still in the group. `Inv` says
exactly this of each request at each point, together with the pairing of the rows, and that
a group that was not created yet has no rows and one request that may create it.

### IdentityProofs

For every number of tabs, tokens and registrations, and for every number of acts, reloads, failed
writes, lost answers and sign-outs from elsewhere:

| Theorem | Says |
|---|---|
| `IdentityInvariance` | `[]Sound` |
| `TheTabsAreSound` | `[]TabsSound` |
| `TheNewerIsKept` | `NewerKept` |
| `TokensAreCounted` | `[](Sound /\ StoreTypes /\ Counted)` |
| `NothingComesBack` | `NeverBack` |
| `OneBrowserOneAccount` | `[]OneAccount` |

Assumptions: `SizesAssumption`, `NoneAssumption` and `StartsAssumption` (a browser begins as an earlier
session may have left it: the key's token was generated, its account exists, and the
accounts another browser may link are registered ones).

Every operation of a tab is first shown to be one kind of step, `Goes`: the tab becomes `m` and
the key `s`, the others hear of it if the key changed (`Move`); `m` and `s` have their shapes and agree
unless `m` has yet to hear of a change (`Keeps`); the lock is held by the tab that asks (`Locks`); an identity goes
out of the key, and a token is taken up, only in the ways `NewerKept` and `NeverBack` allow
(`Replaces`, `Takes`). `Sound` follows at once, and both action properties but for the mint. That one needs
where things come from, `Origin` for what a tab makes of the key and `Comes` for a whole
step: `Counted` says that what anybody names has been given out, and that a tab that knows its
pending token to be its own is asking with it, and the server either has not heard of that token or has answered
with an account nobody acted as (`Sure`). `OneAccount` rests on `Blameless`: in a browser in which nothing was
left, one token at most was generated and the key names it since, no tab has a reason to leave it
(`Clear`), and what a tab acts with the server knows (`Backed`); so a second bootstrap asks with
the same token, and gets the same account.

### BotProofs

For every number of players, messages, languages, deliveries, receives, faults and crashes:

| Theorem | Says |
|---|---|
| `NothingIsRepeated` | `NeverRepeated` |
| `TheLatestStands` | `[]LatestStands` |
| `SharesAreThanked` | `[]ShareIsThanked` |
| `TheLeadIsBest` | `[]LeadIsBest` |
| `NewsIsOfALead` | `[]LeadChangedHands` |

Assumption: `MessagesAssumption` (messages are numbered by their instants and have a sender, shares have scores). The
outbound queue: what is in the consumer's hand to be sent has no sent record (`OutboundInv`). The
declarations: `RowsInv` says of each row what `LatestStands` does, without its choice of a maximum. The
thanks: `ThanksInv` adds that a call whose change stands remembers to thank, has done so, gave up,
died, or is about to try again a record that it wrote without hearing of it, and the retry knows its own
earlier attempt by the row (`OwnEarlierAttempt`). The lead: `LeadInv` adds that the leader row only gets better
(`LeadsFall`) and that for each declaration that stands the row is no worse, or a call has still to claim
it (`Responsible`), the same retries included. The news (`NewsInv`): what a handler has in hand to
announce already displaced a worse row, and rows displaced stay in the history.

### ConversationProofs

For every number of messages, deliveries, jobs, versions, days and faults, and for every
budget, gap and ceiling:

| Theorem | Says |
|---|---|
| `DiaryIsSound` | `[]DiarySound` |
| `UnaskedIsBounded` | `[]UnaskedBounded`, which is about the answers one life of the task knows to be queued |
| `NothingSaidIsForgotten` | `[]LinesRemembered`, which after a restart leaves out the rows the load was not shown |

Assumptions: `MessagesAssumption` (instants, the gap and the budget are naturals) and
`StartsAssumption` (deliveries are of messages; the rows a task finds are of messages of days that
have come). The diary: `DiaryInv` adds what a process about to
put knows of the version it read; if that version is the last, what it writes follows it, and
otherwise nothing is put. The budget: `ChatInv` adds that whoever waits stands in the row
once and only its first is inside the section (`Orderly`); hence the exchange is still the one
it read when it speaks (`SeenHolds`); and that the exchange counts the unasked answers in a
row that end with the last answer (`Counted`). The memory: `MemoryInv` says that every turn has the
day of its message and every line of the bot was queued (`TurnsProper`), that a task that is
down holds nothing, and that what was said, heard back, is in hand, or is stored since the task
booted and was not missing from the load is in the copy, unless its day has become too old. A
handler that hangs keeps its place and touches nothing more (`HangKeeps`, `HangRemembers`). `Remains` is what every step
keeps: the copy forgets only what is too old, and nothing is on its way to the table that it does not
hold.

### RoundSyncProofs

For every number of tabs, accounts, words and editions, every cap, and every number of faults, delays,
reloads, moves and revocations:

| Theorem | Says |
|---|---|
| `Conversations` | `[]Inv` |
| `Sound` | `[]SyncSound` |
| `BoardGrows` | `BoardKeepsGuesses` |
| `GuessesKept` | `[]NoGuessLost` |
| `TypedOnce` | `[]StoredOnce` (no guess stored more often than it was typed), and so `[]NoGuessTwice`, of behaviours with `[][Prompt]_vars`: no request that its caller gave up on is still on its way, and no device changes under its account |

Assumptions: `BoundsAssumption` (the cap and the largest edition are naturals, at least one edition), `NoneAssumption`,
`StartsAssumption` (a run begins with rounds as earlier sessions stored them: `Startable`), and for
`TypedOnce` `TypedAssumption` (no earlier session stored a guess twice: `Remembered`).

`Inv` is the shapes of the stored rounds and of what is late, and for each tab `Sane`: its shape, `Settings` (a
conversation that is open is the page's, of an account), `Awaits` (a request under way belongs to the
conversation that made it or to an identity of an older device), `Strays` (so does a request of a
conversation that was left; nothing of it lands in the present one), and two facts that carry the argument.
`Shows`: what the tab shows is a beginning of the row of its account and sentence
(`Told`), or its sentence was replaced. `Newer`: an answer under way that will be adopted is no
older than what is shown, because a conversation has one request at a time and rows only grow
while their sentence stands. From the two, an answer that lands extends what is shown
(`BoardKeepsGuesses`), and what the outbox drops for it is in the row (`NoGuessLost`).

`Prompt` leaves out exactly the two steps after which the code does send a guess again that is, or
will be, stored: a request given up on that reaches the server after the read that was to settle it,
and a device that changes under its account while its batch is on its way.
Lost requests, lost answers, failures, signing out, reloads, a second tab, moves between accounts and new
editions stay in, and with them a batch that a new edition overtakes while its challenge is awaited: it is
stored under the new sentence, once, and counts against its typing for the old one. That a guess is
stored only for the sentence it was typed for is therefore not claimed; it is false (`SyncRepublished`).
The invariant is a book, `Booked`: to every place of every stored log belongs a
typing, and no typing to two places. What keeps it is `Fair`, a batch that may yet be stored was typed
and none of it is in the book; that needs `Square`, after a read what a tab owes is not in the book
(`Knows`), and all that is in the book of its typing is on its board, so that it is not typed again;
and that needs `Hears`, an answer under way tells of everything of this tab's typing that is stored.
The two tabs of one account may each store the same guess: each typed it.

Each action of a tab is shown to keep one contract, `Goes`: what it shows, what it waits for and what
it owes go on from what they were; each answer of the server another, `Truly`: it says what the row says.
`TypedBefore`, what a tab's outbox may hold and still has, links the two.

What filtering a sequence keeps is an induction over the naturals. The library's induction theorems
take an operator and cannot be used here; `Inductive` takes a set of naturals in its place (its
least missing member, `Least`), and `UnacknowledgedFacts` is proved with it.

### Only model-checked

- Liveness: `SolveIsRecorded`, `PurgeFinishes`, `DepartureConverges`, `GiveUpAnswered`, `OutboxDrains`,
  `SaidOrSeen`, `TurnsEnd` are out of the prover's reach.
- `NoGuessTwice` where devices change under their account. Where a request outlives its caller it fails,
  as told in section 3; the starts of `RoundSync` with such a request have no append to come late.

## 5. Not modelled, and the plan

Left out, and why:

- **Web screens, components, art, styles** (about half of the source): rendering and input. Of the
  screens only what lets a guess or a give-up through is in `RoundSync`, and what the account
  screens ask of the identity is in `Identity`.
- **Generation, curation, benchmark** (Python): offline data preparation over files and embeddings,
  one process each.
- **Infrastructure**: a deployment description; of it only the redrive policy of the queue.
- **Boards, previews, mail, avatars**: reads, sorting and formatting.
- **The model behind the bot**: prompts, tools and the web; any answer may come.
- **Credential store**: one promise chain around an outside library's state.

Parts of modelled components that are left out: the assignment ledger and re-publication of an
older content; the trimming of the solved days at their cap; the renaming of a group and the
listing's repair of a stray membership; the last-seen stamp of a device; a group's
settings other than acknowledging and announcing; the four days after which the queue forgets;
clock skew between Lambdas; SDK repeats of the lease's writes and credential drains before
the release.

Next, in order: the solved days at their cap; the credential store's chain; the game
store's persistence and the watch for a replaced sentence in the browser; the publication
ledger.
