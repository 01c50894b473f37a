# Common Arcade: a verification project

Common Arcade runs matches between people and agents. Some are free, some are
played for testnet tokens that a contract holds. Creators build the games in a
studio, with a co-pilot that edits them and agents that test them. This project
models the parts of it in which a mistake costs money, a seat, a finished game
or a creator's work. It holds TLA+ modules translated from the source, TLC
configurations that check them on small instances, and theorems that TLAPS
proves for every instance.

Line numbers below refer to `src/`. `PROJECT.json` maps every definition to the
lines it stands for and lists components, runs, mutants, hazards and theorems.

Contents: [the system](#the-system), [what makes each component
correct](#what-makes-each-component-correct), [modules](#modules), [runs and
bounds](#runs), [fairness](#fairness), [proofs](#proofs),
[findings](#findings), [what is not modelled](#not-modelled), [what comes
next](#what-comes-next).

## The system

| component | state it keeps | operations | talks to |
| --- | --- | --- | --- |
| Escrow contract (`packages/contracts`) | per match: terms, status, seats, pools, winner; per account: claimable amounts; token and resolver lists; used authorizations | create, five ways to take a seat, fund, bet, lock, settle, void, refund, claim, withdraw | tokens (ERC-20, EIP-3009) |
| Payment match host (`services/payment-service/src/matches.ts`) | a record per match on disk; in memory `liveRecords`, `runtimes`, clocks, tickets, controllers, a queue per match | create, start, cancel, action, autoplay, entry, settle, observation, realtime session, recover, close | adapter, store, runtime, sockets |
| Settlement adapter (`escrow.ts`) | a queue per resolver key | simulate, submit and await a transaction; relay a signed payment; read seats at a confirmed block | chain RPC |
| Match runtime (`packages/match-runtime`) | game state, commands, timeline, events, checkpoints, ownership epoch | submitAction, advanceTick, pause, end, exportReplay, recover | game definition |
| Match worker (`services/match-worker`) | matches, seats, sessions, control generations, series, strategies, held inputs | create, find, claim, release, connect, suspend, resume, vote, strategy update, rounds, maintenance, recovery | runtime, tickets, match store |
| Realtime gateway and client | streams with sequence numbers, resume tokens, sockets | handshake, resume, project, revoke, expire | match worker |
| Match store (`match-store.ts`) | chunks and a versioned pointer | save, load | document store |
| Strategy loop and policies | reviews, leases, policies' memory and scores | review, update, renew, choose an action, learn, adapt, coordinate | match worker, model providers |
| Control API (`apps/control-api`) | projects, revisions, releases, co-pilot jobs, playtests, recordings, keys, in a conditional document store | hundreds of handlers, a few dozen with several writes | document store, queue, model providers |
| Studio pages and previews (`apps/web`, `packages/studio`) | a draft, the runs shown, agents in a frame, a diagnostics outbox | edit, save, publish, run, coach, play, report | control API, the frame |
| Other pages, CLI, MCP server, SDK, schemas | view state only | requests | the services above |

How they interact. A host signs `create`; the payment host writes the terms to
disk and makes a pool on chain. Players pay seats straight into the contract or
through the host. Once all are paid at a confirmed block the host locks the
pool, waits for the receipt and starts the runtime. Every action is written
before it is acknowledged. When the game ends the result is written, then the
contract settles it (or voids it on a draw), then the record says settled.
Anybody may void an expired pool, so refunds never depend on the service. Free
matches are created on the worker, which runs their rounds and ends them when
nobody is connected; browsers reach them by tickets and sockets of the gateway.
An agent plays a seat by a script that a review renews under a lease. The
studio's pages save revisions through the control API, whose handlers share
nothing but conditional writes of single documents.

What is hard. The chain answers late or not at all and goes on without the
service; a write may fail; the process may be killed or shut down between any
two awaits; one queue orders the operations of a match but reads, sockets and
timers run beside it; requests of the control API interleave at every call of
the store and may stop there; a page acts on what it knew when it was clicked;
deadlines pass meanwhile; and sums of integer shares must come out even however
claims are ordered. `PROJECT.json` lists each such hazard at its line with the
properties that cover it.

## What makes each component correct

* Contract: it never owes more than it holds; a payment is credited once; a
  seat has one owner and a player one seat; only a fully paid match is locked;
  decisions are final; every match can be ended and every debt collected
  without the resolver.
* Payment host and adapter: nothing is dealt before the lock is confirmed; no
  payout before its result is durable, and never of another result; nothing is
  reported that the chain did not do; the disk never goes back; what failed can
  be asked for again; a paid seat is credited once however often it is asked
  for; the one place for a realtime table is given back on every path.
* Runtime, caches and stores: an acknowledged action survives; what is saved
  can be read, verified and recovered; a finished match stays finished.
* Match worker: whoever acts on a seat is its present controller; a remembered
  input belongs to the controller who holds it; rounds are counted once; what
  was answered is saved and stays saved; a running match has its clock; a match
  nobody is connected to ends; creation stays within its limits; a strategy
  that was replaced or has lapsed plays no more.
* Gateway and client: a connected page shows the match as it is; one socket acts
  for a session.
* Control API: no save overwrites another; rights are checked against what is
  replaced; history stays readable; a co-pilot's change is applied once, on what
  it was made for; a playtest step is decided once.
* Studio pages: what the creator typed is not lost to an answer; what is
  published is what was seen; diagnostics arrive once; a stopped preview holds
  no key.

## Modules

Every module opens with a comment that says what it models, what a step is and
what is left out. The first group below is about paid matches, the second about
free ones, the third about games and agents, the fourth about the studio.

| module | models | state and actions |
| --- | --- | --- |
| `Tokens` | sums over token holders and shares | operators only: a total is the number of coins |
| `ArcadeEscrow` | `ArcadeEscrow.sol`, and its token as an external | one variable per mapping of the contract, one action per external function (`createMatch` and `createOpenMatch` are one action with `open` in the terms; `claimRefund` and `claimRefundFor` differ only in the caller) |
| `EscrowMatch` | what the contract promises about one match | status, owners, paid and due seats, winner, result hash |
| `PaidMatch` | one match of `MatchHost`, its adapter and the contract | the contract as `EscrowMatch`; the resolver's transactions; the record on disk; the record and runtime in memory; a program counter. One action per stretch of code between two awaits whose outcome matters |
| `RuntimeCache` | `require`, `runtime` and the agent's clock when reads overlap actions | record and runtime objects, the two maps, the exclusive operation, the reads |
| `SeatControl` | control of one paid seat: page, socket, tickets, controllers | pages, sockets with their messages, tickets, queued operations, what the game holds |
| `SeatEntry` | entry with a signed payment, relayed, recovered and retried | the chain at its newest and at a confirmed block, the requests, their payments |
| `RealtimeTables` | the one place for a realtime table of a payment worker | tables on disk and in memory, starts under way, clocks |
| `AuthoritativeMatch` | a match runtime, its saves through `DurableMatchStore`, recovery and verification | live history, queue, pending step, chunks and pointer, what was acknowledged |
| `MatchWorker` | one match of `LocalArcadePlatform` | seats, sessions, the runtime, the series, timers, the saved record and a program counter for the operation in the match's queue. One action per request, socket event, timer and awaited answer |
| `MatchHosting` | creation under a key, limits, matchmaking, expiry and recovery of many matches | matches on disk and in memory, calls under way |
| `StrategyLoop` | one seat that an agent plays by reviews: worker, routes, page | the strategy in force, its lease, reviews, the page's loop; what is held, by whom it is remembered, and whether it has gone astray |
| `StrategyReport` | what a review is told of the strategy in force | counters in bounded windows |
| `RealtimeStream` | one session between gateway and client | sockets, streams, sequence numbers, tokens, what the page shows |
| `SandboxedGame` | a creator's rules in a sandbox over rounds and verification | the shared game object with its prepared data, runtimes, replays; a next round that cannot be created |
| `GridPlacement` | a declarative board game run by two requests of the test arena | board, turn, requests |
| `RuntimeTrials` | the smoke test of a release and the headless test of a project | the trial's steps and verdict |
| `LivePolicy` | the policy that scores actions and learns | memory, offers, scores |
| `PolicyRuntime` | compiled declarative policies | state, cooldowns |
| `Adaptation` | changes of strategy by contract | confirmations, dwell, cooldowns, the window of changes |
| `TeamCoordination` | a team's messages, strategy and leases | proposals, acknowledgements, leases |
| `DocumentStore` | the conditional store behind the control API | operators only |
| `StudioProject` | a project: saves, collaborators, notes, releases, publication | documents, and requests cut at their store calls |
| `CopilotJobs` | co-pilot jobs of a conversation, their workers and reviews | jobs, runs, changes, queue; workers and requests |
| `Playtest` | decisions and coaching of a browser playtest | the run's record with its lock, its log; requests |
| `StudioRecords` | recordings, access keys, the co-pilot's agent, debug steps | records kept under two keys; requests |
| `StudioWorkspace` | the studio's page of a project | draft, known project, a request or run under way; the API as seen from it |
| `PlaytestPage` | the page of a turn-based playtest | sessions, the frame and its restarts, decisions and answers |
| `PreviewAgent` | agents in a preview: page, frame, messages, the game's promises | runtime, mail, held keys and which have gone astray, strategies |
| `PreviewTelemetry` | the diagnostics outbox and its storage | samples, batches, what is stored and counted |
| `MC*` | instances for TLC | constants, and properties of several parts together |
| `*Proofs` | | theorems |

Where the code's state went:

* `account[m]` is `MatchAccount` with its `Terms`; seats are pairs `<<m, s>>`
  as in the nested mappings. Amounts are naturals: the code uses 256-bit words
  and checked arithmetic, and a token's supply keeps sums below the width.
* In `PaidMatch` the record is `TableRecord` reduced to stage, seats, funded,
  cancelRequested, replay and runtimeError. `mem` and `live` together are the
  object an operation works on and whether `liveRecords` holds it: an operation
  on a live record changes it for the next one even when the write fails, and a
  copy that is not live is forgotten. `pc` names the await the operation is at.
* A replay is the number of its moves, its outcome, and how often the same game
  was exported again: `exportReplay` stamps each export with a new date
  (`match-runtime/src/index.ts:599`), so its hash differs.
* The chain is asynchronous: `Send` appends to `mempool`, `Mine` executes or
  reverts, `Confirm` moves the block at which seats are read, and
  `ReceiptLost` ends the wait without the transaction being withdrawn.
* In `MatchWorker` a controller is an actor with one of its controller ids. A
  session is also its ticket before it is redeemed. `op` is the operation at
  the head of the queue of `exclusive`, at one of three awaits: the release of a
  held input (`stop`), the runtime of the next round (`create`), the store
  (`save`). Sessions change at any of them, as the socket callbacks of the
  gateway do. `late` is the save of a failed tick: its `catch` is attached
  outside `exclusive`, and its synchronous part runs before the next operation
  does, so only the save overlaps. A restart reads what the store holds and
  writes it again under a new epoch; `TakeOver` is the same in another process.
* In the modules of the control API a request is a program counter and the
  documents it has read; one action is the code between two calls of the store,
  and an action of its own ends a request anywhere.
* `StrategyLoop` measures time by what is left of a lease (two units of 30 s,
  a plan of one), so that time needs no bound.
* An input that its seat or its agent has let go of and that the game goes on with
  all the same is *astray*: a ghost in `StrategyLoop` and `PreviewAgent`. It goes
  astray where the code forgets what it holds without a release that the game
  carries out (it offers none, it refuses it, the seat has no action at all), or,
  on the worker, where a save fails; and it is no more when the game has taken
  another input from the seat.
* A state of a game is the sequence of steps that led to it (`AuthoritativeMatch`,
  `SandboxedGame`, `RuntimeTrials`): any rules are allowed, and a hash is that
  sequence.

Simplifications that a reader should know, beyond those in the modules' heads:

* `PaidMatch` has open, staked seats only (reserved and sponsored seats differ in
  who may be paid, which `ArcadeEscrow` covers); the funding watch and the
  host's call are one `StartBegin`; a first write that fails changes nothing and
  is left out; block reorganisations deeper than the confirmations are not
  modelled.
* In `MatchWorker` the match exists, and nobody pauses it (`pauseMatch` and
  `resumeMatch` have no caller in the servers). A step of the game is atomic
  although the code hashes the new state in it, except in the handoff, where that
  await matters; the release of a held control is accepted by the game. At most
  one save of a failed tick is outstanding. Spectators change no seat. A restart
  whose first save fails leaves the match out, as if it were not restarted.
* `AuthoritativeMatch` leaves out `fence`, which has no caller.
* `StudioProject` and its neighbours accept every document: what the schema
  refuses changes nothing. The notes of a project are a set, so notes that are the
  same in all that is modelled are one note; what is said of notes is that their
  places are kept.

## Runs

| run | instance | shows |
| --- | --- | --- |
| `escrow_pool` | 1 match, 2 seats, 3 accounts, fees of 10 %, royalties of 30/70, deposits of 10 on a stake of 15, pool at most 30, 3 instants | `Solvent`, `EveryShareIsCovered`, `PayoutIsExhausted`, `LockedIsFullyPaid`, `DecisionIsFinal` |
| `escrow_entry` | 2 matches, 2 accounts, 1 authorization, amounts 7 and 10 | a payment counts once over both matches; one seat each; each match refines `EscrowMatch` |
| `escrow_exit` | 1 match, 2 accounts, fairness, governance free | every match ends and everybody is paid |
| `paid_play` | `MCPaidPlay`: a match with a realtime clock, 2 seats, 2 players, 3 moves and 3 faults of any kind; one that an agent plays; `RuntimeCache` with 2 reads and 3 actions; `AuthoritativeMatch` with saves | nothing dealt before the lock, only recorded results are paid, acknowledged actions survive, the disk goes forward, a paid match ends |
| `worker_rounds` | 1 seat, 2 controllers, 2 rounds of a realtime match, a held input, 1 fault of 7 kinds, left alone in any state | `HoldIsCurrent`, `RecordMakesSense`, `SavedGoesForward`, `UnattendedEnds` |
| `live_match` | `MCLiveMatch`: sessions of one seat and of two with late joins; the control of a paid seat | `SeatsAreTrue`, `SeatIsPlayed` |
| `live_play` | `MCLivePlay`: a preview's diagnostics and its agents; a connection; three realtime tables | diagnostics arrive, keys are the agents', the stream shows the match, tables are freed; all of it comes to rest |
| `control_api` | `MCControlApi`: projects, co-pilot (four sizes), playtest, records, two pages, hosting, paid entry | saves are safe, history is kept, changes are applied once, records agree |
| `games` | `MCGames`: the strategies of an agent; rules in a sandbox, board, trials, policies, adaptation, team, live policy, report | `LeasesAreKept`, `StrategiesAreCurrent`, `RulesAreKept` |
| `paid_shutdown` | lost receipts and a shutdown | **finding**: a retry can become impossible |
| `cache_reads` | `RuntimeCache` with reads anywhere | **finding**: an acknowledged action is lost |
| `worker_input` | 1 seat, 1 held input, no faults | **finding**: a disconnect leaves it on |

Five of the passing runs hold several parts that share no state. A variable
(`focus`, `played`) is chosen at the start and says which part moves; the others
stay as they begin, or, in `games`, are not there (`NoPart`). The state space is
the sum of the parts, not the product, and a property of such a run is the conjunction of what each part promises on
one subject: the module's own definitions state the parts. `MCPaidPlay`,
`MCLiveMatch`, `MCGames` and `MCControlApi` extend one part each (`PaidMatch`,
`SeatControl`, `StrategyLoop`, `StudioProject`), so that its constants are those of
the cfg and its properties are those that the theorems state; the parts that are
instances get their constants in the MC module.

### Bounds, and why they are enough

* Escrow. The constants are chosen so that roundings differ: a fee of 10 % whose
  half does not come out even, royalties of 30 and 70 % of that, and up to three
  bets of 10 on two outcomes. Two winners of 10 each share 29, so the second gets
  the remainder; one may have bet twice on the same outcome, or on both. Unequal
  bets without a common divisor are left to the theorems. Two matches are enough for
  every interference between matches, because they share only balances, claimable amounts and authorizations.
  `QuietGovernance` lets the owner enable a token and a resolver and then stay
  still, since pausing and revoking only remove behaviours that the safety
  properties concern; `escrow_exit`, whose properties they could break, has no
  such constraint. The theorems below hold without it.
* `PaidMatch`. Three faults are a lost receipt, a failed retry and a restart in
  one behaviour, and three moves are a restart between moves. `byAgent` has no
  shutdown, because of the first finding.
* `RuntimeCache`. `ReadsAlone` (no read overlaps an operation) and `GivenLive`
  (autoplay is granted on the live copy) are what the code does not enforce; the
  pair of runs shows that the first is what is missing. Without the second, a
  clock that keeps its copy after a restart writes "playing" over a settled record.
* `AuthoritativeMatch`. 2 actions and 2 steps with a snapshot every 2, 2 chunks, 3
  saves, 1 fault: a save that is cut off between two that are not. The theorems
  below hold for all of these.
* `worker_rounds`. Two rounds are one that is replaced and one that is the last;
  one fault of each kind meets every state that a bound of 2 requests reaches.
  `HoldIsCurrent` is checked without late joins and *proved* for games without
  them; a late-join seat opens with its remembered release (see below). `RoundsAddUp`
  exempts what follows a game that refuses its next round.
* `MatchWorker` in `live_match`. Three requests of one seat are a claim, a handoff
  and a release, two sessions the old and the new one of a seat; two seats of
  two people with two requests add the round that a vote begins.
* `StrategyLoop`. 2 reviews overtake each other, with 1 handoff, 1 upset, 1 note;
  in real time there is a note or an upset, not both (`NotesApart`). The theorems
  hold without it.
* `SeatControl`. 1 page, 2 sockets, a queue of 2 instead of 16, 2 faults: a full
  queue, and a connection that is cut again.
* `SeatEntry`. 2 requests, 3 payments of two players with funds for 2, 2 posts, 2
  mishaps, among them blocks that are undone. `TransfersLast`: an undone block holds
  no transfer that a player submitted itself; `escrow.ts:226-228` searches it up to
  the newest block, so the code assumes it too.
* `RealtimeTables`. 3 tables for one place and 3 mishaps.
* `RealtimeStream`. 2 sockets, 3 versions, 2 drops: a resumption that drops again.
* `StudioProject`. 2 requests of 4 at a time, 2 documents, 1 crash: two writers with
  a third change between them. Symmetry of requests and reviews.
* `CopilotJobs`. Four sizes: a job handed from worker to worker; changes that are
  reviewed; two jobs of a conversation; an invocation delivered twice. 1 fault.
* `Playtest`. 2 deciders, 2 coaches, 2 steps, 3 requests, 1 crash.
* `StudioRecords`. 4 calls, 1 lost; a test run of 2 steps, which may be over after
  the first, so that calls remain for a run that is over. `StudioWorkspace`: 4 contents, 3 clicks, 1
  mishap; `SavesUndisturbed` leaves out typing while a save is under way, which is
  lost (see below). `PlaytestPage`: 2 sessions, 2 steps, 1 coaching, 1 mishap; the
  frame is restarted any number of times. What the API compares of a request is
  which decisions the frame has played: games played differently look different.
  `FrameIsTheLog` asks for a frame without gaps only while the ghost `open.whole`
  says that it has been there since the session began. `ResumedAtRest` leaves out a
  resumption of the session that has a decision under way.
* `MatchHosting`. 3 keys of 2 owners, limit 2 and 1 per owner, 2 seats, 3 calls, 1
  mishap. `beside` and `unsaved` name the matches that the code itself does not count.
* `PreviewTelemetry`. 2 servers, capacity and batch of 2, 2 attempts, 3 steps, 1
  fault. `PreviewAgent`: 1 seat, 2 holds, 2 epochs, 1 strategy, 2 promises, 1
  trouble, and one message on its way to the frame (`MaxMail`): the page sends
  nothing before the last has arrived, so no two of its messages wait together.
* `games`. Team: 2 ticks, messages and proposals, 1 responsibility. Adaptation: 4
  contracts, 5 observations. Policies: 2, with 4 steps. Board: 4 cells, 2 lines, 3
  steps. Sandbox: 2 rounds of 2 steps. Live policy: 2 lessons. Report: windows of
  2, 2 and 1 with 3 entries. Trials: 2 seats, 3 steps. Each window or limit is
  smaller than what is put into it.

Deadlock checking is off where the system may stop: a match that is decided,
paid out and saved has nothing left to do. The `escrow_*` runs have it on, but it
shows nothing there: some call that changes little is always possible, so the
contract never stops in that sense. That it can always be brought to an end is
what `escrow_exit` shows.

Each property of a passing run has a mutant, a plausible slip in one mapped
definition (beside that definition, marked `Slip`) under which TLC finds it
violated.

## Fairness

* `escrow_exit`: time passes, and somebody calls what anybody may call
  (`voidMatch` after the deadline, refunds and claims of others, one's own
  withdrawal); nothing is assumed of the owner or the resolver.
* `paid_play`, the agent's match: the event loop continues an operation whose
  await returned, blocks are made, time passes, a failed settlement or
  cancellation is asked for again (the endpoints are open to callers, the service
  itself retries only at startup), and an expired pool is voided by somebody.
  Faults are bounded, which is what "retry until it works" presupposes.
* `worker_rounds`: awaits return (`Continue`), time passes, and the sweep of every
  five seconds gets its turn in the queue of the match again and again (strong
  fairness of `Maintenance`: the queue is first come, first served, so an operation
  that is enqueued repeatedly is not overtaken for ever). Nothing is assumed of
  players, sockets or timers of the game.
* `live_play`: the outbox flushes and its requests end (a fetch gives up after ten
  seconds); of a preview's agents only that a lease ends; messages that were sent
  on an open socket arrive, closes are heard, resume windows end; the funding
  watch starts what it can, and a table that was started ends.

In a composite, the fairness of a part that does not move asks nothing, because
none of its actions is enabled.

## Proofs

Theorems hold for every value of the constants that the ASSUMEs of the modules
allow: finite sets of matches, seats, accounts and tokens, and a name for nobody
that is none of them; natural numbers as bounds. Bounds that keep TLC's instances
small (`MaxTime`, `MaxPool`, `MaxFaults`, `MaxRequests`, ...) are constants of the
theorems, so they hold for bounds of any size.

### The contract

`ArcadeEscrowProofs` begins with the facts about sums that the rest needs: a
total changes by what one holder's amount changes, a share is at most the total,
and balances that are the same have the same total. Coins are counted, so these
are facts about cardinalities.

* `TypeCorrect`: `[]TypeOK`. `TypeOK` alone is not inductive: a payout computed
  from fees is a natural number only if the fees are at most the pool. `TypeInv`
  adds `TermsOK` (every match that exists was created with valid terms, so shares
  are at most 10000 basis points) and `PoolOK` (the pool of an outcome is at most
  the bet pool). `FeeBounds` is the arithmetic; there is one lemma per group of
  functions, and `TypeNext` puts them together.
* `DecisionsAreFinal`: by what each action does to the account of a match.

By `SeatsInv`, about seats:

* `OneSeatForEach`: the contract looks at `_seated` and not at the other seats, so
  `SeatsInv` says that every owner of a seat of an open match is in `seated`
  (`OwnersSeated`).
* `LockedPotsAreWhole`: `lock` compares the counter `paidSeats` with the number of
  seats, so `SeatsInv` says that the counter is the number of paid seats and that
  the prize pool holds that many stakes (`SeatsCounted`), that only the match's
  own seats are owned and only owned seats paid (`SeatsOwned`), and that a match
  before its creation has neither (`Untouched`). Equal counts of a set and its
  subset then make them equal.
* `MatchesBehaveAsPromised`: the refinement of `EscrowMatch` by every match. A call
  on another match leaves what is seen of this one (`Unseen`) and is a stutter; a
  lock is the abstract one because the seats that are due are the paid ones.

By `PoolInv`, about bets: the pools add up to the bets
(`BetsCounted`), nobody has claimed before the decision (`NothingClaimed`), and
what is left covers the unclaimed shares at the rate at which the whole payout
covers the winning pool (`PayoutCovers`). A claim divides with a remainder; that
the remainder stays with those who follow is the product inequality that this
invariant carries from claim to claim.

* `PayoutsAreExhausted` and `SharesAreCovered` follow from it.

By `MoneyInv`, about money: `Solvent` itself, the prize pool as the
sum of what a void would refund (`StakesCounted`), nothing owed by a match that
does not exist (`Empty`), an unused nonce that has brought no money and backed
none (`NoncesOK`), and royalties that fit (`RoyaltiesFit`).

* `BooksAlwaysBalance`: per token, to the last unit, what the contract holds is what
  it owes and what was sent to it otherwise.
* `NoClaimLacksMoney`: what anybody may claim is there.
* `SettlementIsCovered`: the subtraction of the royalties in `settle` never reverts.

### The match worker

`MatchWorkerProofs` has three inductive invariants over the same types. First, from
`TypeInv`, `OpenInv` (an open seat is nobody's, in memory and wherever a match is
saved), `SessionInv` (a live session holds its seat in its present generation and
the round that runs; a ticket may be stale) and `HoldInv` (a remembered release is
its controller's and the input is on; while an operation waits for an input to
stop its seat still remembers it; while a round is made no seat does):

* `HoldsAreCurrent`: `[]HoldIsCurrent`, and `LiveSessionsHoldSeats`.

Beside the sessions, `StatusInv`: a free seat is open wherever it is saved (`Shown`),
the seat of an operation that waits for an input to stop is not free, sessions are
numbered as they come, and a seat is connected when a session of it is
(`Connections`):

* `LobbyIsTrue`: `[]SeatStatusIsTrue` for games without late joins or without inputs
  that are held (`SeatsOrInputs`). With both it is false: a late-join seat can lose its
  player while the handoff of its input is awaited, as said below.

Then with `AgeInv` (a seat has had no more generations than there were requests),
`RoundsInv` and `CountInv` (rounds, archive and scores, in memory and in every
record that is stored or on its way), `ClockInv`, `OrderInv` (the memory is ahead of
what it sent to the store, and of the store unless another worker has written it)
and `AnswerInv` (what was answered, or is about to be, is in the record that the
answer waits for):

* `RecordsMakeSense`: `[]RecordMakesSense`, with the module's `TypeOK`.
* `SavedOnlyGoesForward`: no write goes back, whoever makes it.

The module's dozens of actions are classified once, by what a step does to the
match (`Moves`), to seats (`SeatMoves`), to the store (`Stores`) and to answers
(`Answers`); each invariant is then preserved by the classes.

### The payment match host

`PaidMatchProofs` has one invariant, `PaidInv`, for any seats, players, drivers,
numbers of moves and faults of every kind at any await:

* each record by itself (`Sound`): a game is on it only if the pool was locked and
  every seat is paid by the player whom the contract has there, and it says
  settled only of a match that the contract paid to its winner or voided;
* the record in memory continues the one on disk, and the running game is that
  record's or ahead of it (`InHand`), according to where the operation is;
* what the host waits for is the transaction it sent last, and when it goes on
  the contract is where that leads (`WaitInv`);
* a settlement that is under way, or was mined, has its result on the disk
  (`ClaimInv`), which is what makes a lost receipt harmless;
* what was confirmed of the chain stays so (`ChainInv`).

`DealtOnlyWhenLocked`, `PaidAsRecorded`, `PaidMatchIsTyped` and `DiskOnlyGoesForward`
follow; the last is the first part of `RecordGoesForward` of `paid_play`. That a
shutdown changes the replay's hash is in the model, so none of these theorems says
that a retry succeeds: the first finding is that it may not.

### The copies of a paid match

`RuntimeCacheProofs` is about `CarefulSpec`: `RuntimeCache` with reads that do not
overlap with operations (`ReadsAlone`) and seats given to agents on the live copy
(`GivenLive`), the two conditions that `paid_play` also has; the code does not ensure
them, and `cache_reads` shows what happens without. Under them `CacheInv` says that
whatever copy can still be written is the record on the disk: the live one
(`LiveInv`), that of the operation under way (`OpInv`), those that reads are about to
install (`ReadInv`), and that of the agent's clock and its late tick, unless the
match is over (`ClockInv`).

* `AcknowledgedStay`: what was answered as accepted stays in the replay on disk.
* `FinishedStaysSo`: no step changes the record of a match that is over.
* `CacheIsTyped`: `[]TypeOK`.

### The history of a match

`AuthoritativeMatchProofs`, by `MatchInv`, for any actions, length of a game, period
of snapshots, number of chunks and faults:

* the running match, whether or not a step awaits its hash, has a timeline that
  repeats its state (`Repeats`), checkpoints of what the state was then
  (`TrueCheckpoints`), no action twice (`Once`), and remembers every action on the
  timeline as accepted (`GameInv`);
* so does every match that is saved, being saved, or carried by a put that may still
  arrive (`WholeMatch`), which is what makes exporting and recovering inverses;
* a save whose version would be accepted continues the saved match, and so does the
  running match if its version is the pointer's (`SavesInv`, `PointerInv`). Versions
  alone do not say that: it is why a late put of a process that is gone is harmless.

`SavedMatchesAreWhole`, `AcknowledgedStaySaved`, `ActionsApplyOnce`, `SavesOnlyGoForward`
and `SavedMatchIsTyped` follow. The checkpoints that `restoreCheckpoint` takes over
come from a loop (`TakenOver`); what it computes for a replay of any length is proved
by induction, with the set of the places where the claim fails and its least element
(`HasFirst`, from the library's fact that the natural numbers are well-founded).

### The control of a paid seat

`SeatControlProofs` assumes `ControlBounds` (some socket and some place in the queue,
names that are not numbers) and proves, by `ControlInv`, for any pages, sockets,
length of the queue and number of cut connections and restarts:

* `OneControllerPerTicket`: a ticket that has admitted somebody is void, also while
  another request that presents it waits for its turn (`TicketsInv`);
* `ClosedSessionsLeave`: if the controller's socket is gone, its close is among the
  operations of the match (`SeatInv`), so it takes its turn;
* `NoKeysInherited`: whoever releases or opens a control lets go of what is held;
* `KeysArePlayed`: an input is in the page's queue, on the socket, an operation of the
  match, or held. `KeysFit` says that the last of these, in that order, is what the
  player wants, and `PageFits` and `SocketFits` what is where: one input in flight, one
  answer for it, one connection of each socket.

`SeatIsPlayed`, which `live_match` checks, is their conjunction with the types
(`TheSeatIsPlayed`).

### The strategies of an agent

`StrategyLoopProofs` assumes `LoopAssumption` (a lease, a planning time and a patience
of at least one; a person and nobody are no agents) and has one invariant, `LoopInv`:

* `AgentInv`: a strategy belongs to the controller of its seat, and what is left of
  its lease with its age is at most two leases, which bounds how long it can be
  prolonged;
* `OpInv`: between two awaits of an update no strategy is in force, and the session
  opened for it is the only one (`NoSessionLeaks`);
* `InputInv`: an input that is on is remembered by the seat or held by the strategy,
  or it has gone astray, and neither believes that something is on which is not
  (`InputIsRemembered`, `LapsedLetsGo`);
* `KeptInv`: how long a seat has kept its move, by what its timer has seen of the
  position (`TurnIsNotForfeit`): once it has seen this position it counts the units;
* `ReviewInv`: the review that may still be applied was not overtaken, and a note is
  answered by the review that carries it (`OnlyCurrentUpdates`, `NotesStayUntilHeard`).

`AStrategyKeepsItsLease` and `StrategiesStayCurrent` are the two properties of `games`
in full. `LapsedLetsGo` says that nothing is held past the lease but what has gone
astray, for the code does not let go of everything, whatever the guides say (see
below). What counts as astray is fixed by the steps of the model, each at the line
where the code forgets: `releaseAgentInput` when the game does not offer the release
or refuses it, a seat without a legal action, a failed save, an input on since
before the strategy. The theorem is that there is no other way.

### A project of the studio

`StudioProjectProofs` assumes `StudioBounds` (natural bounds; whoever is no
collaborator has the empty permission) and `OwnerIsNoMember`. By `StudioInv`, for any
requests, collaborators, documents and crashes:

* a request that read the project at its present version has read what is stored, and
  what it read has its snapshot (`SeenFits`); the store accepts a put only at that
  version, so what it replaces is what the request saw;
* what a request is about to save differs from what it read in the one part that its
  kind changes, its author may change that part of what was read, and for a new
  revision the snapshot is there (`DraftFits`, `OnePart`);
* who read the publication before it was switched off would put over an older version
  (`OutdatedFits`).

`RevisionsHaveSnapshots` is `HistoryIsKept`. `NoUpdateIsLost`, `OnlyWhoMaySaves` and
`TakenDownGamesStayDown` are action properties that follow from the same invariant;
`ConcurrentSavesAreSafe` is their conjunction, `SavesAreSafe` of `control_api`.

### What stays with TLC

* Liveness and fairness, and ENABLED: `EveryMatchEnds`, `EverybodyIsPaid`,
  `PaidMatchEnds`, `UnattendedEnds`, `LivePlayComesToRest`. They are out of the
  prover's reach.
* What folds and RECURSIVE operators compute for inputs of every length (parts of
  `RulesAreKept`): the library's induction theorems take an operator as a parameter,
  which the provers here do not instantiate. Where it mattered (`TakenOver`) the loop
  is a recursive function, and the induction is spelled out.
* What composed runs say of several parts at once is not a theorem in that form, but
  its parts are. Of `paid_play`, `AllTypesOK` is `PaidMatchIsTyped`, `CacheIsTyped` and
  `SavedMatchIsTyped`; `AcknowledgedActionsSurvive` is `AcknowledgedStay`,
  `AcknowledgedStaySaved`, `SavedMatchesAreWhole` and `ActionsApplyOnce`;
  `RecordGoesForward` is `DiskOnlyGoesForward`, `FinishedStaysSo` and
  `SavesOnlyGoForward`. Of `live_match`, `SeatsAreTrue` is `LiveSessionsHoldSeats` and
  `LobbyIsTrue` (its instances hold no inputs) with the types of `RecordsMakeSense`.
* The other modules, which have no theorem: co-pilot jobs, playtests, records, pages,
  hosting and paid entry (`ChangesAreSafe`, `RecordsAgree`, `ConversationIsKept`,
  `StrategiesTakeTurns`), previews, the realtime stream and the table limit
  (`live_play`), and the games, trials and policies (`RulesAreKept`). They share
  the techniques above, but not one of their invariants is proved.

## Findings

1. *Shutdown can make a settlement unconfirmable* (`paid_shutdown`).
   `close` (matches.ts:1524-1528) exports the replay of every live record
   again. A record is live while its settlement is pending. If the settlement
   was broadcast and its receipt lost, the chain holds the hash of the first
   export and the disk a replay with another date, hence another hash;
   `settle` answers "Settlement conflict" for ever. The runbook says "failed
   settlement remains retryable" (docs/payments/runbook.md:71). The winner's
   money is safe on chain; the service never reports it.
2. *A read can undo an acknowledged action* (`cache_reads`). `observation`
   calls `runtime` outside `exclusive` and installs what it recovered after its
   awaits (matches.ts:445-448). After a restart this can replace a newer record
   by an older one. The runbook says "acknowledged actions survive". It takes a
   match that is not recovered at startup: turn-based, without autoplay.
3. *A disconnect leaves inputs on* (`worker_input`). Neither `suspendSession`
   nor `disconnectSession` (index.ts:1006-1053 of the match worker) releases
   what the player holds; README.md:104-106 says that it is released "on
   disconnect or handoff".

What else was seen in the source while it was modelled. No run is about these;
where a property would be touched, its definition or an action constraint names
the case, so that it is not hidden.

Payment service
* Autoplay granted after a restart, on the copy that the request made, keeps that
  copy in the clock; its tick can write "playing" over a settled record
  (`GivenLive`).
* A cancellation recorded while a lock with a lost receipt is still to be mined
  leaves the match locked, unplayed and not cancellable until the settlement
  deadline; it ends then (`CanceledLobbyCloses`).
* An input that the agent holds is not released when autoplay is switched off.
* A retried entry with another `controller` is answered with one that the chain
  does not have; a retry from an empty wallet is told `insufficient_funds`, and one
  after the start that players are no longer taken, though the seat is paid.
* A table that was stopped because a save failed comes back after a restart beside
  one that was started since; a table whose recovery failed becomes live on a
  request without a clock.
* `paid-realtime-game.tsx`: an error clears the queue, with a queued release in it.

Match worker, gateway, runtime
* The next accepted action makes the worker forget the release of a control that is
  still held (index.ts:1774), so a handoff does not stop it either; `HoldIsCurrent`
  says only that what is remembered is right. In a late-join game a seat opens with
  its remembered release.
* A handoff awaits that release (index.ts:806); if the last session of a late-join
  seat is given up meanwhile, the seat ends up claimed by nobody.
* An action whose save failed is answered `duplicate` when it is sent again, without
  a save (index.ts:1739). `AnsweredIsSaved` is about `accepted`.
* If the runtime of the next round cannot be created (index.ts:2261), the series is
  active and its runtime completed, and a queued tick counts the old result again.
* `advanceRound` starts a round when every seat is taken, `claimSeat` when
  `seats.min` are (760, 2287): a late-join series with an open seat returns to the
  lobby after each round.
* The worker's replay exports (1789-1805) are synchronous: one during the await of a
  checkpoint is torn and fails verification. Saved replays are not.
* `DurableMatchStore.save` has no size limit, `load` has; old generations are never
  deleted. Rejected action ids are forgotten over a restart.
* Rounds that advance from a break and matches back from a restart are not counted, so
  the active limit can be exceeded; a match that awaits its restart never expires; a
  search retried after a lost answer can seat the player in a second match.

Agents, policies, games
* "When the lease lapses, the worker releases held input" (docs/guides/agent-coaching.md:28,
  apps/web/content/docs/guides/live-matches.mdx:98-99). It does if the game offers the
  release and accepts it. The worker forgets what the agent holds whenever the seat has
  no legal action (index.ts:1491-1493) or the chosen one is not legal any more (1504),
  and `releaseAgentInput` (1654-1665) submits nothing if the release is not offered; the
  lapse then finds nothing to release and the input stays on. `LapsedLetsGo` excepts
  what has gone astray in this way. A preview does the same
  (preview-agent-runtime.ts:81-96; preview-agent-runtime.test.ts:183-188 expects that
  nothing is sent), and with no legal action it lets go of nothing (222-236).
* A review in flight at a pause installs its script afterwards, so the guide's "Pause
  stops the loop; the script stops within a minute" can be wrong by a lease. Two
  loops for one seat can supersede each other for ever. A failed save after an agent's
  action stops its timer with the input held.
* A sandboxed game's prepared data is shared by all its runtimes, so a view of the old
  round during the await of the next sees the next round's, or none, and for good if
  the next cannot be created (sandboxed-script.ts:227-233); a rule that fails in
  `result` leaves the state ahead of the replay, which later fails verification.
* A team's second proposal before an advance reuses the epoch, so an acknowledgement of
  the first counts for it. A policy rule whose preferred actions are not legal
  yields no action instead of the fallback.
* The smoke test accepts a non-integer step time that the runtime refuses, and passes a
  game that ends before a seat has acted.

Control API
* studio.ts:540 says that "a failed CAS can only leave an unreferenced snapshot"; the
  snapshot is listed and can be read. A publication cut off between its release and
  its record is listed publicly but reads as unpublished.
* A step of a test run that is over is accepted, changes nothing and raises the run's
  version (studio.ts:1109-1123).
* Revoking a key that was cut off between its two puts conflicts for ever, while the index
  lists the key as active.
* A co-pilot invocation that is delivered twice carries out requests again and starts a
  second run; a change that is cut off while it is applied stays "applying".
* A playtest decision that fails under a coach's put leaves its lock for 120 s; a crash
  between commit and event leaves a hole in the log.

Studio pages and previews
* What is typed while a save is under way is overwritten by its answer; a Copilot run
  started with unsaved edits is not shown, and the next save puts the old document over
  its revision; a lost answer leaves the page in conflict until a reload.
* Restarting the preview, or looking at the code, in an open playtest starts the game
  anew and leaves the session where it was (game-studio.tsx:3161, 3182, 3283): nothing is
  played again, a decision that was asked before is played in the new frame, and the
  next is asked at the old step with the new frame's observation. Showing an earlier
  session that is cut off while it is played again leaves it at its last step.
* A playtest decision whose answer comes after a newer strategy is dropped though it was
  committed, as is every retry.
* A seat of a preview that is let go while its step is pending gets its input from the
  late promise, and nobody releases it; after a restart the old runtime's release can
  clear the new seat's input.

## Not modelled

The clients and tools (CLI, MCP server, SDK, schemas) keep no state of their own.
The economy package holds formats, network tables and the contract's ABI. Of the
web application only the pages of the studio are modelled, not the match page (but
its review loop), wallet payments, the agent's wallet and computer panels, the
landing pages and the assets; these are views over the services above. Also left out are the
lists and views of the control API, sign-in, sponsored entries, the faucet, the
revenue report, the texts that prompts consist of, model providers and the
deployment.

The map covers about a quarter of the implementation's lines. The rest
is for the greater part of the kinds just named, together with rendering, schema
validation, formatting and generated tables, which no property here would tell
apart. Where the code of a modelled part is longer than its model, detail is
abstracted as the module's head says.

## What comes next

The safety properties that the runs check of the contract, of a match on the worker,
of a paid match and its copies, of a saved history, of the control of a seat, of
strategies and of projects are theorems. Next are theorems about `CopilotJobs` (a
change is applied once, on what it was made for) and `RealtimeStream`. In the model:
the match page, the wallet payments, and admission rules of `MatchWorker`.
