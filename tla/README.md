# Formal models of ashare_lab

`ashare_lab` turns a description of a trading strategy for one A-share into a
confirmed specification, runs it against historical data and stores the result.
This directory holds TLA+ models of the parts whose correctness depends on the
order in which things happen, the TLC configurations that check them, and
proofs checked by TLAPS.

    tlc -workers 2 -config RunLifecycle.cfg MCRunLifecycle
    tlapm TimelineProofs.tla

`PROJECT.json` maps every definition to the lines it models.

## 1. The system

    POST /backtest-runs ── coordinator ── submission ──► run store ◄── cancel route
                               │                │            ▲
                          (preparation       message         │ read, compare-and-swap
                            threads)            ▼            │
                                           job queue ──►  worker ── daily engine
                                                                      │
                                                    decisions, orders, ledger,
                                                    corporate actions, analytics

    POST /strategy-drafts, answers, revisions ──► draft store (heads, revisions,
                                                  turns, idempotency slots)

    skill_app: submit ── backtest service ──► run store, thread queue ──► worker
                                │                                            │
    prepare_candidate ──────────┴──────────── preparation cache ─────────────┘

| Part (paths under `src/ashare_lab/`) | State | Operations | What is hard | What must hold |
|---|---|---|---|---|
| **Run store** `ports/backtest_runs.py`, `adapters/persistence/backtest_runs.py` | one row per run: state, version, progress; unique manifest fingerprint | `create_or_get`, `transition`, `request_cancel` | five writers, each a read followed by an UPDATE guarded by version and state | rows follow the lifecycle graph; a terminal row is final |
| **Worker** `application/execute_backtest.py` | local record, stage | `execute`, `_advance`, `_cancel`, the `except` block | duplicate messages, cancellation between check and write, errors of the store itself | one owner per run; a failure is a real error; no run is dropped |
| **Submission** `application/backtest_submission.py` | none | insert, then enqueue; replay of a stored run | the commit and the message are two steps | a queued run is carried by a message |
| **Coordinator** `application/async_backtest_submission.py` | `_preparations`, `_run_by_request_fingerprint`, futures, under one RLock | `submit`, `_prepare`, `request_cancel_preparation`, lookup | an id answered from three sources; a cancel that races the executor; memory lost on restart | ids stay pollable, final answers stay final, cancellations reach the run |
| **Cancel route** `api/routes/backtest_runs.py` | none | look up, check the store, cancel | three steps | an accepted cancellation is not undone |
| **Job queues** `adapters/jobs/` | messages; a semaphore in the thread queue | enqueue, deliver | refusal, loss, redelivery | slots are given back |
| **Daily engine** `application/daily_backtest.py`, `pre_open_sizing.py` | pending decision, unconsumed facts, account, anchors of the account exits, open round trip | one loop iteration per session, `_attempt_decision` | three kinds of exit compete with entries; suspended sessions, partial fills, T+1, bonus shares; state reset by hand | books agree with round trips; exits are pursued; entries do not overtake exits |
| **Ledger** `domain/portfolio/ledger.py`, `models.py`, `journal.py` | cash, lots, entitlements, postings | `apply_buy`, `apply_sell` | FIFO, cost allocation, T+1 | shares and principal are conserved |
| **Corporate actions** `domain/portfolio/corporate_actions.py`, `application/corporate_action_timeline.py` | entitlements by action and phase | capture, decline, accrue, settle | a trade between two phases; repeated phases | each entitlement is booked once and on time |
| **Draft store** `api/persistent_store.py`, `store.py` | a head row per draft with its storage version and conversation, revisions, idempotency slots | `create`, `revise`, `record_dialogue_turn`, `remember_http_response` | read, replay lookup and commit are three statements; retries of the transaction | no revision overwritten, no turn lost, a slot keeps its first value |
| **Draft routes** `api/routes/strategy_drafts.py` | local state of a request | create, answer, revise | seconds of computing between read and write; repeated and concurrent POSTs | one answer and one turn per repeated request; outdated outcomes are not stored |
| **Backtest service** `application/skill_backtest_service.py` | run rows; preparation cache with an epoch, TTL and LRU | `submit`, `execute`, `prepare_candidate` | two-statement stage changes, progress labels written by provider threads, a refresh during a slow preparation | runs end for the reason stored; no data older than a refresh is served |
| **Thread queue** `adapters/jobs/threaded.py` | semaphore, executor | `enqueue`, `shutdown`, `_report` | permits taken and returned on different threads | every permit comes back |
| **Orders and matching** `domain/orders/`, `domain/execution/` | one order aggregate, within one engine step | create … expire; match | price limits | filled quantity within the order |
| Dialogue progress, events, grid and conditional orders, strategy-v2 artifacts, funded benchmark | pure functions or insert-once rows | projections, replays | price arithmetic | – |
| Language understanding, market data adapters, legacy engine, web client | text, provider input, rendering | – | – | – |

`PROJECT.json` lists the same parts with what is modelled of each.

## 2. Modules

| Module | Models | Builds on |
|---|---|---|
| `RunStates` | states, lifecycle edges, `build_transition` | – |
| `RunContract` | abstract: what the store promises of every row | `RunStates` |
| `RunLifecycle` | submissions, queue, workers, cancel requests on the store | `RunStates`; implements `RunContract` |
| `PreparationCoordinator` | coordinator, its executor, the cancel route, restarts | an instance of `RunContract` as the worker side |
| `DraftRecords` | the values the draft store keeps | – |
| `DraftContract` | abstract: the draft store under one lock (`InMemoryDraftStore`) | `DraftRecords` |
| `DraftStore` | the database store and the routes, statement by statement | `DraftRecords`; implements `DraftContract` |
| `ProductService` | backtest service, thread queue, preparation cache | an instance of `RunContract` for its rows |
| `AccountContract` | abstract: an account in one security, without lots, journal or decisions | – |
| `DailyEngine` | the replay loop and the account | implements `AccountContract` |
| `PortfolioLedger` | `apply_buy`, `apply_sell` as operators on a portfolio value | – |
| `CorporateActions` | the phases of a corporate action and the two session boundaries, as operators | `PortfolioLedger` |
| `PortfolioTimeline` | an account over sessions: boundaries, fills, exceptions | `CorporateActions`; implements `AccountContract` |
| `MCRunLifecycle`, `MCPreparation`, `MCDailyEngine`, `MCPortfolioTimeline`, `MCProduct` | instances for TLC | |
| `RunLifecycleProofs` | theorems on `RunLifecycle` | |
| `PreparationProofs` | theorems on `PreparationCoordinator` | |
| `DailyEngineProofs` | theorems on `DailyEngine` | |
| `DraftStoreProofs` | theorems on `DraftStore` | |
| `ProductServiceProofs` | theorems on `ProductService` | |
| `LedgerProofs` | sums over finite sets; theorems on `PortfolioLedger` | |
| `ActionsProofs` | theorems on `CorporateActions` | `LedgerProofs` |
| `TimelineProofs` | theorems on `PortfolioTimeline` | `ActionsProofs` |

Six modules use an abstract specification through `INSTANCE ... WITH`: `RunLifecycle` and
`PreparationCoordinator` instantiate `RunContract` with their own rows (`Store`),
`ProductService` with its records (`RunRow`), and `DraftStore` instantiates `DraftContract`
with a refinement mapping (`Contract`): the revisions of a draft are its rows up to the
head's latest one, its conversation is the head's column, the slots are the idempotency table.
`PortfolioTimeline` and `DailyEngine` instantiate `AccountContract`, each with a mapping of its
own (`Account`).

Definitions whose comment starts with *Slip* change one definition of the model
the way a plausible programming error would. They take no part in any
specification; they record which error each property is there to find.

### RunLifecycle

`row[r]` is the stored row, `deliveries[r]` counts undelivered messages, `sub`,
`worker` and `client` hold the program counters and local variables of
`BacktestSubmissionService.submit`, `BacktestExecutionService.execute` and
`request_cancel`. Each read of the store and each write is a step; anything
may happen in between. `Local.rec` is the variable `record` (the row as this
worker last wrote it), `Local.cur` is `current` (as last read), which is the
distinction the `except` block depends on.

`Write` is one call of `transition`: it succeeds when the expected state and
version hold at the UPDATE and the edge is legal, and otherwise raises. The
adapter's SELECT and UPDATE are merged: the UPDATE repeats both conditions, and
no writer rewrites a row in the state it has, so only the moment of the UPDATE
counts. A write may also fail by itself before or after taking effect; the
worker only sees an exception. `Crash` kills a worker, `SubmitLost` is a crash
or a refused message between insert and enqueue, `Redeliver` a duplicate message.

### PreparationCoordinator

`prep`, `index` and `task` are `_preparations`, `_run_by_request_fingerprint` and
the futures. Bodies under the RLock are one step. `_prepare` outside the lock is
`Start`, `Create`, `Enqueue` (or their failures), then `Settle` or `MarkFailed`;
the route is `CancelLookup`, `CancelCheck` and one of `CancelPreparation` and
`CancelStored`. Workers take messages and otherwise move a row as `RunContract`
allows. `Restart` empties the process memory, and the queue when it is a thread
pool. `Lookup` is what a poller sees.

A cancel request may find no stored row and reach the coordinator after the preparation
has settled. The mark is then written on a local record nobody reads again and the client
is told `cancel_requested` all the same; such an answer is `"overtaken"`. Every other
accepted answer takes effect (`AcceptedCancelLands`).

### DraftContract, DraftStore

In `DraftContract` each operation of the store is one step, as it is in
`InMemoryDraftStore` under its lock: a new draft (a child takes its parent's conversation
along), a revision, a recorded turn, a remembered answer.

In `DraftStore` every request is a process. It looks for a remembered answer
(`CreateLookup`), loads the draft and decides on a `plan` (`CreateLoad`, `AnswerLoad`,
`ReviseLoad`): a new draft, a reply that keeps the revision, a revision, a data query, or
talk. What is computed meanwhile is that choice and nothing else. A transaction then
reads the head (`ReadHead`), looks for a replay (`FindReplay`) and commits (`CommitNew`,
`CommitKeep`, `CommitRevise`); the commit is one step, guarded by the `storage_version`
read (`Swaps`) and by unique keys, and what it writes comes from the row as it was read.
A commit that lost starts over, up to `MaxAttempts` times (`CommitLost`). Recording the
exchange is a second transaction of that kind (`ReadTurns`, `CommitTurn`, `TurnLost`) and
the remembered answer a third (`RememberAnswer`). A request may die before any of its
steps (`Die`), also of an error the routes do not expect.

Abstractions: a revision is the request that made it and its parent; a turn is the request
and the revision it speaks of; an answer is a draft, a revision, who computed that revision
and who wrote the reply. A request hash is the kind of request and, for a create, its parent.

### ProductService

`SubmitRun`, `AcquirePermit`, `SubmitFuture` and `FailRefused` are `submit` with the thread
queue inside it. A job enters a stage in two steps, `ReadStage` and `WriteStage`; between
them a cancellation may come. `Prepare` is the first locked block of `_prepare_candidate`
(a forced refresh empties the cache and advances the epoch; otherwise expired entries go and
what is found becomes the most recent entry), `PublishPrepared` the last one. `ReadLabel` and
`WriteLabel` are a provider retry shown to the user, `WorkRaises` any error, `ReadFailing`
and `WriteFailed` the `except` block, `ReturnPermit` the callback of the future. Preflights
share the cache. `accepted`, `broken`, `raced` and `stranded` are history variables: what was
told to a client, which runs met an error, which lost a race between read and write, and
which could not be failed because a cancellation came first.

`JobPcs` names the points of `execute` between which other threads are noticed; signals,
price plans and result documents are left out. The cancellation is one step, as
`RunLifecycle` shows its two to be.

### DailyEngine

One session is `PreOpen`, `Decide`, one action of `Attempt`, `Evening`, the order
of the loop body:

- `PreOpen`: an ex date accrues its entitlement, share credit settles, yesterday's
  purchases become sellable, the holding exit is emitted in its target session,
  new facts arrive.
- `Decide`: without a pending decision the earliest exit is chosen, and an entry
  only if there is none; a pending BUY is cancelled or replaced by an exit that
  is not older.
- `Attempt`: at most one order. `Suspended`, `BuyRefused`, `BuyUnfilled`,
  `BuyFilled`, `SellNothing`, `SellUnfilled`, `SellFilled` are the ways it ends.
- `Evening`: entitlements are captured at the record date, dividends are paid, the
  close may confirm a risk exit or, when all exit rules must hold together, the
  combined exit.

After the last session `Finish` turns what is left into a decision without a
future session and the replay stops (`CHECK_DEADLOCK FALSE`).

Abstractions: a fact is the session it is about and the first session whose
decision cutoff it meets; facts that meet the same cutoff tie. Indicators and
thresholds are gone, so an entry, a market exit or a risk confirmation may come
on any day on which the code would evaluate it. Prices and shares are small
integers, a fill is any part of the order at any listed price, fees are flat,
a dividend is 1 per share and a bonus issue doubles the holding, declined rights
change nothing, the allocation ratio is 1 and `retry_unfilled_exits` is the
strategy's `retry`. `crowded` and `activated` are history variables.

In the code a sale of bonus shares alone raises (finding 6); `DailyEngine`, which keeps
no lots, fills it and goes on. Up to that moment its behaviours are those of the code.

### AccountContract

What whoever trades on an account may count on: the shares held, for every coming date how
many of them can be sold then (`sellableBy`), cash, and one claim per corporate action. `Open`
credits the share actions that settle today, `Buy` and `Sell` are fills, `Close` makes a claim of
what is held at a record close and pays the dividends of the day, `Stop` is a replay given up.

- What is bought can be sold from the next date on, and a sale takes only what can be sold
  today; a BUY leaves cash that is not negative.
- Shares given in addition unlock at most themselves, from their sellable date; a session that
  settles a split or a merger, which change every lot, unlocks nothing before the first
  sellable date of what it settles.
- A claim is owed for exactly the shares held at its record close. It settles once, on its
  settlement date, for the amount it was made with, whatever is traded in between.

`PortfolioTimeline` implements it with `sellableBy[d]` the lots that are eligible on `d`;
`DailyEngine` with its three counts `free`, `fresh` and `credited`. So the totals that the engine's
properties are about, kept without lots, move under the same rules as the lots of
`domain/portfolio` do. The two models stay separate: that a given fill is accepted by both
is not claimed (finding 6 is where they part).

### PortfolioLedger, CorporateActions, PortfolioTimeline

A portfolio is a value: cash, a set of lots, fill ids, one claim per corporate action
(`CorporateActionEntitlement`), the phases in the journal, and the postings summed per account
(`books`). `Bought` and `Sold` are the ledger's two operations under `CanBuy` and `CanSell`. A
sale goes through the eligible lots by acquisition date and then by id; bonus lots share the
date of the lot they come from, and as the text of the ids decides which comes first, both
orders are allowed. `Capture`, `Decline`, `Accrue` and `Settle` return the next portfolio or,
where the code raises, one that is not `ok`. `BeforeSession` and `AfterSession` are loops
(`ForEach`, a recursive function over the calendar) in the order of `_for_instrument` that
stop at the first action that raises.

`PortfolioTimeline` is what the replay loops do with them: `OpenSession`, any fills,
`CloseSession`, `NextSession`. An exception leaves the portfolio as it was and ends the
replay (`failed`; `CHECK_DEADLOCK FALSE`). `trades` is a history variable.

Abstractions: one security, one currency, one revision per action; a fill has a session
but no time of day, so fills of one session are taken in the order they were made; the four
fees are one amount; money is an integer and a quotient rounds down, where the code
rounds to the precision of `Decimal` (what is left of a lot's cost is a difference in both);
every date is a session, as the callers require of record and ex dates
(`minute_grid_replay.py:311-314`).

## 3. Runs

| Run | Question | Instance |
|---|---|---|
| `run_lifecycle` | One owner, honest failures, sticky cancellations, no forgotten run, and the contract, in every interleaving | 2 submissions of one manifest, 2 workers, 2 cancel requests, 1 redelivery, 1 failing write, 1 crash |
| `run_lifecycle_live` | Does every run settle, and does an owner carry out a cancellation? | the same with 1 cancel request and no faults, under `FairSpec` |
| `cancel_stuck` (violation) | Does every requested cancellation complete? | 1 worker, 1 cancel request |
| `preparation` | Ids pollable, final answers final, one preparation per request, marked cancellations applied, accepted cancellations effective, queued runs delivered | 3 ids for 2 requests, 1 thread, 1 cancel request, 1 fault, 1 restart |
| `requeue_lost` (violation) | Does a repeated POST put a lost run into the queue again? | 1 id, 1 fault |
| `daily_engine` | Books, anchors, priorities, validity and pursuit of exits | 5 strategies, 3 corporate-action plans, 4 sessions |
| `holding_exit_lost` (violation) | Is a holding exit kept after its target session? | as above |
| `stale_entry` (violation) | Is a trigger valid for one session bought on later? | as above |
| `suspended_entry` (violation) | Is a valid entry retried after a suspended session? | as above |
| `portfolio_timeline` | Do shares, cash, entitlements, journal and principal agree with the trades and the calendar, whatever comes between the phases? | 6 calendars, 5 sessions, 4 fills of 1 or 2 shares |
| `costless_sale` (violation) | Can everything be sold that is eligible? | as above |
| `product` | Drafts: does the database store implement the one-lock store, do repeated requests get one answer and one turn, are outdated outcomes kept out? Service: do runs end for the reason stored, does everything settle, is nothing older than a refresh served? | 3 requests in 6 scenes; 2 runs and a refreshing preflight, 1 thread, 1 permit, 1 cache entry, 1 shown retry |

The properties:

- `SingleOwner`, `OnlyErrorsFail`, `AcceptedCancelSticks`, `NoRunForgotten` relate the
  row to what workers and clients believe about it. `StoreContract` is the
  refinement: each step of `RunLifecycle` creates a row, moves it along one edge
  with version + 1 and non-decreasing progress, or leaves the store alone.
- `RunSettles` excludes cancelled runs, because of the finding below;
  `OwnerCompletesCancel` is the part of cancellation that does hold.
- `OnePreparation`, `EveryIdAnswers`, `FinalStaysFinal`, `PreparationCancelApplied`,
  `QueuedIsDelivered` relate the coordinator's memory to the store and the queue.
  `AcceptedCancelLands` takes the client's side: whichever of the three places its
  cancellation was written to, the id is not waiting or running afterwards.
- `RoundTripsAddUp`: with nothing held, cash and dividends owed equal the initial
  cash plus the results of the closed trips. `AnchorsFollowPosition`: trip, anchors
  and queued exit exist exactly with the position. `ExitBeatsEntry`, `ValidityHolds`,
  `RiskExitPursued`, `HoldingExitPursued` state the priorities and the retries.
- `ImplementsAccount` is a refinement of `AccountContract`, by the engine and by the ledger. For
  the engine it includes that a BUY sized at the upper limit is paid for whatever it fills at;
  for the ledger, that no order of fills, credits and locks lets shares be sold early.
- `HoldingsAsStated`, `CashAsStated`, `EntitlementsAsStated` work out from the calendar and
  the history of trades alone what the account must hold, have and be owed; the ledger
  contributes only the cost or proceeds of a single fill and the shares an action gives,
  which `EntitlementsAsStated` ties to its ratio. `BooksAgree` sets the double-entry journal
  against the account. `BoundariesRepeat`: each boundary is idempotent, also after trades.
  `PrincipalCarried`: the fee-exclusive principal is moved, never made up.
  `SalesTakeOldestUnlocked`: FIFO, T+1 and the lock of bonus shares.
- `ImplementsContract` is a refinement: overtaken, retried and abandoned transactions amount to
  operations of the one-lock store. `SameKeySameAnswer`: requests that ask for the same thing
  under one key read the same answer, even if they ran together and the language model answered
  them differently. `OneTurnPerRequest`: a repeated request is in no conversation twice, nor in
  the part of it a child draft copied. `LandsOnItsRevision`: what was computed from a revision
  is stored only while that revision is the latest, in every retry.
- `EndsHonestly`: no result after an accepted cancellation, no cancellation unasked, no failure
  without an error or a lost race. `PreparationsFresh`: the cache holds nothing asked for before
  the last refresh. `JobsSettle`: under fairness every stored run ends, unless its
  failure could not be written, and every permit comes back.

### Bounds

- Two submissions, workers and clients are what a race here needs: every guard
  compares the row with one earlier read. The second submission carries the first
  one's manifest, so that the replay path and duplicate messages occur; independent
  runs share no state. `MaxQueue = 2` lets both workers hold a message of one run.
  One fault, one crash and one redelivery are each combined with every
  interleaving; the theorems below hold for any number of them.
- Three ids are the least with which one request is posted again while another
  occupies the only preparation thread.
- Four sessions cover entry, target, retry and recovery, and a record, ex and
  payment date around them. The invariants were also checked once with five. The
  strategies combine: the first exit that comes; edge exits with a risk rule; adding
  to a position; all exits together; a single exit attempt. `MaxDelay = 1` lets a
  fact be older than one that is acted on first; `MaxExitAttempts = 2` is the least
  that has a retry.
- The six calendars are pairs that interfere: a dividend and a bonus issue of one record
  date; a second bonus issue recorded before the first is credited; a split after a bonus
  issue with a session for trades before it settles; a merger of shares with a dividend and
  a rights issue; a record date two sessions before the ex date; terms that were not
  validated, next to a bonus issue recorded before the run began. With four fills a position
  is built from two lots and sold in two parts; odd quantities meet the factors 3/2 and 1/2,
  so that allotments that do not come out even, and the exceptions they raise, occur. The
  cash runs out after two large BUYs.
- `product` combines two models that share no variable, so that their interleavings say nothing;
  a behaviour moves one of them (`focus`): the drafts, the queue with shutdown and
  cancellations and no preflight, or the cache with preflights and neither shutdown nor
  cancellation, which the cache does not notice. Three requests are a repeated request and
  one that overtakes it, and just enough to lose a transaction more than once; the six scenes
  are the pairs that meet at one draft, slot or key. A conversation keeps two turns, so that the
  oldest is dropped. One thread, one permit and one entry are limits that two runs reach.

### Fairness

`FairSpec` assumes weak fairness of worker steps, of the delivery of messages to
idle workers, of `SubmitEnqueue` and of a cancel request being served: threads the
process keeps running. Each of these actions stays enabled until taken or overtaken
by another of the same process, so weak fairness is enough. Clients need not submit
or cancel. The liveness run has no crashes: the repository has no lease
or scan for orphaned runs, and its runbook says so. `PreparationCoordinator!FairSpec`
assumes the same of the preparation threads and of the workers taking messages.

`ServiceFairness` assumes it of the thread in `submit`, of the executor starting a waiting
job, and of each job; shutdown lets accepted jobs run (`threaded.py:62-63`). Nothing
is assumed of clients, cancellations or preflights. Provider retries are bounded
(`MaxRetries`), as they are in the code.

## 4. Proofs

The theorems on `RunLifecycle` hold for any sets of runs, workers and clients and any
bounds, from `NoRunAssumption` (the "no job" value is not a run id), `FingerprintAssumption`
and `BoundsAssumption` only. Those on `PreparationCoordinator` hold for any ids, requests,
clients, threads, faults and restarts, from `NoRunOutside`, `RequestTypes` and
`PreparationBounds`. Those on `DailyEngine` hold for any period, strategies, corporate
actions, cash, fees and prices, from `SessionsAssumption`, `StrategiesAssumption`,
`PlansAssumption` (an action is paid or credited after its record session) and
`PricesAssumption` (prices are positive and at most the upper limit; the proceeds of one
share cover the fee, as a sale whose fees exceed proceeds and cash aborts the replay with
`InsufficientCashError` instead of filling, `ledger.py:148-152`). Those on `DraftStore` hold
for any drafts, requests, keys, scenes, attempts and history length, from the assumptions
that slots are a scope and a key and that hashes cover the requests. Those on
`ProductService` hold for any runs, preflights, keys, threads, permits and cache size, from
`ServiceBounds` and `RefreshesKnown`. Those on the portfolio hold for any finite calendar of
actions with the dates and ratios their kind admits (`ValidAction`) and with different
names, any number of sessions, fills of any size, any price and any fees
(`TimelineAssumption`, `CalendarsAssumption`). They count whole shares and whole money with
quotients rounded down, as the model does: nothing is proved about the rounding of
`Decimal`.

| Module | Theorem | States |
|---|---|---|
| `RunLifecycleProofs` | `TypeCorrect` | `Spec => []TypeOK` |
| | `OneOwner` | `Spec => []SingleOwner` |
| | `LifecycleImplementsContract` | `Spec => StoreContract` |
| | `FailuresAreErrors` | `Spec => []OnlyErrorsFail` |
| | `CancelSticks` | `Spec => []AcceptedCancelSticks` |
| | `NobodyForgets` | `Spec => []NoRunForgotten` |
| `PreparationProofs` | `PreparationTypes` | `Spec => []TypeOK` |
| | `PreparedOnce` | `Spec => []OnePreparation` |
| | `IdsAnswer` | `Spec => []EveryIdAnswers` |
| | `Delivered` | `Spec => []QueuedIsDelivered` |
| | `MarkedIsApplied` | `Spec => []PreparationCancelApplied` |
| | `AcceptedLands` | `Spec => []AcceptedCancelLands` |
| | `FinalStays` | `Spec => FinalStaysFinal` |
| `DailyEngineProofs` | `EngineTyped` | `Spec => []TypeOK` |
| | `TripsAccountForAll` | `Spec => []RoundTripsAddUp` |
| | `AnchorsBelong` | `Spec => []AnchorsFollowPosition` |
| | `ExitsComeFirst` | `Spec => []ExitBeatsEntry` |
| | `EntriesExpire` | `Spec => []ValidityHolds` |
| | `RiskExitsArePursued` | `Spec => []RiskExitPursued` |
| | `HoldingExitsArePursued` | `Spec => []HoldingExitPursued` |
| | `EngineKeepsAccount` | `Spec => ImplementsAccount` |
| `DraftStoreProofs` | `DraftTypes` | `DraftSpec => []DraftTypeOK` |
| | `LandsOnRevision` | `DraftSpec => LandsOnItsRevision` |
| | `StoreRefinesContract` | `DraftSpec => ImplementsContract` |
| | `SameAnswer` | `DraftSpec => []SameKeySameAnswer` |
| | `OneTurn` | `DraftSpec => []OneTurnPerRequest` |
| `ProductServiceProofs` | `ServiceTyped` | `ServiceSpec => []ServiceTypeOK` |
| | `PermitsAccounted` | `ServiceSpec => []PermitsOwned` |
| | `RunsEndHonestly` | `ServiceSpec => []EndsHonestly` |
| | `CacheStaysFresh` | `ServiceSpec => []PreparationsFresh` |
| `LedgerProofs` | `SurvivorsKeep` | a sale of any lots removes the shares sold and the cost it allocates, and adds no principal |
| | `FifoSale` | it takes from sellable lots only, and from none while an older one has shares left |
| `ActionsProofs` | `BeforeSessionOK`, `AfterSessionOK` | what a boundary does to every claim, to shares, cash and books, and to the shares that can be sold on any date, for any calendar |
| `TimelineProofs` | `TimelineInvariant` | `Spec => []IInv` |
| | `TimelineTypes` | `Spec => []TypeOK` |
| | `HoldingsStated` | `Spec => []HoldingsAsStated` |
| | `CashStated` | `Spec => []CashAsStated` |
| | `EntitlementsStated` | `Spec => []EntitlementsAsStated` |
| | `BooksStayAgreed` | `Spec => []BooksAgree` |
| | `BoundariesIdempotent` | `Spec => []BoundariesRepeat` |
| | `PrincipalIsCarried` | `Spec => PrincipalCarried` |
| | `SalesTakeOldest` | `Spec => SalesTakeOldestUnlocked` |
| | `TimelineKeepsAccount` | `Spec => ImplementsAccount` |

**Run lifecycle.** `TypeInv` is `TypeOK` and the shape of local states (which worker
has a job, which stages a program counter can have). `SingleOwner` is not inductive: it
does not say why a second claim fails. The strengthening `Owned` adds what each owner
*knows* of its row (`KnowsRow`): the row is never queued again; while the version is the
one the owner wrote, the row is exactly its record; a higher version means that the run
was cancelled under it or is terminal, or that one of its writes raised although it took
effect, which `trouble` records. `Untouched` says that a queued row is the one that was
inserted. A step of a worker changes its own knowledge (`OwnStep`); what the others do to
the row is only a cancellation (`OtherCalm`, `KnowsCalm`). As the row of an owned run is
not queued, a second claim is refused (`NewOwner`). `FailuresAreErrors`, `CancelSticks`
and `NobodyForgets` are then inductive relative to `Owned`; the refinement needs
`TypeInv` only.

**Daily engine.** None of the properties is inductive alone; `Steady` joins them with what
they rest on. `Books` states the accounting at every moment: cash and dividends owed are
the initial cash, the closed trips and the money of the open one, which is zero when there
is none. It is kept when a dividend accrues only because the shares it was captured on
are the shares held at the next open, so that something owed implies an open trip:
that is `Claims`, which says when an entitlement exists and what it is worth. The same
fact keeps promised bonus shares from reviving a position that was sold
(`SharesBeforeOpen`). `AnchorsFollowPosition` then follows fill by fill. `RiskInForce` and
`HoldingInForce` say in every phase where an exit in force can be found; `BuyClock` counts
the attempts of a BUY; `Clock` bounds what was decided when. That a BUY never passes over
an exit (`NoBuyOverExit`) needs that one of several exits is always the earliest
(`EarliestExists`, from the well-foundedness of the naturals), and `Affordable` is the
arithmetic of sizing a BUY. Steps that leave the account alone share `AccountKept`,
attempts that fill nothing share `QuietAttempt`.

The refinement of `AccountContract` follows from `Steady` step by step: `PreOpen` is its `Open`,
the two fills its `Buy` and `Sell`, `Evening` its `Close`, all else a stutter. `Claims` gives that
an entitlement is settled on its date and not before. Cash after a BUY is what `Affordable`
bounds, with `CashSuffices` from `Steady`.

**Preparation coordinator.** Two facts carry everything. Rows are never removed and never
become active again (`RowsKept`), and only the preparation of an id inserts the row of that
id (`RowSound`). So while an id is being prepared the index names it, which makes
preparations unique (`OnePreparation`); its answer comes from the local record until the
preparation is over and from one stored row ever after (`RunSound`, `FinalStaysFinal`); and a
restart, which empties the memory, ends every id at once. For cancellations, `Landed` names
the places from which one is not lost (a cancelled task, a mark that `_prepare` will still
read, a row that is no longer active); a client told "accepted" can point at one of them,
and every step of the others leaves it there.

**Draft store.** `storage_version` only grows (`Grows`), so a head with the version a request has
read *is* the row it read. This makes a commit an operation on the present row
although every column it writes comes from the earlier one, and with it each commit a step of
`DraftContract`; a step that commits nothing is a stutter. `DraftInv` adds what requests
hold: a head read belongs to a stored draft, an outcome's revision exists. For the
keys, a slot keeps the first value stored in it (`SlotsKept`), and a request that has answered
under a key holds the value of its slot (`AnswerSound`), so two requests for the same thing hold
one value. A turn is written only by the create whose own value the slot holds (`Mine`), as a
replayed one records nothing, and no conversation has a turn of it before (`Lacks`).

**Backtest service.** `ServiceInv` says what each program counter of a job knows of its row:
which stage it has entered, that what it last read differs from the row only by a cancellation,
that whoever is in the handler has met an error or a race. Accepted rows stay in
`cancel_requested`, `cancelled` and `failed`, which gives `EndsHonestly`. The epoch grows in the
step that empties the cache, and an entry is inserted only with the present epoch; `Without`
keeps each remaining entry once, in order, and inserting first drops the entry of the same
request. The permits that are out are counted: `permits = Cardinality(Holders)`, the runs that
`enqueue` took and `_report` has not given back.

**Portfolio.** The account is a sum over lots, claims and fills, and a sum is a recursive
function whose next term is picked by `CHOOSE`. `LedgerProofs` first shows by induction on finite
sets that the pick does not matter: `SumRemove` takes out any term, and `SumUnion`,
`SumUpdate`, `SumImage` let sums be split, changed in one term and carried over to new lots. The
induction is the least-number principle applied to cardinalities (`SetInduction`), stated with
sets where the library's theorems take operators. For a sale, the amounts consumed add up to the
quantity sold (`ConsumedInAll`) because the lots come in a total order that has a last one
(`LastLot`), and a lot is touched only when the earlier ones are used up (`OlderFirst`).

`AccountOK` is what every account satisfies: lots are open and traced to a recorded fill or to
an action that settled; a claim says in each phase what the journal recorded of it; books equal
lots and claims. Each phase keeps it and is `Balanced`: shares less what actions granted, cash
less what they paid, and the principal of lots and claims together stay what they were. Here the
lock matters: accrual reserves principal lot by lot, and what it gives up the settled lots take
on. A loop gives each action exactly one turn unless it fails (`TurnsTaken`), so a boundary is
its phases (`LoopOK`), and run once more it has nothing to do (`LoopIdle`).

None of the properties of `PortfolioTimeline` is inductive: what a claim brings tomorrow
depends on the shares held when it was captured, which the account no longer shows. `IInv` joins
`AccountOK` with the history: shares and cash are the fills plus what settled actions brought
(`HoldingsAdd`, `CashAdds`), and every claim is in the phase that the day says, for the shares
that the fills up to its record close and the earlier credits gave (`OnTime`). A fill cannot
disturb `OnTime`, as it comes after the closes that were counted; a boundary moves claims
just as the day does. `ClaimsAdd` then turns the sums over claims into those that the
properties take from the calendar. TLC checks `IInv` on the portfolio instance too.

The refinement of `AccountContract` uses `IInv` as it is. `OnTime` says which claims the abstract
account must find due; `SettledMore` turns one boundary's settlements into the sums that `Open`
and `Close` state. What can be sold on a date d (`Free`) is the sum over the lots that are unlocked
by then. A fill changes it by what is bought or consumed (`BoughtOK`, `SoldOK`; a sale takes
unlocked lots, which are unlocked on every later date as well, `SaleUnlocked`). The close leaves
it alone. At the open each settled action may only add its own shares, and those only when d is
at or after its sellable date (`Frees`); the loop adds these up action by action.

**Only model-checked:** the liveness properties `RunSettles`, `OwnerCompletesCancel` and
`JobsSettle`, because fairness is stated with `ENABLED`, which the prover does not handle; and
`MCProduct.TypeOK`, the conjunction of `DraftTypeOK` and `ServiceTypeOK` for the instance that
runs both models (`DraftTypes` and `ServiceTyped` prove the two, each under its own
specification).

## 5. Findings

Each has a run whose counterexample shows it.

1. *A cancellation can stay `cancel_requested` for ever* (`cancel_stuck`). It lands
   between a worker's first read and its claim; the claim is refused and `execute`
   returns (`execute_backtest.py:180-184`) although nobody else will look at the run.
   `docs/SPEC.md:386` says a requested cancellation ends in `cancelled` or another
   terminal state.
2. *A repeated POST does not requeue a lost run in the same process* (`requeue_lost`).
   The coordinator answers from its index (`async_backtest_submission.py:85-89`) and
   never reaches the enqueue. `docs/runbooks/production.md:86` says the replay
   enqueues it; that holds only after a restart.
3. *A holding exit is lost when another exit is chosen in its target session and does
   not fill* (`holding_exit_lost`). It is emitted in that session only
   (`daily_backtest.py:430-445`). `docs/SPEC.md:1442` leaves the rest of the position
   to later DAY orders.
4. *An entry trigger valid for one session is bought on later* (`stale_entry`): facts
   are consumed only while no decision is pending (`daily_backtest.py:472-481`).
   `docs/SPEC.md:1428` says it is not chased across sessions.
5. *A suspended session ends an entry whose validity still runs* (`suspended_entry`,
   `daily_backtest.py:561-572`), against `docs/SPEC.md:1417`.
6. *Bonus shares cannot be sold by themselves* (`costless_sale`). They are credited with
   zero cost (`corporate_actions.py:298`); `_sell_entry` posts the sold cost whatever it
   is (`ledger.py:217-225`) and a posting of zero is refused (`journal.py:66-67`), so
   `apply_sell` raises an error its callers do not expect. It takes a sale of the original
   shares between ex date and credit, or a partial sale that starts with a bonus lot.

Some behaviours are in the models and contradict no text, so that they have no run:

- A cancellation that reaches the coordinator after the preparation has settled is
  acknowledged and lost (`routes/backtest_runs.py:290`; `"overtaken"` above).
- A create that dies between storing its draft and recording its exchange never records it:
  the repeated request replays the draft and records nothing
  (`routes/strategy_drafts.py:554`).
- The revision guard of a transaction precedes the replay lookup (`persistent_store.py:234-237`),
  so a repeated request about a draft that has been revised since is answered as stale, although
  its own result is stored.
- `revise_strategy_draft` does not expect the `DraftRevisionStale` of a transaction that
  lost three times and answers with an internal error, as does a replayed create whose
  data query meets a revised draft.
- A cancellation between the two statements of `_stage` ends the run as `failed`, not
  `cancelled` (`raced`). One between the two statements of the `except` block, or between a
  submission and the refusal of its job, leaves the run `cancel_requested` with nobody to finish
  it (`stranded`).

## 6. Not modelled

Most of the repository's source is input, output or text: language understanding with its
prompts and parsers, data providers and snapshot validation, document and report assembly,
the web client and the legacy engine. They keep no state between calls that order could
break; the models take their results as choices. The map therefore covers a small share
of the source lines: the parts in which several threads, requests or sessions meet.

- **Orders and matching.** An order is created, submitted, matched and expired by one caller
  within one step of an engine; nothing interleaves with its state machine, and its
  outcomes are actions of `DailyEngine`. Limits, lots and fees are tabular arithmetic.
- **Events, grids, conditional orders, scheduled plans, funded benchmark.** Sequential functions
  of given price series over the ledger that `PortfolioTimeline` models.
- **Strategy-v2 artifacts and gate.** Comparisons of hashes over rows inserted once.
- **Dialogue progress.** Labels of one request for display, kept for a while in a bounded map.
- **In the modelled parts:** labels, timestamps and result documents of a run; the checks of a
  request before its row is inserted (one step that may raise); the routes that only read; the
  RQ queue beyond its delivering, losing and repeating messages; `remember_review` of the draft
  store, which inserts a row that nothing here reads; the equity curve, benchmark columns and
  price adjustment of the engine; other securities and currencies in a portfolio.

## 7. What could follow

1. The minute-grid replay on top of `PortfolioTimeline`: order routing between grid and
   conditional orders within one bar.
2. The funded benchmark and the scheduled executor as two more implementations of
   `AccountContract`.
3. Several processes of the product service on one database, as `execute` does not claim the
   queued row.
