# A verification of crypto-mas in TLA+

Models of the trading core of `crypto-mas` (`src/src/crypto_mas`), checked with TLC and proved about with TLAPS.
Paths below are relative to `src/src/crypto_mas` unless they begin with `docs/` or `tests/`.
`PROJECT.json` has the runs, the source lines behind every definition, the findings, the hazards and the theorems.

## 1. The system

A bot is a schedule and a paper account of the same name. A *trading cycle* of the bot fetches candles,
marks its positions to market, asks a strategy for a decision per symbol, has a target portfolio built and
assessed, and puts it into a queue. One worker thread takes the targets from the queue and executes them on
the paper broker: it marks, closes what is not in the target, opens what is. A *backtest* runs the same cycles
over stored candles, with repositories in memory in place of the database's.

```
 API routes, Telegram          lists of gainers         websocket trades
        |                             |                        |
   SchedulerService  ------>  TradingCycleService  <------ EventEngine
   EventDrivenService         (a task per cycle)           (spikes)
        |                             |   <------------------ BacktestEngineService
   active_bots.json                   |                       (in-memory repositories)
   BinanceWebsocketClient             |
                  HistoricalFetcherService, CandleIntegrityChecker --> candles
                                      |
                  StrategyOrchestrator: strategies, gates, LLM committee
                                      | decisions
                              PortfolioEngine, RiskEngine
                                      | approved target
                               OrderExecutorQueue  --worker thread-->  PaperBrokerService
                                                                        |  positions, paper_accounts
 exchange adapters  -- resilient / circuit breaker -- exchange          database
```

What makes it hard: cycles are coroutines that give way at every await; the worker is a thread of its own with
its own database session; a cycle also marks (and closes) positions itself; each broker operation commits row by
row but writes the account's cash once at its end; candles of one series are stored by live cycles and backtests
at once; the queue, the scheduler's jobs, the event-driven bots and a backtest's task live in memory only.

### Inventory

| Component | State | Operations | Hard behaviour | What makes it correct | Model |
|---|---|---|---|---|---|
| Paper broker (`services/paper_trading`) | positions, account cash and equity; cash carried in a local variable | mark, close what is not in the target, execute, update balances | overlapping sessions, failures between commits | money is conserved, one open position per symbol, no double close | `PaperBroker`, `PaperLedger`, `PaperMath` |
| Portfolio engine, risk engine (`engine/portfolio`, `engine/risk`) | none | build, assess, reduce | rounding of caps, order of candidates | limits hold, the stronger candidate wins | `TargetEngine`, `TargetPipeline` |
| Trading cycle, execution queue (`services/trading_cycle_service`) | a row with a status, what a cycle read; tasks in memory | begin, fetch, mark, decide, enqueue, fail; the worker's loop | outdated reads, errors, restarts | position limit, cooldown, nothing closed unasked, every task taken | `TradingCycle` |
| Strategy orchestration and entry gates (`strategy_orchestrator.py`) | closed positions and their times | cooldown, whipsaw lockout, filters of long entries, shields | gates depend on the regime of the moment; two repositories | entries keep their distance to stop-losses; live and backtest agree | `EntryGates`, `Strategies` |
| Strategies, tactics, regime, trend signal (`engine/strategy`, `engine/regime`, `engine/signal`) | none | decide | overlapping thresholds | no entry against the trend | `Strategies` |
| Market data, candle integrity (`services/market_data_service`) | candles | page, resume, validate, store | concurrent fetchers with windows of different lengths, a fetch cut short, gaps | live cycles leave no hole within the shortest of their windows | `CandleSync` |
| Backtest engine (`services/backtesting`, `apps/api/routers/backtest.py`) | the job's row and task, repositories in memory | run, load, simulate, complete, cancel, delete | the API writes the row of a running job; time is simulated | COMPLETED means whole, memory answers like the database, no look-ahead | `Backtest` |
| LLM committee (`engine/llm_committee`) | today's audit rows, consultations | check the limit, vote, decide, record, fall back | costs recorded long after the check; agents that never answer | spending bounded, strong votes not overruled, consultations end | `Committee` |
| Bot scheduler (`scheduler_service.py`, `event_driven_service.py`) | jobs, event-driven bots, `active_bots.json` | start, stop, update, resume, shut down | crash while writing, two tables for one bot | no bot twice, stopped bots stay stopped, bots survive a restart | `BotScheduler`, `BotRegister` |
| Websocket client (`websocket_client.py`) | wanted streams, connection, send tasks | add, remove, connect, lose | changes while disconnected | the exchange sends what is wanted | `StreamClient` |
| Circuit breaker (`infrastructure/api_client/circuit_breaker.py`) | failures, time of the last, open | request, record, retry | late answers, half-open | opens on consecutive failures, does not hammer, calls end | `CircuitBreaker` |
| Event engine (`engine/strategy/event_engine.py`) | windows, last trigger per symbol | trade, trigger | bots change while a trigger runs | no overlap past the limit | its effect on cycles in `TradingCycle`, its bots in `BotScheduler` |
| Telegram (`services/alerting`) | update offset | poll, command | `/panic` beside running work | bots stay down | `/panic` in `BotScheduler`, awaited alerts in `Committee` |
| Exchange adapters, HTTP API | - | requests, routes | retries | - | calls in `CircuitBreaker`; bot and backtest routes in `BotScheduler`, `Backtest` |

Section 6 has what is not modelled, and why.

## 2. The modules

### PaperMath, PaperLedger, PaperBroker

`PaperMath` is the arithmetic in whole ticks: fees, slippage, cost, proceeds, with the code's order of operations.
`PaperLedger` is the abstract specification: one pot of cash, at most one holding per symbol; opening takes the
cost out once, closing returns the proceeds once.
`PaperBroker` is `MarkToMarket.update_mark_prices`, `PositionManager.close_positions_not_in_target` and
`execute_target_portfolio`. `rows`, `cash` and `equity` are the committed database, `ses` is what each session has
in memory (the operation, the ids still to visit, the cash it carries). One action is what a session does between
two commits. `MarkHit` and `MarkCredit` are two actions because the code commits the closed row and the credit apart.
A session may crash anywhere (`Crash`), which drops its memory and keeps what is committed.
The market is abstract: a mark may see any price and may hit a level or not; a target may be skipped (cooldown,
liquidity, missing price).
`mode` and `tainted` are history variables: `tainted` becomes true when a session changes rows or cash although
another session changed the account since it began. They say exactly when the ledger's promise is void.

### Portfolios, TargetEngine, TargetPipeline

`TargetEngine` translates `PortfolioEngine.build_target_portfolio` and `RiskEngine.assess` as pure operators over
percentages; sequences keep the order of candidates. Regime and bet-sizing enter through the signal's fields.
The code's loops are recursive functions of the round: `Swaps` is what the replacements have come to after each
candidate, `Left` the exposure that is left after each new position; `Sorted` is `sorted` and `list.sort` (stable).
`TargetPipeline` runs one cycle's decisions through them: decide, build, assess.

### TradingCycle

`held` is the side of each symbol's open position and `cooling` the symbols with a recent stop-loss (the database);
`cycle` has the bot's mode, a stage and what it read; `queue` and `worker` are `OrderExecutorQueue`. `Begin`,
`Fetched`, `Look`, `Enqueue` and `Fail` are what a cycle does between two awaits; `StopLoss` and `TakeProfit` are the
closes of a mark, by the worker or by a cycle; `Take` ... `Finish` are the worker's loop, `Close` and `Open` one
position each; `Restart` loses queue, worker and cycles and keeps rows. The bot is swing or scalping, chosen from
`Modes` at the beginning. Which target a cycle may come up with is the constant `Entries`; `MCTradingCycle` takes it
from `TargetEngine`, so that the two compose. Money is left to `PaperBroker`.

### Strategies, EntryGates

`Strategies` is pure: from a feature snapshot to a decision, for each of the six strategies that `StrategyFactory`
knows, with the regime, the three tactics, the trend signal and every threshold. A snapshot is a record of integers
(prices in thousandths of EMA20); text, scores and confidences that decide nothing are left out.
`EntryGates` is a symbol's way through `StrategyOrchestrator`: `Enter` is a decision that passes every gate
(`Passes`), `Exit` one that closes, `StopLoss` and `TakeProfit` the closes of a mark, `Pass` time. `stops` are the
ages of stop-losses in the database, `memory` is `InMemoryPositionRepository`, told of the same closes and asked in
backtests. An age beyond 48 hours (`Horizon`) is forgotten, since no query looks back further.

### CandleSync, Backtest

`CandleSync` is `fetch_and_store_range` and `CandleIntegrityChecker.validate` for one series. `fetch` has for each
fetcher the page it waits for or holds; `Ask` is the answer of the exchange, `StorePage` the commit of one page,
`Reject` a page that fails a check, `AskFails` the end of the adapter's retries. `asked` is auxiliary: which candles a
backtest stored. `LiveCycle` begins a fetch with one of two windows: the 250 candles (`Window`) that a bot of this
timeframe asks for, or the 60 (`HigherWindow`) that a bot asks for whose higher timeframe it is. `SyncSpec` is one series
on its own, with live cycles, the fetches of backtests (`BackFill`, `Collect`) and crashes. `Backtest` extends it by one
job: `Run` is `POST /run`, `Load` fills the repositories in memory from
what the back-fill brought, `Simulate` is one cycle, `LoopEnds`, `Complete`, `Stale` and `Fail` the ways out; `Cancel`
and `Delete` are the routes, with sessions of their own. `InsertSorted` and `Upserted` are the insertions into the
in-memory repositories, one by one, `CacheList` is their bisection, `QueryList` the query it stands for.

### Committee

`consult` has the stage of each consultation that a cycle awaits: the alert of the limit, the votes, two commits, the
fallback. `recorded` is the sum of today's audit rows, which `Check` compares with the cap. Costs are counted in
votes, since the provider books the same for each. `Consensus` is the chair in integers (the ratio and the sample
deviation without roots). `NewDay` and `Crash` may come at any time.

### StreamClient, BotRegister, BotScheduler

`StreamClient` has the client as one record (`subs` is `_subscriptions`, `outbox` the tasks of `_run_task`, `wire`
what the exchange sends) with its operators and its own steps. `BotScheduler` extends it: `StartBot`, `StopBot`,
`UpdateSymbols`, `UpdateRisk` are the routes (`async def` without await inside: one step each), `BeginFetch` and
`EndFetch` the wait of a cycle for a market list, `Panic` Telegram's `/panic`, `Restart` the lifespan with
`resume_active_bots`, `CrashWriting` a crash between the truncation of `active_bots.json` and the write.
`failing` says what may fail in a behaviour (writes of the file, starts); properties that need it intact refer to it.
`BotRegister` is the abstract specification of polling bots: a bot that is started is registered, one that is stopped is
not, and whenever the program comes up the registered ones run as they were started. `BotScheduler` instantiates it with
the file as `saved`, the jobs as `polling` and a scheduler that is not shut down as `up`; streams, lists of symbols,
event-driven bots and what waits for a market list do not show there.
Interval, exchange and shields are left out of the parameters. Which bots an aborted resumption leaves out depends
on the order of the file and is left open; so is what its writes leave, where they may fail: each start saves its bot
again, and one that fails may truncate the file (`Rewritten`).

### CircuitBreaker

`circuit` and `age` are `_CircuitState` (the age of the last failure, which is all that the clock is used for),
`calls` the attempts of the decorated functions. `streak` and `sent` are auxiliary: `sent` counts the requests of
the last 0, 1, ... `ResetTimeout` ticks since the last good answer, each request in all of them, whether the circuit is
closed or starts anew.

### Names

`MC*` modules hold the values of constants for TLC. `*_proofs` modules hold theorems, `Loops` the lemmas on loops and
sums that several of them need. Definitions commented
"mutant" or "had it ..." are deliberate errors: each property is checked to fail with one of them in place of the
definition it alters.

## 3. The runs

| Run | Question | Bounds | Result |
|---|---|---|---|
| broker_concurrent | Two sessions, commit by commit, failing anywhere | one symbol, one price, two rows: a second row is what a duplicate needs | holds |
| target_pipeline | All decisions on four symbols, all open sets | four symbols in overlapping groups, limits tight enough that each reduction happens | holds |
| cycle_serial | A swing or scalping bot whose cycles do not overlap: limit, cooldown, nothing closed unasked | three symbols, two positions, restarts | holds |
| cycle_overlap | Two overlapping cycles of a swing bot: retained positions stay; is every queued target taken? | two symbols, one position, restarts, `FairSpec` | holds |
| bots | Bots with symbols of their own and shared ones, over restarts, lost connections, failing writes and starts | two bots, two restarts, two waiting payloads | holds |
| breaker | Three concurrent calls: does the circuit open rightly, how often is a failing endpoint asked in the time of the timeout, does every call end? | threshold 3, timeout 2 ticks, 2 attempts, `FairSpec` | holds |
| entry_gates | What passes the gates after which stop-losses | one symbol, each strategy, live and backtest, three stop-losses, steps of 2, 10, 12 and 24 hours | holds |
| backtest | A job beside live cycles that fetch the same series, each with a window of either length, with errors, rejected pages, crashes, cancellations, deletions | one live fetcher and the backtest's, six candles, pages of two, windows of five and three, a missing candle | holds |
| committee | Two consultations at a time, again and again | five votes around the chair's thresholds, a cap of seven votes | holds |
| stop_race | `StopLossLocks`, with overlapping cycles | two symbols | violated: cooldowns are read before the execute loop |
| cancel | `CancelHonoured` | one live cycle, window of two | violated: the cancellation is flushed and never committed |
| look_ahead | `NoLookAhead` | as `cancel` | violated: a snapshot is used before its candle has closed |

Each violated property is what a comment, a message or a document of the repository says; `findings` quotes it.

*Why the bounds are enough.* Overlap needs two sessions, cycles, fetchers or calls; a lost update or a duplicate needs
two rows; replacing and limits need one symbol more than positions; a hole needs a candle between two, and a fetch
that goes on needs two pages. With six candles both windows of `backtest` slide, and the hole that the shorter window's
fetch leaves behind in the longer one does occur. The fetchers that overlap there are a live cycle and the
back-fill; for several live cycles at once there is the theorem `NoHolesCorrect`, which is for any set of them. The
whipsaw lockout asks for at most three stop-losses in windows of 12, 24 and 48 hours, which the steps hit and cross.
The five votes meet the chair's thresholds: a vote of 45 against two of 42, and votes that are 86 apart. `MaxRows`,
`MaxBoots`, `MaxOutbox`, `MaxStops` and `MaxTime` are the bounds within guards; the committee's record is finite
because the limit stops it; all others are finite by themselves (in `CircuitBreaker` the age stops growing once the
timeout is over). The theorems below lift most results from the bounds.

*Fairness.* `TradingCycle` assumes weak fairness of the worker alone: it is a thread in an endless loop whose errors
are caught. Cycles need not go on. `CircuitBreaker` assumes that the event loop runs a call on and that a request is
answered, since every client has a timeout (15 or 20 s). `Committee` assumes that alerts and votes are over at some
time (the alert's client has a timeout, the votes are awaited for 20 s) and that commits return. That agents answer
is not assumed. No strong fairness is used.

*What holds only with restrictions.* `UniqueOpen`, `Balanced` and `ClosedOnce` exclude the tainted states: with two
sessions that overlap the code does lose updates, and the history variable says when. `NoOverdraft` takes prices that do
not more than double: rates and prices by which no exit, and no exit after another session's exit of the same row, turns
a holding into a debt (`NoDebtHoweverOften`). `WithinPositionLimit` fails for scalping bots with overlapping cycles.
`Fed` takes bots that share no symbol: a stream is unsubscribed for all when one bot stops. `StoppedStayStopped` takes
writes that do not fail, `KeepsTheRegister` neither writes nor starts that do (`failing`). The third part of
`EntriesSpaced` takes the strategies that detect the regime; the others label their decisions `BULL_TREND` whatever the
market is. `NoHoles` is about candles that live cycles stored, and about the shorter of the two windows: within the
longer one the code does leave holes (section 4). `MemoryAgrees` takes the database to hold the same snapshots.
`CompletedIsWhole` holds because cancellations never reach the row: had `cancel_backtest` committed, a cancelled job
would end as `COMPLETED`. In the deleted-row case the job ends without a word.

## 4. Disagreements without a run of their own

The runs keep three disagreements between code and documentation. The models show more:

- `RiskEngine._try_reduce` (`TryReduce`) builds the reduced positions without their side: a wanted short is bought.
- Only new positions of the bitcoin group are scaled: with retained ones the group's cap is missed (`GroupScaled`).
- Two overlapping cycles of a scalping bot both see the free slot (`CycleOverlap.cfg` with `Modes = {"scalping"}`
  violates `WithinPositionLimit`).
- A retained short position is LONG in the target and closed by the worker, unasked (`CycleSerial.cfg` with a `SHORT`
  signal violates `OnlyAskedClosed`).
- A retained position that takes its profit in the worker's mark is opened anew from the target's placeholder.
- Event-driven bots are never saved, though `resume_active_bots` (`scheduler_service.py:183`) speaks of any bot.
- A crash between the truncation of `active_bots.json` and the write loses every saved bot (`CrashWriting`).
- A fetch resumes after the newest stored candle of its range. A 1h bot is down for 100 hours; a 15m bot, whose higher
  timeframe is 1h, then stores the last 60 candles; the 1h bot, which asks for 250, resumes after those and never
  fetches the 40 before them (`LiveCycle`, `ResumeFrom`; `NoHoles` with `Window` for `HigherWindow` is violated).
- After its timeout an open circuit lets every waiting call through, where `circuit_breaker.py:68` says "Allow one probe
  attempt" (`Request`): two calls reach an endpoint that has answered neither. `SentBounded` counts them all.
- `/panic` leaves queued tasks to be executed, where `telegram_bot.py:296` reports that new entries are blocked.
- The in-memory repository of a backtest answers the plain cooldown by the 30 minutes it set at the close, whatever
  window it is asked for (`MemoryCooling`): a backtest re-enters where a live bot waits two hours.
- When a backtest's range is stored and its warm-up is not, the warm-up is never fetched: resumption looks at the
  newest candle of the range (`ResumeFrom`), and `engine.py:96` asks for it so that "features can warm up".
- The newest candle is stored while it is open and never fetched again.
- `CandleIntegrityChecker` knows no step for weekly or monthly candles: every page of two is rejected (`Steps`).
- A backtest's row stays `RUNNING` for ever after a restart, or when the handler of an error raises (`Crash`, `Fail`).
- Votes that are unanimous and more than 86 apart come out as `PASS`: the deviation of confidences exceeds 50
  (`Disagreeing`).
- What agents were paid before one of them failed is in no record (`VotesFail`), so that the limit does not count it.
- The committee's fallback commits in the session that has just failed (`Fallback`): where that raises, the cycle
  fails, though `orchestrator.py:29` says that the original decision is returned.

## 5. The proofs

All theorems are for any values of the constants (sets of any size, any prices, rates, windows and votes within the
named assumptions, which TLC evaluates for the runs). 37 of the 40 properties that the passing runs check are proved,
some of them under a restriction of the constants that is named below.

**Loops.** The library's induction theorems cannot be used with the installed provers, since they take an operator as a
parameter. What is needed of induction is shown by a least counterexample instead: `<` on the naturals and strict
inclusion of finite sets are well-founded, so a violation has a smallest case. `Rounds` (what every round preserves
holds to the end) and `LoopRuns` (a function of the rounds exists) serve every loop of the code; the `Sum...` lemmas do
the same for `SumFunction`: the sum of a table does not depend on the order, and what one entry more, one entry changed,
a scaling or fewer entries do to it. The models hold no `RECURSIVE` operator for this reason.

**PaperBroker_proofs** (from `RatesAssumption`, `MarketAssumption`, `BrokerAssumption`).
`LedgerTypeCorrect` is the typing. `UniqueOpen` is not inductive: a session that is about to insert must know that no
row is open for its symbol. `Inv` adds: at most one session is dirty; if one is, all sessions that hold an account
in memory are stale or that one; what a clean session remembers is still in the table. From it follow
`UniqueOpenCorrect` and, with lemmas on the refinement mapping (`funds` is the cash in the memory of the dirty
session, `held` the open rows), `UntaintedStepsCorrect`: every step that does not taint is a ledger step or a stutter.
`SerialCorrect` concludes that one session without failures implements `PaperLedger`.
`BalancedCorrect`: cash and the flows of all rows add up, on the committed account or on the one a dirty session
carries (`FundsBooked`); each step changes one row or appends one, and the sums follow.
`SolventCorrect`: an untainted account does not go into the red, as committed or as carried, if no price turns a holding
into a debt (`NoDebt`). `NoOverdraftCorrect` is about every state, tainted ones too, where a row may be closed and credited
by several sessions and balances overwrite each other. The sum of the books says nothing there; the argument is that each
balance anybody holds comes from one that was not negative, by a cost it could afford or by proceeds that are not negative
(`Paid`). What a row pays depends on its mark, and a session that finds no market price exits at the mark that an earlier
exit left, slipped once more. How often is bounded by the sessions that no longer list the row (`Drift`, `MarksKept`), so
the theorem supposes finitely many sessions and `NoDebtHoweverOften`, that no such exit is a debt. TLC evaluates both
assumptions on debts in `MCPaperBroker`. `CalmMarketCorrect` is a consequence of the books that no run asks for: in a
market whose price never moves, an untainted account never has more cash than it began with, since a round
trip pays slippage and fees (`RoundTrip`, for all rates). `ClosedOnceCorrect` follows from
`Inv`. `TypeCorrect` needs `Rest`: a session that has decided to insert a row has room for it.

**TradingCycle_proofs**, the cycle (from `CycleAssumption`). `TypeCorrect`. `LimitCorrect` for bots that are not
scalping (`"scalping" \notin Modes`): while the worker opens, what is open is in its target, or the target's remaining
positions fit on top, because it closed everything else first. `CooldownCorrect` for cycles that do not overlap: only
one of cycle, queue and worker has work (`OneAtATime`), so no mark comes between the read of the cooldowns and the
opening, and the read covers every cooling symbol (`BlockedCovers`).
`QueueMovesOn` is the part of `EveryTaskTaken` that is safety: the steps that the worker has left until a queued task is
let go, counted in natural numbers (`StepsBefore`), become fewer with every step of the worker, failures included, and
cycles, marks and cooldowns never add to what is left of the task in hand or queue anything before another.
`RetainedCorrect` (not scalping, any overlap), `SerialLimitCorrect` and `AskedCorrect` (no overlap, any mode) suppose of
the constant `Entries` that targets keep what their cycle saw (`KeepsRetained`): TLC evaluates this for the runs' values.
Behind the first is `TasksTraced` (each queued target came from the cycle it names and was made from what that cycle
saw), behind the others `SerialInv`, whose `SeenCovers` says that what is open when the worker begins was open when its
cycle looked.

**TradingCycle_proofs**, the engines (from `EngineAssumption`). For every portfolio, whoever built it: `NeverRejected` and
`ApprovedFits`, since the reduction scales by shares that the limits themselves name, and rounding goes down. The
invariants of `TargetPipeline` are all proved: `TargetTypeCorrect`, `WithinLimitsCorrect`, `NobodyStrongerCorrect`,
`ReplacementsCorrect`, `GroupCappedCorrect`. `Staged` is the inductive invariant: the target is what `Build` and then
`Approved` make of the decisions at hand, and every open symbol is listed once. The rest is about the engine's loops. A
sort gives a list with the same members in which no later one comes sooner. In the replacement loop `Swapped` says after
each candidate how many have entered, that as many of the weakest have left, and that each candidate refused so far is
within the margin of the weakest that stays: as those get stronger from round to round, a refusal remains justified, and
as candidates are compared by another key than they are sorted by, this is where the order might have mattered.
`EnginesKeepRetained` closes the gap between the two parts: the outcomes of both engines for bots that only go long
satisfy `KeepsRetained`, a scalping bot's if its limit is below the engine's and its strategy never decides to close
(`hft_momentum`).

**BotScheduler_proofs** (from `SchedulerAssumption` where it is named). `NotTwiceCorrect`, with `TablesApart` (a scheduler
that is shut down has no jobs). `StoppedCorrect` and `PollingResumedCorrect`, from `FileSays`: if writes do not fail,
every job is in the file and no stopped bot is. `RegisterCorrect`: as long as nothing fails, every step of routes, cycles,
`/panic`, crashes and restarts is a step of `BotRegister` or does not show there, one action after the other
(`RegisterStep`), from the typing and `TablesApart`; `RegisterImplemented` concludes that a scheduler in which nothing fails
implements the register. `BotsTypeCorrect`. `WireMatchesCorrect`, from `InSync`: for each stream
the last waiting request that names it, or else the wire, agrees with what is wanted. `FedCorrect` and
`NoLeftoversCorrect`: a wanted stream belongs to a running bot that asked for it or came from a list, and a request takes
away no more than what its bot had, so that the symbols of a bot's own stay subscribed to.

**CircuitBreaker_proofs** (from `BreakerAssumption`). `TypeCorrect`. `SentBounded` needs an account of every request
since the last good answer that is no older than `ResetTimeout`: it has failed and is counted in `failures`, or it still
waits (`Accounted`). A circuit that starts anew forgets its failures; but by then nothing has been sent for that long,
for an open circuit lets nothing through from its last failure on (`Quiet`), and a longer time has no fewer requests
than a shorter one (`Rising`). Were `last_failure_time` not kept by each failure, this would be lost. A circuit is open
exactly from its threshold on (`OpenAtThreshold`), and counts no failure that the streak leaves out (`StreakCovers`),
from which `OpenCorrect` follows. `AttemptsCountDown` is the part of `CallsEnd` that is safety: a call has fewer than
three steps for each of its attempts, each one it takes leaves fewer, and no other call adds to them.

**Committee_proofs** (from `CommitteeAssumption`, by which there are finitely many agents). `TypeCorrect`; `SpendCorrect`
from `Booked`: what is recorded and what the consultations that passed the check will record stay together within the
bound. `VotesDecideCorrect` from `Decided` (a decision is the chair's, of the votes at hand) and sums over any panel.
`NoConsultGoesBack` is the part of `ConsultEnds` that is safety: a consultation that has begun has five steps at most, and
is moved by no other.

**Backtest_proofs** (from `SyncAssumption`, `BacktestAssumption`). `WholeCorrect`: simulated time stays within the range
until the loop ends (`InRange`), and no row is ever `CANCELLED`, so that the loop has one way out. Both are needed.
`NoHolesCorrect`, for any set of live fetchers, is shown of the series on its own (`SyncSpec`, `SeriesHasNoHoles`), from
`SyncInv`: a fetch of a live cycle begins no later than the shorter window or follows a stored candle, its page leaves
out nothing that the exchange has, and before a candle that live cycles stored comes another or nothing (`Followed`).
`JobsOnlyFetch` takes it to jobs: every step of `Backtest` is one of the series or leaves it alone, since a job leaves
its fetcher idle outside its back-fill (`Rests`). `Ascending` is reasoned about by counting. `TypeCorrect` and
`MemoryAgreesCorrect`: bisection on a list in order finds the place that keeps it in order, hence so do all insertions
(`Caches`), and a list in order is the one list of its times; `ListsAgree` is for any limit, where the run tries two.

**EntryGates_proofs** (from `StrategyAssumption`, `GateAssumption`). `TypeCorrect`. `TrendCorrect` goes through one lemma per
strategy (its entries follow the averages) and the origin of every delivered signal in a snapshot. `SpacedCorrect` rests
on the windows of the lockouts being contained in one another, so that whatever regime is detected, the weakest holds.
`RepositoriesCorrect` rests on both repositories keeping the same stop-losses (`InStep`).

**Only model-checked:** the liveness properties `EveryTaskTaken`, `CallsEnd` and `ConsultEnds`, since liveness under
fairness and `ENABLED` are out of the prover's reach. What is proved of them is that every step counts (`QueueMovesOn`,
`AttemptsCountDown`, `NoConsultGoesBack`); that the step is taken is fairness, which TLC checks. The
restrictions: `WithinPositionLimit`, `RetainedStay` and `OnlyAskedClosed` are proved for modes without scalping, or for
cycles that do not overlap, as said above; the runs check no more.

## 6. Not modelled

- *Paper OMS* (`services/oms`): no part of the program imports it.
- *Optimizers, walk-forward validation, the vectorised `engine/backtest`, metrics and reports*: sequential floating-point
  searches and sums without state that outlives a call.
- *Bandit allocator*: a formula over means kept in memory; nothing else depends on its counts.
- *Indicators, scores and confidences*: floating-point sums over candles; `Strategies` takes any value they may have.
- *The event engine's sliding windows*: sums over market data; what a trigger starts is in `TradingCycle`.
- *The stop, trailing, breakeven and time-stop levels*: `PaperBroker` lets a mark close at any price.
- *Order, trade and execution-log tables*: written beside the positions and read by reports only.
- *Configuration versions*: nothing that trades reads them.
- *Worker and scheduler processes*: entry points of a task queue that nothing fills; backtests run in the API's process.
- *Database models, logging, settings, web frontend*: declarations, I/O and views.

In modelled components: lengths of back-offs (`CircuitBreaker`), the decoding of websocket messages and the client's
`stop`, the BTC snapshot of a live cycle, the table `backfill_states` (written, never
read), prompts and models of the committee, and the synchronous mode in which a backtest's cycles execute their targets.
