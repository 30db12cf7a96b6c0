# Formal models of cTrader

cTrader is a single-user trading journal with an approval desk for agent-made
trade proposals: a FastAPI process, one PostgreSQL database, an in-process
scheduler, two brokers (Interactive Brokers, cTrader) and MCP agents (risk gate,
fundamentals, radar). This directory holds TLA+ models of the parts in which order,
failure and concurrency decide whether money moves correctly, the TLC
configurations that check them on small instances, and TLAPS proofs of their main
safety properties for every instance.

Contents: 1 the system, 2 the modules, 3 the runs, 4 what the runs refute,
5 the proofs, 6 what is assumed and what is left out, 7 the plan, 8 how to run.

## 1. The system

All code runs in one asyncio event loop. There are no threads to race, but every
`await` lets any other request, job, task or event handler run, and all of them
share the database. A statement (or a transaction) is atomic; a sequence of
statements is not. A process may die at any await. On start, `app/main.py` sweeps
job rows and quick orders; it resumes nothing.

| Component | State | Operations | Interacts with | Hard part | Correct when |
|---|---|---|---|---|---|
| Strategy lifecycle (`services/strategy.py`, `models/strategy.py`, `routers/strategies.py`) | `strategies.status`, `paused_by` | create, set status, toggle | kill switch writes the same rows; proposals and executions read them | read, decide, compare-and-swap across awaits | only FSM moves; retired is terminal |
| Kill switch (`services/kill_switch.py`) | `status`, `paused_by`, audit rows | pause, recover, override | regime runs call it; status requests race it | several rows in one sweep, two sources of truth for "paused by whom" | tag and audit trail agree; Chef's pauses survive |
| Regime snapshots (`services/regime_snapshot.py`, `routers/regime.py`, `scheduler.py`) | `regime_snapshots` | fetch, insert, evaluate | drives the kill switch | two overlapping runs; the evaluation may fail after the snapshot | the strategies follow the newest snapshot |
| Approval pipeline (`services/proposal.py`, `routers/approvals.py`) | `proposals`, `audit_log` | create, gate, approve, reject, revision | locks the strategy; calls agents; spawns executions | decision on a read that is stale when it is written | never approved red (FR28); one audit row per decision |
| Risk gate (`services/risk_gate.py`) | none | evaluate | MCP agent | agent down or talking nonsense | there is always a verdict |
| Audit log (`services/audit.py`, migration 009) | `audit_log`, append-only | insert, list | all of the above | records what was read, not what was decided | reconstructs the decision |
| Bot execution (`services/bot_execution.py`) | `proposals.client_order_id`, `execution_status`, `trades` | execute, retry, handle event | spawned by an approval; cTrader client | lost, late and repeated answers; crash; two executions | at most one order per proposal (NFR-R3) |
| IB quick orders (`services/ib_quick_order.py`, `routers/quick_order.py`) | `quick_orders`, `trades` | submit, retry, handle fill, sweep | IB client; start-up | errors that arrive after a fill; orphans | every fill is booked once; the journal follows the broker |
| Broker clients (`clients/ctrader.py`, `clients/ib_quick_order.py`, `clients/ib.py`) | placed orders, handlers | place, probe, subscribe | external brokers | delivery | idempotent per key |
| Scheduler and job log (`services/scheduler.py`) | `job_executions` | run a job, time out, sweep | all jobs | hung job, dead pool, killed process | every run leaves a final row |
| Trades ledger (`ib_live_sync.py`, `ib_flex_import.py`, `ib_reconcile.py`, `models/trade.py`) | `trades` | upsert, import, reconcile | live events, Flex files, both order paths | several writers of one trade | one row per (broker, perm_id), no value lost |
| Tagging, taxonomy, trigger specs | `trades.trigger_spec` | tag a trade | trades ledger, journal | edits between two reads of a page | only closed trades are tagged |
| Fundamental cache and snapshots | in-memory caches, `fundamental_snapshots` | get, refresh, capture | MCP agents; approvals; new trades | expiry, staleness mark, bound | stale is never shown as fresh |
| Gordon trend radar | `gordon_snapshots` | fetch, diff | MCP, scheduler | diff of two weeks | new, dropped and kept partition the lists; the page is shown |
| MCP client, health, contract test | counters | call, probe, compare | all agents | timeouts, drift | answers within a bound |
| Database backup | files | dump, rename, rotate | scheduler | crash in mid-dump | what the log calls a success is on disk |
| Pool and migrations | `schema_migrations` | apply in order | start-up | crash between two files; a late file with a low number | every file of the release runs once |
| OHLC cache, fall-back chain, MAE/MFE | `ohlc_candles` | get, fetch, upsert | IB, Kraken, ... | partial windows | first answering source wins |
| P&L, R-multiple, metrics | none | compute | pages | sign, zero and start cases | drawdown is the deepest fall; extremes bound the price |
| Trade query, facets, presets, export (`trade_query.py`, `facets/`, `query_presets.py`, `csv_export.py`, `routers/pages.py`) | `query_presets` | select, count, list, save, open | trades ledger | several statements per page while trades move | a page shows its selection; a chip keeps its promise |
| Presentation, configuration, logging | none | render | pages | wording | not a question for a state machine |

`PROJECT.json` lists every component with the status of its model, and the
hazards, each at the line where it bites.

## 2. The modules

```
StrategyModel      FSM of a strategy            ProposalModel     verdicts, decisions
      |    \                                          |    (extends StrategyModel)
StrategyContract  StrategyLifecycle             ProposalContract
      ^  (implements) |                               ^  (implements)
      +---------------+                         ApprovalPipeline -- StrategyContract (environment)
                                                      |
                                                BotExecution ------ ProposalContract (environment)
                                                      | (implements)
                                QuickOrder -------> OrderContract

TradeContract <-(implements)- TradesLedger

Migrations  JobRunner  Backups                  TradeFigures
     \          |         /                       /        \
             Runtime                        Drilldown  EquityCurve  FundamentalCache  TrendRadar  Journal
                                                   \        \            |            /         /
                                                                   MCScreens
```

The big modules are composed by contract. `StrategyContract` says what any part
of the program may expect of `strategies.status`: inserts and FSM moves.
`StrategyLifecycle`, the concurrent writers statement by statement, implements it;
`ApprovalPipeline` uses it as the environment that moves strategies while proposals
are created. `ProposalContract` says the same of proposals, each of its actions one
atomic step; `ApprovalPipeline` implements it and `BotExecution` runs against it. So each
level is checked against everything the level below can do, without
multiplying their states. `OrderContract` is what both ways to an order promise, that of the bots
and that of Chef: the key of an order is in the database before the broker can see it and stays there,
one order per proposal (or form), one booking, after the fill.

**StrategyModel** (`models/strategy.py`): `Statuses`, `CanTransition`,
`NextToggleStatus`.

**StrategyLifecycle** (`services/strategy.py`, `kill_switch.py`, `routers/regime.py`,
`scheduler.py`). `status` and `pausedBy` are the columns, `ksTrail` the last
kill-switch audit row of a strategy, `latest` the newest snapshot. A status
request is `PostStatus` (read and check) then `CasWins` or `CasLoses`;
a badge click is `PostToggle` and `ToggleRereads` first, because `toggle_status`
reads the row to pick the target and `update_status` reads it again. A regime
run is `FetchIndex`, `InsertSnapshot`, `EvaluateKillSwitch` or `EvaluationFails`.
`ManualOverride` is one transaction. `Crash` drops every request and run.
`releases` (the release rows of a strategy since its last pause row) and `lastPauser` are
history, read by properties only.

**ProposalModel, ApprovalPipeline** (`services/proposal.py`, `routers/approvals.py`,
`risk_gate.py`, `audit.py`). Creation is `LockStrategy` (BEGIN and
`SELECT ... FOR UPDATE`), `InsertProposal` (or `InsertWithoutStrategy`), `GateAnswers`.
A decision is `ReadProposal`, then, for an approval after an await on the
fundamental agent, `CommitDecision` (swap and audit row in one transaction) or
`LoseDecision`. `StartRefresh` and `RefreshAnswers` evaluate a verdict again:
no route does today, the two SQL guards exist for it, so
`RefreshAllowed` switches it on where a run asks about the guards.

**BotExecution** (`services/bot_execution.py`, `clients/ctrader.py`). `clientId` and
`execution` are the columns of a proposal; `task[t]` is one run of `execute_proposal`,
its `pc` the statement it is at: check, read, claim, probe, place, await, save.
The key a run would generate and the order with that key share
one name, a pair (proposal, execution), which is what the uuid in the key
provides. `HandleEvent` and `InsertTrade` are the two statements of
`handle_execution_event`, which no transaction holds together. `StartReplay`
starts a second execution of a proposal: the claim and the probe are written
for it, no route starts one, `ReplayAllowed` switches it on.

**QuickOrder** (`services/ib_quick_order.py`, `routers/quick_order.py`). `Submit` is the
INSERT that precedes the network call, `PlaceBracket` one turn of the retry loop, its
outcomes `OrderAcknowledged`, `TerminalError`, `RetryBracket`, `RetriesExhausted`; then
`StampOrderId` or `MarkRejected`. `HandleFillEvent` is one transaction. `SweepOrphans`
runs at start, before requests are served and after handlers are subscribed.

**The broker** is external in both: it accepts or refuses a submission some time after
it was sent (`BrokerReceives`), may never get it (`SubmissionLost`), knows an order by its key,
and moves it on its own (`OrderMoves`), reporting each transition in order, at
least once. Events to a process that dies may be lost (`Crash`).

**TradesLedger** (`ib_live_sync.py`, `ib_flex_import.py`, `ib_reconcile.py`, `cli/ib_flex_import.py`,
`tagging.py`). A row of `trades` is a quantity, whether it is closed and whether it is tagged, keyed
by the permanent id of its order. Live sync is `ReadFills` (what the broker has reported)
and `UpsertTrade`, which spawns `CaptureSnapshot` when it inserted. The nightly job is
`RequestStatement`, `StatementArrives` or `DownloadFails`, then `SelectTrade` and `WriteTrade` for each
execution, with everything else in between; `ImportFlexFile` is another process in one transaction,
with any statement, also an old one. `IsMultiLeg` is the rule that skips spreads. Events are lost and
repeated, the process restarts. `TradeContract`, what any reader may expect of the ledger, is the
abstract specification it implements.

**Migrations, JobRunner, Backups, Runtime** (`db/migrate.py`, `scheduler.py`, `db_backup.py`,
`main.py`). `Migrations` reads what is recorded once (`ReadApplied`) and applies one file and its record
per transaction. `JobRunner` is `logged_job`: `InsertRow` or `InsertFails`, a body under its limit,
`CloseRow` or `CloseFails`, `CancelStatement`; the id of an inserted row may be lost with a timeout.
`Backups` is `OpenPart`, `StreamEnds`, `RenameDump`, `RotateBackups`, `DropDump`. `Runtime` composes the three
with the lifespan: a release may bring files while the process is down, the startup migrates, sweeps and
schedules, the backup job drives `Backups`, a shutdown cancels jobs wherever they are, and the process
may die at any statement. `ran` (how often a file was committed) and `result` (the dump a run made) are
history.

**FundamentalCache** (`fundamental.py`, `staleness.py`, `mcp_health.py`). Readers overlap in calls of the agents;
`fresh` entries live, `stale` is kept in the order of insertion and pruned, answers arrive in any order,
time is a tick. **Drilldown** (`ohlc_cache.py`, `fallback_chain.py`, `mae_mfe.py`, `routers/trades.py`): a request reads
young candles, asks the clients of the chain under one deadline, upserts in one transaction and pins
extremes. **TradeFigures** and **EquityCurve** (`pnl.py`, `r_multiple.py`, `mae_mfe.py`, `expectancy.py`,
`aggregation.py`): the figures of a trade, and the walk that makes totals and the drawdown.
**TrendRadar** (`gordon.py`): fetch, tolerant validation, the raw write, the strict read of two rows, the
difference. **Journal** (`trade_query.py`, `facets/`, `query_presets.py`, `csv_export.py`, `routers/pages.py`, `routers/api.py`):
a URL becomes a selection, its values split at commas and stripped (`Parsed`); the chips of each facet, the count, the page and the export are statements of
their own, with `BookTrade` and `TagBooked` between them; a preset stores the parameters of a URL, trimmed and not split (`Cleaned`), and opens them again. **MCScreens**
lets TLC run one of the five at a time: they share no state. `Among`, the recursion in which `TrendRadar` writes the list comprehensions of
`compute_diff`, is a recursive function, so that it can be proved about.

**MC modules** add symmetry sets, model rows and URLs for TLC. `BotExecution`, `QuickOrder`, `TradesLedger`
and `Runtime` are instantiated by their .cfg alone. A few definitions called *Mutant* state a plausible
bug of the definition that follows them (a dropped guard, an UPDATE by
id, no conflict clause); no specification uses them, and each property of a passing run
fails when its mutant is put in place of the real definition.

## 3. The runs

| Run | Question | Instance | States |
|---|---|---|---|
| StrategyLifecycle | Do FSM, tag and trail stay in step under all writers? Is the contract implemented? | 2 strategies (one the switch may pause, one it may not), 2 requests, 2 regime runs | 412,920 |
| Approvals | Can a race, a refresh or a crash approve a red proposal, audit twice, or create one for a paused strategy? Does every proposal get a verdict? Is the contract implemented? | 1 proposal, 2 strategies, 2 deciders, refresh on, fair | 232,104 |
| BotOrders | At most one order, only approved, always claimed, booked once, under races, timeouts, crashes? Is OrderContract implemented? | 1 proposal with or without a strategy, 2 executions, 2 attempts each, crashes | 2,989,204 |
| BotLiveness | Is every approval answered, every fill booked? | 1 proposal without a strategy, 2 executions, 2 attempts each, fair, no failure of process or handler | 245,577 |
| QuickOrders | Filled means booked; no order without row, no stamp without order? Is OrderContract implemented? Is every fill booked whose report gets through? | 1 order, 3 attempts (the code's default), crashes, failing handlers, fair | 15,080 |
| TradesLedger | Do live sync, statement, import and tags agree on a trade? Is its contract implemented? Does a statement close what was closed? | 2 orders (a closing stock order, an opening option order), 2 executions each, 1 restart, events lost and repeated, fair | 222,754 |
| Screens | Is an answer as fresh as it says? Are extremes whole, drawdowns deepest, chips and pages true? | 3 symbols and 2 readers; 3 trades and 2 drilldowns; curves of up to 5 trades of 5 kinds; 2 fetches; 3 trades, 8 URLs, 1 per page | 1,804,142 |
| Runtime | Is what serves migrated? Is what the log calls a backup on disk? Is a slot freed? | 2 files, 2 jobs, 3 log rows, 2 dumps, keep 1, crashes, fair | 743,036 |

Why the bounds are enough. A property of one strategy, proposal, order or trade can
be broken by the processes that touch that row: there are
enough of them for a reader, a winner and, where it matters, a third that arrives in between
(two requests against two regime runs; two deciders, a creation and a refresh). Rows are independent
except for the row lock, the kill switch's sweep and a crash, so two strategies show
every interaction. `MaxAttempts` 2 has a first submission and a repeated one that exhausts them; quick
orders have the code's 3. Of two executions one wins the claim and the other probes, whose answer or failure both runs of
the bots reach. The proposal of BotLiveness names no strategy, because a strategy only decides whether an
execution is skipped, which ends it; in BotOrders it may.
One quick order is enough because quick orders meet only in the sweep and in a crash,
which treat each alone. In the ledger two executions are the least that a second event, a
statement of several executions and the multi-leg rule need. Two migration files are the least with a
late one below an applied one, two dumps with `Keep` 1 the least that a rotation deletes from, three log rows
the least with a row of an earlier process beside those of two running jobs. Two readers and three symbols fill a stale cache
of two and overlap on one key; three trades on pages of one row make a first, a middle and a last
page; the rows have a flag that is null and a value with a comma. The lives and limits of the caches are ticks, in the order the code's minutes have.
Counters that the code leaves unbounded have a named bound: `MaxFills`, `MaxCrashes`, `MaxRows`, `MaxDumps`, `MaxTrades`,
`MaxPicks`, `MaxPageNumber`; the rest is bounded by the code.
The safety properties are also proved without bounds (section 5).

Deadlock is checked wherever the system runs on for ever. `BotExecution`,
`QuickOrder` and `MCScreens` switch it off: when every order has ended and every event is handled, or
a curve is walked, the modelled part is idle until a new proposal, order or page arrives.

Fairness. `ApprovalPipeline`: the agent call of a creation request ends
(`run_risk_gate` has a timeout and maps every exception to UNREACHABLE), so
`GateAnswers` is weakly fair. `BotExecution` and `QuickOrder`: the event loop
resumes what is ready and every client call ends with an answer or a timeout, so the
steps of a task and of a handler are weakly fair. `TradesLedger`: the scheduler fires every night and a
job resumed by the event loop goes on (weak fairness), and the broker serves a statement now and then
(strong fairness of `StatementArrives`: without it nothing can close a trade). `Runtime`: statements of the job log have a
limit each, and a body is cut off at its own (weak fairness of `LogStart`, `LogEnd`, `TimeOut`); a body that would end by itself owes nothing.
Chef, strategies and the broker owe nothing: no fairness on them. `VerdictArrives` and `FillsAreBooked` are checked with
crashes and name what a crash may cost (a creation request that died, a report of a fill that was
lost); `FlexClosesTrades` and `SlotIsFreed` hold under crashes as they are; `BotLiveness` leaves crashes and failing handlers out, and `LostClaim` puts the crash
back and shows what it costs.

## 4. What the runs refute, and what reading showed

Four runs check what a comment, docstring or story says and find a
counterexample in what the code does.

| Run | Claim | What happens |
|---|---|---|
| StalePauseTag | a manual pause stays when the index recovers (`kill_switch.py:15`) | the swap never clears `paused_by`: kill-switch pause, Chef re-activates, Chef pauses, recovery re-activates |
| LostClaim | a crash between claim and order is safe (`bot_execution.py:329`) | nothing runs the execution again |
| LateRejection | the journal follows the broker (story 12-3, AC 1) | a terminal error of attempt two overwrites the fill of attempt one |
| MalformedPick | one malformed pick no longer costs a day (`gordon.py:193`) | the raw list is stored, and the page that reads it validates strictly: a database error for as long as the row is among the newest two |

Other disagreements between text and code follow from the code alone, or were met while modelling; they have no run.

*Strategies, proposals, orders.* Two regime runs commit their snapshots in one order and evaluate in the other, although
`routers/regime.py:57` speaks of one transaction. An order goes out for a strategy paused after the one check
(`bot_execution.py:342` says it must not). The start-up sweep also rejects rows whose order the broker holds
(`ib_quick_order.py:549`). The audit row of a decision records the verdict as read before the swap (`audit.py:3`). A
proposal is committed, and listed, before the risk gate is called (`proposal.py:300`). A quick order whose last attempt ends
in a bare `TimeoutError` raises it to nobody (`routers/quick_order.py:371`); the model has it as the request state `error`.

*Ledger.* The executions of one order collapse into the first on a Flex import. An option order filled in two executions is taken for a
spread and skipped (`ib_flex_import.py:288`); this is why `FlexClosesTrades` excepts options.
A live event after the reconciliation overwrites the fees the statement brought (`ib_reconcile.py:3` calls Flex the source of truth), and a
statement of several executions leaves the fees of one. Quick orders use the order id as permanent id, so that their rows and those of
live sync never meet. `handle_execution` is subscribed by nothing (`ib_live_sync.py:183`).

*Runtime.* The job log promises a direct connection when the pool is exhausted (`scheduler.py:30`) and has none. Part files of a killed
backup are never removed. The start-up and the command line may migrate one database at once without a lock. The MCP baseline
called frozen (`mcp_contract_test.py:3`) is written at every start.

*Screens.* `key in fresh` then `fresh[key]` may raise when the entry expires in between, in a function that never raises
(`fundamental.py:293`, `:300`); an answer that cannot be read is cached as a fresh success. The capture of a new trade stores a stale answer unmarked.
The running peak starts at the first value, so that two losses do have a drawdown (`aggregation.py:125` says zero). Candles of a part of the window count as a
hit (`ohlc_cache.py:15` says whole or nothing), and pinned extremes are computed anew each time (`routers/trades.py:85` says they are guarded);
`LonePinsAreWhole` therefore speaks of drilldowns that overlap no other. A failed radar fetch is a list without picks, after which all are new.

*Journal.* The keys a URL may carry lack `agent` (`routers/pages.py:67`, `routers/api.py:64`), so the links of the agents' chips select nothing
(`code-review-epic-8.md:53` says `?agent=bot:any` does); `ChipsKeepTheirPromise` leaves them out. A chip's promise is broken in two more ways, both for specs that
come unvalidated from a bot (`bot_execution.py:496`), the first also for a strategy typed into the tagging form. A value with a comma or outer blanks
does not survive its own link: the link encodes it whole (`routers/pages.py:116`), the page splits and strips it (`:90`, for pasted URLs), so that it selects the parts and
not the value; the same goes for a preset, which is stored unsplit and split when it is opened. `ChipsKeepTheirPromise` leaves such values (`Compound`) out. And the `override` chip counts
trades whose `followed` is null (`placeholders.py:98`, the ELSE of the CASE), which no selection finds (`:138`, null is equal to nothing); `ChipsKeepTheirPromise` states the gap: the page has fewer trades than
the chips said, by exactly these (`NullFlags`). The chips of `regime_tag` and `confidence_band` name columns
that do not exist, and a URL with them blanks the page. The links of the pager drop facets and day; an unknown broker is ignored where an unknown value of
another facet matches nothing; chips, totals and the export ignore the day. A trade tagged between the count and the list can leave a page
empty (`trade_query.py:144` says a stale bookmark always lands on data); `PagesShowTheSelection` excepts selections by tag. The export leaves an exit price of 0 blank.

## 5. The proofs

TLAPS proves, for any sets of strategies, proposals, requests, executions, trades, windows,
picks and URLs and any number of attempts and rows, every safety and every action property that a
passing run checks:

| Module | Theorem | Says |
|---|---|---|
| StrategyLifecycleProofs | TypeCorrect, TrailAlwaysMatchesTag, ReleasesAnswerPauses, RetiredStaysRetired | the safety properties of the run |
| | LifecycleImplementsContract | `Spec => Contract!Spec` |
| ApprovalPipelineProofs | TypeCorrect, ProposalsStartActive | types; the row lock works |
| | PipelineImplementsContract | `Spec => Contract!Spec` |
| | ApprovalsAreNeverRed, DecisionsAreAuditedOnce, AuditedApprovalsPassed | the rows are right |
| BotExecutionProofs | TypeCorrect, OrdersAreClaimed, OrdersAreUnique, OrdersAreForApproved, FillsAreFinal | the safety properties of the run |
| | ExecutionImplementsContract | `Spec => Contract!Spec`, the contract of orders |
| | TradesAreBookedOnce | a trade is booked once, for a filled order |
| | FillsAreNeverDropped | while neither the process nor a handler fails, a filled order is booked, or its fill is on its way |
| QuickOrderProofs | TypeCorrect, FilledOrdersAreBooked, StampsAreReal | the safety properties of the run |
| | QuickOrdersImplementContract | `Spec => Contract!Spec`, the contract of orders |
| | TradesAreBookedOnce | a trade is booked once, for a filled order |
| | FillsAreNeverDropped | a filled order is booked, its fill on its way, or lost to a crash or a failing handler |
| TradesLedgerProofs | TypeCorrect, QuantitiesAreReal, TradesAreCapturedOnce | the safety properties of the run |
| | LedgerImplementsContract | `Spec => Contract!Spec` |
| RuntimeProofs | TypeCorrect, ServesOnlyMigrated, BackupsAlwaysSurvive | the safety properties of the run |
| ScreensProofs | ScreensAreTyped | types of all five parts of the run Screens |
| | AnswersAreAlwaysHonest | what readers are told, for any caches and lives |
| | PagesAlwaysShowTheSelection, ChipsAlwaysKeepTheirPromise | the journal, for any trades, URLs and page size |
| TradeFiguresProofs | LonePinsAreAlwaysWhole | pinned extremes, for any windows, candles and requests |
| | DrawdownIsAlwaysDeepest | the drawdown, for curves of any length |
| | ExtremesBoundEveryPrice, StopOutLosesOneRisk, ProfitsHaveAPositiveGain | the figures of one trade, for all numbers |

The arguments.

*StrategyLifecycle.* `IInv` adds `CheckedRequests` to types and `TrailMatchesTag`: a request
that is about to swap carries a transition the FSM allows from the status it
saw. The swap's WHERE makes the seen status the present one, so its
step is an FSM move; the sweep's WHERE does the same for pauses and releases.
Every step then is a `StrategyContract` step, and `RetiredIsTerminal` follows from
the contract, because nothing leads out of `retired`. A release writes rows for tagged strategies only, and those are
the ones whose last row is a pause (`TrailMatchesTag`), so that each release answers a pause of its own (`ReleaseFollowsPause`).

*ApprovalPipeline.* `LockedRows` (whoever holds a lock holds it alone, on an active
strategy) gives `CreatedWhileActive`. `CheckedApprovals` (an approval past its read saw
a verdict that allows it) with the swap's WHERE makes each commit a `Decide` of the
contract. The row properties are then proved once, on the contract's four actions, and
carried over by the refinement.

*BotExecution.* `EveryOrderIsClaimed` is not inductive. `TaskKeys` says which tasks hold
a key and that it is the one in the database, `OwnKeys` that a claimed key belongs to its
proposal, `KeysAreClaimed` that what is on the wire or at the broker is claimed,
`SubmissionsLeft` that a task about to submit has an attempt left (which bounds `tries`).
The claim's `IS NULL` makes a key permanent, so all keys of one proposal are one key,
which is `AtMostOneOrderPerProposal`. `ApprovedWork` (a task past its check works for an approved
proposal) uses that approval is final, from the contract. `FillsAreReal`
(a fill that is queued, in the handler's hands or booked is one the broker made) gives
`TradesAreFills`; with a queue of events it rests on what Head, Tail and append do. `FilledStays` needs the order of the whole
queue: a fill is the last thing an order reports (`FillsComeLast`), and a proposal is marked filled only when nothing but further
reports of that fill is left in its order's queue (`FilledIsReported`).
Together with `KeysAreClaimed` and `OrdersAreApproved` (the handler knows the key of every order and finds its proposal approved) that gives `NoFillIsDropped`, what
`FillsAreRecorded` needs beside fairness: the handler takes a fill off the queue only to write it to its proposal, and nothing takes it from there. It is proved of runs without crashes and failing handlers, as `FillsAreRecorded` is checked. The acknowledgement's UPDATE does not match a filled row.
The contract then needs one lemma per statement that moves what it speaks of: the claim is `Record`, the broker's steps are `Place` and
`Fill` (`KeysAreClaimed` says that what is placed is recorded), the handler's INSERT is `Book` or, repeated, a stutter. All others, and a crash, stutter.

*QuickOrder.* `RowsExist` (whatever concerns an order begins after its INSERT), `EventsAreReal`
(a queued event belongs to an order that exists, a queued fill to one that is filled) and
`AnswersAreReal` (an id on the row, or about to be stamped, is one of an order that exists) are
inductive because the broker only moves forward. `FilledIsBooked` then needs only that status and
trade are written in one transaction, and that there is at most one trade. The contract rests on the same three: nothing but the INSERT makes a row
(`RowsOnlyCome`), because an event belongs to an order that exists, and that to a row.
`NoFillIsDropped` is what `FillsAreBooked` needs beside fairness: a report is added behind the queue (`ReportKeepsQueue`), the handler takes the first
one (`TailKeepsQueue`), and if that was the fill, it books it or the order is among the `missed`.

*TradesLedger.* `WorkIsReal` (what a writer has read and not yet written was executed) needs that the broker takes
nothing back. Then one lemma per operator that writes a row gives `RowsOnlyGrow`: a row keeps its existence, its
close and its tag, and its quantity stays within what was executed. That relation, for all rows at once, is a step of
`TradeContract` or a stutter, whichever writer took it, including a `WriteTrade` whose SELECT is out of date. `CapturedOnce` needs
`CapturesHaveRows` besides: whoever spawned a capture left a row, so that no later upsert inserts.

*Runtime.* `NothingIsMissed` (from the read of the records on, a file of the release is recorded or to do) and `RecordsAreTrue` (a
file has run once if it is recorded, else never) are inductive because the statements of a file and its record are one transaction,
and give `ServesMigrated`. `BackupsSurvive` is about what the rotation leaves: of the dumps newer than a given one, if there are
`Keep`, it leaves `Keep` (`NewestStay`: either none of them may be deleted, or the newest that may has `Keep` others above it, which may not). So "on disk or
outnumbered" (`Covered`) is never lost; `RowsAreOwn` (a run closes a row of its job) and `ResultIsCovered` carry it from the rename to the row of the log.

*Screens: assessments.* What an entry has aged since it arrived it has lost of its life, and its agent has been silent no longer than that
(`FreshIsYoung`); a reader keeps the age it was served with (`ServedIsYoung`). The stale cache has one entry per symbol (`OneEntryEach`), the
answer the fresh cache holds for as long as it lives (`StaleIsLast`).

*Screens: figures and candles.* The signed move is monotonic in the price, rising for a long and falling for a short, and multiplying by a quantity keeps the
order. `LonePinsAreWhole` is not inductive: a pin is as good as the candles held by the request that makes it, and those as good as the table.
`HeldIsWhole` (a request holds part of its trade's window, and all of it if the trade is alone or the candles came from a client), `StoredIsWhole`
(the minutes of a lone trade have one and the same life in the table, since a batch is a transaction and no other trade writes them) and `PinsAreReal` (a pin is what `Extremes`
makes of such candles) are. Finite windows have a lowest and a highest price (an induction over finite sets). The theorem shows a hypothesis
the code leaves open: with a candle whose low is above its high (`Upright` excludes it; nothing checks what a client sends) MAE and MFE bound nothing.

*Screens: curves.* `PeakIsHighest` (the peak is a point of the curve and above all others) makes the running drawdown the deepest fall: a new point falls
deepest from the peak, or is the new peak.

*Screens: radar.* `Among` keeps the picks with some keys in their order; with the complement of the keys it splits a list (`AmongSplits`, by induction on its length),
which makes the three lists of a page a partition (`DiffPartitions`).

*Screens: pages.* `Rank` numbers the trades of a selection from 1 without a gap (an injection between finite sets of one size), division by the page size
puts each number on one page, and pages up to the last are not empty (`PagesPartition`, `PageHasRows`). Along the statements of a page `PageExists` (the number was clamped to the count),
`QuietPageIsTrue` (what was read in peace is what is there) and `CountIsReached` (a selection by columns finds no fewer trades when it is listed than when it was counted, for
trades are only added, and tagging changes no column) are inductive.

*Screens: chips.* The sum of a facet's chips is a recursion over a finite set. `SizesAddUp` proves two things of it: it has a solution, and only the size of the union solves it if the
sets are disjoint. Those of the values of one facet are, because a trade has one value of each (`ValuesExclude`), and their union is what the link selects together with the null
flags the override chip counts (`ConditionIsOfValues`). A selection holds only values that are read as they are (`SelectionsAreOfUrls`), so that a link made of it and
of a value without commas is read as it was written (`PlainIsRead`, `ChipSelects`); and a preset, stored unsplit, is read as the URL it was saved from (`PresetsAreRead`).

*Figures of one trade.* The P&L is net of fees, the R-multiple gross: `ProfitsHaveAPositiveGain` says that they agree on who won up to the fees, and that with fees that are not negative
a profit has a positive gain, not the converse.

*Screens: together.* A step of the run is a step of one part and a stutter of the others, so that every part keeps to its own specification (`PartsKeepTheirSpecs`), about which the
theorems are.

*Induction.* The library's induction theorems take an operator as parameter and are not used: `SubsetInduction` and `NaturalInduction` state
theirs with a set of values in place of a predicate and are proved from the well-foundedness of strict inclusion and of the order of the naturals. A recursive function is a CHOOSE, so each has a lemma that its equation has a solution.

Assumptions of the proofs are the modules' named ASSUMEs only: `NoStrategy` is no
strategy, the kill switch's strategies are strategies, `FirstExecution` is
an execution, attempts are a positive number, closing orders and options are orders, migration numbers are naturals, the
backup job is a job and keeps at least one dump, a pruned stale cache is neither empty nor full, no answer lives longer than an hour, minutes, trades and the values in a URL are finite in number, what a value is split into is finite and is not split again, rows have a known broker and tags only the keys of a trigger spec, with a flag that is a Boolean or null, lists of picks and pages have a size, bounds are numbers, `NoFigure` is no number. TLC evaluates them in every run.

Only model-checked: liveness, for fairness and ENABLED are beyond the prover. These are `VerdictArrives`, `ApprovalIsAnswered`, `FillsAreRecorded`, `FillsAreBooked`,
`FlexClosesTrades` and `SlotIsFreed`; and the four refutations of section 4, which are counterexamples.

## 6. Assumptions and omissions

* Statements are atomic and transactions serialise on the rows they write, as PostgreSQL's
  READ COMMITTED does for single-row guarded UPDATEs; `FOR UPDATE` blocks writers.
* The brokers report in order. cTrader's protocol promises no order: an
  event that overtakes a fill would move `execution_status` back, because the event
  UPDATE accepts any status. Recorded as a hazard; a reordering client is planned.
* The stub clients of the repository fill at once and forget everything on restart. The models
  use the brokers the protocols in `clients/` describe, which do strictly more.
* Numbers are modelled where a property is about them: quantities in the ledger, prices and fees in the figures. Elsewhere
  no modelled decision reads them.
* The `followed` flag of a spec is a Boolean or null. An agent could also send a text that is no Boolean, which the cast of the chips and of the condition refuses: the chips of the facet
  would be gone, and a page selected by it an error. A list of values in a preset is taken without its outer blanks.
* The Flex statement has one element per execution; its XML and the decoding of its attributes are the row they yield.
* The database pool, the filesystem and pg_dump may fail at any step; permissions, environment and compression are left out.
* The clients of the candle chain are stubs in the repository; the model's answer, as the chain is made for. The bodies of jobs other than the backup are
  opaque in `Runtime`, because the modules that model them have their own runs.

Not modelled, and why: the wording of broker errors (`ib_error_map.py`, a table), the one connect of `clients/ib.py` (lost events cover its
failure), the MCP contract test and the health page (a comparison of two documents, and rendering), the preview and option-chain routes of quick orders
and the forms (they keep no state), the notes of strategies and the per-broker columns of regime snapshots (no decision reads them), the mistakes report, calendar
and heatmap (one SQL statement each), trigger specs and taxonomy as data, the prose of queries and specs, the command palette, templates, configuration and
logging. None has steps that could interleave, fail half-way or come in the wrong order.

## 7. The plan

Done: strategies and kill switch, approvals, bot execution, quick orders, the ledger with its contract, the runtime (migrations, jobs, backups),
the screens (caches, candles, curves, radar, journal), the common contract of the two ways to an order; proofs of
every safety property the runs check. Left, in order:

1. **TradingSystem**: lifecycle, pipeline and execution composed concretely, to check the contracts
   in use and the end-to-end promise (no order without an unpaused approval at its time).
2. Variants of BotExecution: a reordering client, `expired` mapped to `submitted`; a shared broker module; quick orders as
   a fourth writer of the ledger, with the quantities of partial fills.
3. Proofs: what `FlexClosesTrades` rests on short of fairness, as `FillsAreNeverDropped` is for the fills of both ways to an
   order (the select before a close sees every row), and the contracts in use of the composition of 1.
4. The notes of strategies, the MCP baseline and the regime snapshot's partial failures.

The suite is kept at a dozen runs, so that it finishes in minutes; new modules take their place by merging.

## 8. How to run

```
tlc -workers 2 -config StrategyLifecycle.cfg MCStrategyLifecycle.tla
tlc -workers 2 -config BotOrders.cfg BotExecution.tla       # the longest, two and a half minutes
tlc -workers 2 -config Screens.cfg MCScreens.tla            # two minutes
tlapm BotExecutionProofs.tla
```

`PROJECT.json` names the module and cfg of every run, and maps every definition to the
lines of the repository it models.
