# Forex-automation: a TLA+ model of the trading engine

The repository is an automated FX trading system: a Python process (the
*engine*) decides on trades, a MetaTrader expert advisor (the *EA*) executes
them, and the two speak through files in a shared *bridge directory*. The engine
keeps its ledger in SQLite. Real money depends on four independent records of
the same positions agreeing: the broker's, the EA's memory, the ledger, and the
engine's memory. The engine may die between any two of its effects, the EA may
restart, files may be locked, torn or left behind, and the broker moves on its
own.

Six systems are modelled, each with its own specification:

1. **the path of a trade** from proposal to counted outcome (`TradingEngine`);
2. **the stops that limit losses**, across restarts (`AccountAnchors`);
3. **start-up**: which mode, limits and experiments a process may run with
   (`Startup`, which implements the abstract `LaunchGate`);
4. **a decision cycle**: what the agents, filters and gates make of a moving
   market (`DecisionCycle`);
5. **stop management in the EA**, call by call (`TradeManagement`);
6. **what surrounds the engine**: its supervision by scheduled tasks and the
   watchdog (`Supervision`), and the offline pipeline that trains the
   meta-labeler (`Research`).

Paths below are relative to `src/fx_ai_engine/` unless they say otherwise.
`main.py:1321` is line 1321 of that file.

## 1. Inventory

### Modelled

| Component | State | Operations | What makes it correct |
|---|---|---|---|
| Trade store (`database/db.py`, `schema.sql`) | `trades`, `trade_reservations`, `feedback_receipts`, `account_metrics` | proposal, execution and exit updates, reservation and its clean-up, transitions, receipts, start-up migration | capacity never oversold; a trade ends in one terminal state; a receipt means the effect took place |
| Signal router (`bridge/signal_router.py`) | pending signals, locks | lock, atomic publication, `cleanup_stale` | a failed send is reported as "visible" or "not visible" correctly |
| Artifact reader (`bridge/execution_feedback.py`) | execution, exit and snapshot files | collect, delete, quarantine | nothing read is lost, nothing is applied twice |
| EA (`mt5_ea/FX_Execution.mq5`) | processed ids, management slots and their state files, pending deal events | signal handling, break-even, partial close, trailing, exit events, sweep, snapshot, `OnInit` | one order per signal and restart, none after expiry, risk never above the fill's, an exit artifact for every close |
| Feedback consumption and recovery (`main.py` 1204-1485) | engine memory (streak, last close) | `_consume_feedback`, `_recover_missing_trade_closures_from_broker` | every closure is recorded and counted once |
| Account state and reconciliation (`main.py` 1069-1160, `core/state_sync.py`) | `AccountStatus` | snapshot choice, reconciliation, restart seed | trade only on a consistent picture |
| Decision, gate, routing (`main.py` 1777-2087, `core/risk/hard_risk_engine.py`, `application/routing_service.py`, `core/policy/envelope.py`) | batch of candidates | housekeeping, gate, reserve, route, failure paths | the policy's limits hold over everything open or in flight |
| Equity stops (`core/state_sync.py`, `core/risk/reset_scheduler.py`) | peak, daily and weekly anchors, measured losses | refresh, failed refresh, reset, checkpoint | daily, weekly and drawdown stops measure from the true reference across restarts |
| Runtime policies and start-up (`config_microcapital.py`, `main.py` 143-712 and 2143-2277, `core/mt5_bridge.py`) | environment, policy, connection, exit code | credentials, connection, policy, overrides, experiments, account gate, approvals, `Engine.__init__` | no research mode and no experiment on a live account; limits are the ones reported |
| Lots and money (`core/mt5_bridge.py`, the EA's `CalculateLot`) | none | approval of preserve_10, eligibility, feasibility, lot | a fill stays within the budget; what the engine finds feasible the EA fills |
| Agents, filters, portfolio manager, ML shadow and canary (`core/agents`, `core/filters`, `core/sentiment`, `core/data_quality`, `ml/`) | none (each answers what it read) | one operator per rule | directions agree, risk stays in its band |
| Decision cycle as a whole (`main.py` 1487-2140) | last candles, account snapshot, evaluation in progress, funnel events | candle check, session, regime, technical, adversarial, portfolio, hard gate, ranker, canary, reservation, routing | one row and one funnel per signal; nothing stacks unseen |
| Watchdog, health endpoint, tasks (`watchdog.py`, `core/health.py`, `setup/`) | processes, port, heartbeat | task, check, kill, start, terminal restart | engines do not pile up, a working one is left alone, and one always runs again |
| Offline pipeline (`ml/meta_labeler/`) | replay position, shared cutoff, candidates, labels, table of labels, matrix, folds | replay, label, resolve, build, split, train | labels are true, rows keep them, folds do not leak |

How they interact: the engine's loop (`Engine.run`, `main.py:2089`) is
sequential: consume feedback, recover closures from history, refresh the account,
maybe decide and route, write a metrics row, sleep five seconds. The EA
runs on a one-second timer and on deal events, beside it. They share only the
bridge directory; the engine also queries the terminal for positions and
history. The store is private to the engine and survives it.

Before the loop `main()` decides once what the process may run with; the
watchdog looks at it from outside, through its health endpoint and the list of
processes, and knows nothing of what it trades.

What is hard: the EA and the broker interleave with every step of the loop;
each transaction, rename and delete is separate, so the process can stop
between any two; several records describe one fact; time enters through
reservation expiry, envelope expiry, file age and snapshot age. Several readers
of one environment, one account and one price series look at different
moments. `PROJECT.json` lists each hazard at its line with the properties aimed
at it.

### Not modelled, and why

| Component | Reason |
|---|---|
| Indicators (`core/indicators/calculators.py`) | floating-point recurrences over price series; `SignalAgents` is given their results. Their exact values are out of reach of a model checker over integers |
| Mock feedback simulator, mock MT5 | stand-ins for the EA in smoke tests, called synchronously in the loop; none of the races of the EA exist there |
| Backtesting (`backtesting/`) | a second, sequential simulation that produces reports; nothing the engine runs depends on it |
| Alerts, metrics, dashboard | observers, without influence on the engine |
| Validation and audit tools | reports over the database |
| The EA's LIMIT orders | no code of the engine asks for one: `order_type` is `"MARKET"` (`core/types.py:32`) wherever a signal is made |
| The router's registry of processed ids | see the plan |

## 2. Modules

```
TradeStore
  SignalBridge              extends TradeStore
    ExecutionEA             extends SignalBridge
      FeedbackConsumer      extends ExecutionEA
        TradingEngine       extends FeedbackConsumer: Next, Spec, FairSpec
          EngineProperties  extends TradingEngine
            MCTradingEngine          for TLC
            TradingEngineTypes       type correctness
              TradingEngine_proofs   lifecycle of a trade, exposure

AccountAnchors
  MCAccountAnchors          for TLC
  AccountAnchors_proofs     drawdown, daily and weekly stops, types

RuntimePolicy               profiles, overrides, experiments, shadow and canary
  LotApproval               extends RuntimePolicy: money, lots, approvals
    Startup                 extends LotApproval: main() as a process
      StartupProperties     extends Startup; instantiates LaunchGate
        MCStartup           for TLC
        Startup_proofs      the gates, the refinement, limits and lots
LaunchGate                  what governance of runtime modes promises

SignalAgents                the rule of each agent, filter and gate
  DecisionCycle             extends SignalAgents and RuntimePolicy
    DecisionProperties
      MCDecision            for TLC
      Decision_proofs       types, direction, risk, stacking, funnel, evaluations

TradeManagement             the EA's handlers, call by call
  MCTradeManagement         for TLC
  TradeManagement_proofs    risk, single halving, single fills, no unmanaged position

Supervision
  MCSupervision             for TLC
  Supervision_proofs        types, engines bounded, running engines spared

Research
  MCResearch                for TLC
  Research_proofs           sorting, labels, alignment of the matrix, leaks across folds
```

Each module adds the variables of its component and the operators on them; a
module to the right extends the one to its left.

- **TradeStore** - the four tables. Each operator with a primed variable is one
  transaction of `db.py`; the store reads (`Ledger`, `Active`, `HasCapacity`)
  are the queries. `Transition` and `ApplyExecutionResult` carry no condition on
  the present state because the SQL has none.
- **SignalBridge** - the directory: `pending`, `locks`, execution and exit files,
  snapshot; `CleanupStale`. A signal file and its lock are as old as the
  reservation made right before them, so `FileAge` is taken from its expiry.
- **ExecutionEA** - the EA's handlers, one action each, since MetaTrader runs
  them one at a time; the broker's `ClosePosition`; the EA's `PartialClose`,
  whose deal is an exit deal although the position stays open. The terminal is
  restarted between two handlers (`EARestart`) or killed inside
  `ProcessPendingSignal`: `KilledInExecution` after the order, the state file or
  the artifact and before the signal file is deleted (`FX_Execution.mq5:1205-1265`),
  `KilledInRejection` after the artifact of a refusal. `restarts` and `reread`
  are history: how often the EA forgot the ids it had processed, and which
  signals it handled again. The module also declares the fault budget.
- **FeedbackConsumer** - first half of the loop. `pc` says where the loop is.
  Each effect on the trade, reservation, receipt or loss streak is a step of
  its own, so a crash can fall between any two. The listing of open positions
  may come back empty without an error (fault `"positions"`,
  `core/mt5_bridge.py:447-458`), and any exit deal passes for a closure, that of
  a partial close included (`core/mt5_bridge.py:67-148`); `summary` is what the
  history said.
- **TradingEngine** - second half of the loop, crash, restart, clock, and
  `Next`, `Spec`, `FairSpec`.
- **EngineProperties** - everything stated about `Spec`.
- **TradingEngineTypes**, **TradingEngine_proofs** - the theorems about `Spec`.
- **AccountAnchors**, **AccountAnchors_proofs** - the equity stops as a system
  of their own: the reading of equity, its peak and anchors, checkpointing,
  seeding, resets and the gate. It is separate because its data (equity values,
  calendar) is independent of a trade's path, and the product of the two would
  hide both.

- **LaunchGate** - an abstract specification: a process launches at most once,
  with a grant that permission, account and kind of run allow, and keeps it.
- **RuntimePolicy, LotApproval, Startup** - `main()` from the command line to the
  exit code. Every gate is applied twice, by `main()` and by `Engine.__init__`
  (`stage`), and each reading of the account may fail on its own. The lot is there
  twice, as in the code: `FeasibleLot` is the engine's estimate, in dollars of the
  virtual balance (`core/mt5_bridge.py:946-1041`), `EALot` is `CalculateLot`, in
  units of the whole one (`FX_Execution.mq5:494-525`). The refinement
  mapping reads a grant off the policy of the running process.
- **SignalAgents, DecisionCycle** - each agent is an operator on the values it
  compares; the cycle asks them in the code's order, one action from one fetch of
  data to the next. Every fetch is a new choice, so whatever two agents
  read at two moments may differ. `RouterFails` is the error of the router
  (`main.py:1927-1977`), raised again in core_srs: it is logged, leaves no row and
  ends the process (`pc = "ended"`), whether or not the EA has the signal. Writes to
  the database succeed, and a restart is `TradingEngine`'s subject. Router, EA and
  artifacts are abstracted to `Fill`, `Finish` and `PublishSnapshot`, which
  `TradingEngine` models in full.
- **TradeManagement** - one timer event of the EA as the calls it makes: order,
  slot, state file, mark, delete; then for each position a reading of price,
  stop and volume and the break-even, partial-close and trailing calls that
  rely on it; then the sweep. The broker closes positions between any two calls,
  and the terminal may be killed there. `ExecutionEA` has the same handlers as
  one action each, with what the engine sees of them: artifacts and snapshots.
- **Supervision** - engine processes, instances of the watchdog and the tasks that
  start both, in intervals of five minutes. The instances run in parallel, as the
  shipped task starts them. A kill may be denied and the start follows all the same
  (`KillDenied`, `watchdog.py:173-181`; `spared` counts the rounds), and a terminal
  may not start (`TerminalStaysDown`, `watchdog.py:79-91`).
- **Research** - replay, labelling, matrix and folds, step by step over a
  history of bars; a horizon on each candidate records how far its data looked.
  `ResolveLabels` sorts the table of labels, which may join those of two replays
  (`ml/meta_labeler/training_pipeline.py:190-203`), and `MatrixEnds` sorts the
  features once more and not the labels (`258-265`).

`Mutant:` definitions, each beside the definition it alters, are plausible
bugs; replacing the original by one makes the property named with it in
`PROJECT.json` fail. They play no part in any specification.

### Code and model

| Model | Code |
|---|---|
| `pc = "collect_exec" .. "exec_finish"` | `main.py` 1338-1405 |
| `pc = "collect_exit" .. "exit_delete"` | `main.py` 1408-1485 |
| `pc = "list_open" .. "recover_count"` | `main.py` 1250-1336 |
| `pc = "refresh"` | `main.py` 1069-1160, `core/state_sync.py` |
| `pc = "candle", "housekeep", "mark_uncertain"` | `main.py` 2003-2083 |
| `pc = "evaluate"` | `main.py` 1777-1926 with the gate and the reservation |
| `pc = "lock", "publish", "registry", "insert"` | `SignalRouter.send`, `RoutingService.reserve_and_route`, `main.py` 1927-2001 |
| `pc = "persist"` | `main.py` 2112-2140 |
| `pc = "down"` | no process; `Restart` is `main()` with its migrations |
| `Startup`: `pc = "gate"`, `"approve"`, `"preserve"`, `"build"` | `_enforce_demo_only_experiment_account_gate`, `evaluate_runtime_policy_approval`, `evaluate_preserve_10_startup_approval`, `Engine.__init__` |
| `TradeManagement`: `pc = "slot" .. "delete"` | `ProcessPendingSignal` from the order on, `FX_Execution.mq5` 1228-1266 |
| `TradeManagement`: `pc = "manage" .. "trail"`, `seen` | `ManageOpenPositions`, and the locals of one visit |
| `TradeManagement`: `slots`, `files` | `g_tickets` and the arrays beside it, `management_state_<ticket>.json` |
| `DecisionCycle`: `pc = "regime" .. "route"` | `_evaluate_symbol`, cut at its fetches of data |
| `DecisionCycle`: `book[t].known` | the part of the ledger the account showed when `t` was routed (history) |
| `Supervision`: `watchdog[w]` | where an instance is in the loop of `watchdog.py:156-187` |
| `Supervision`: `IntervalPasses` | `time.sleep(300)`, and the trigger of the watchdog task |
| `ExecutionEA`: `KilledInExecution`, `KilledInRejection` | `ProcessPendingSignal` cut short, then `OnInit` |
| `Supervision`: `KillStale`, `KillDenied` | the loop over the processes, `watchdog.py:173-181`, without and with an exception |
| `Research`: `pc = "classify" .. "train"` | `replay_signals`, `label_all`, `_resolve_labeled_dataframe`, `_build_training_matrix`, `generate_walk_forward_folds`, `train_baseline` |

### Abstractions

- Risk is an integer in thousandths of the balance; the loss streak is kept up
  to `LossHalt`, since the gate refuses every larger value alike.
- In `TradingEngine`, what agents, filters, ranker and feasibility check decide is
  a free choice (`DecisionCycle` says what it is). A trade id is proposed once; ids
  are UUIDs in the code.
- An execution artifact is told apart by status, ticket and time; an exit
  artifact by the trade id it carries, which is all that can change its dedupe key.
- A REJECTED artifact stands for every rejection reason. The EA's LIMIT orders
  are left out.
- `TradeManagement` measures prices from the entry in the direction of the trade,
  so a purchase and a sale are one case; a missing stop, which the EA never
  sends, is none. A state file is written or not: one torn by a kill counts as
  not written. An order that fails, a signal that is refused and one that
  is expired are one action, which deletes the file and sends nothing.
- Database errors are not modelled: a transaction commits or the process is
  killed. A malformed snapshot is not a fault of its own.
- `ExecutionFinish` and `RecoverCount` release a lock together with the
  effect next to it, and the two `SendFails...` actions combine the clean-up
  of one failed call with its report; nothing else reads in between except
  housekeeping of the same process.
- The policy ceilings are constants; the fixed-dollar ceilings of `preserve_10`
  are the same comparison with another limit. `Preserve10` selects the two ways
  the code handles a router failure.
- The engine's and the EA's clocks are one clock.
- Money is in cents, prices in tenths of a pip, lots in thousandths, ratios and
  probabilities in hundredths; comparisons and floors are the code's. Floating
  point enters only where it decides: the reward-to-risk check of the technical
  agent may refuse a signal by an ulp, so its refusal is a free choice.
- `DecisionCycle` keeps of a view only the values a rule compares. Only H1 is
  fetched by two agents, so only it is carried from one fetch to the next.
- `Supervision` gives out process ids lowest first, as they are interchangeable,
  and an instance keeps an answer only where it leads to a kill. It counts time in checks. A start takes less than one (three
  attempts of at most 16 s and an alert of 10 s against 300 s), a hung engine
  stays hung while its thread goes on answering, and two engines may share the
  port where the system lets a reused address be bound twice.
- `Research` leaves prices to a set of small histories and features to a choice;
  a bar's stamp is its opening time, as MetaTrader's are.
- A second fill for the same trade is merged with the first position; `fills`
  counts it, and the positions of such a trade are followed no further than open.

## 3. Runs

Each run is one cfg. The trades have a symbol each.

### Properties that hold

| Run | Instance | Shows |
|---|---|---|
| `Exposure` | 3 trades of large or small risk, position limit 2, exposure limit for one large and one small, `TTL` 3, time 0..3, pickup within a tick, no closes | `CommittedWithinLimit`, `PositionAccountedFor`, `FillsAreReserved`: what is open or in flight stays within policy by count and by risk, no open position is invisible to the next reservation, every fill is reserved |
| `CrashRecovery` | 1 trade that loses, with a partial close that wins; the broker overwrites deal comments; one crash, one fault of any kind except a failed snapshot | `FillsWithinRestarts`, `AcknowledgedPositionOnLedger`, `ExitCountedOnce`, `StreakEndsWithWin`, `TypeOK`; `ClosedTradeCounted` in the behaviours without a crash |
| `Liveness` | 1 trade, one crash, one fault of any kind except a kill inside a handler and a failed listing, `preserve_10`, time 0..1 | `ClosureReachesLedger` under `FairSpec` |
| `Anchors` | 4 equities, 4 days in 2 weeks, two restarts, two exits | `DrawdownStopHolds`, `PeriodStopsHold`, `TypeOK` |
| `Startup` | 182 environments (modes known and unknown, permission, governed and ungoverned overrides, experiments, switches), seven brokers, two connection attempts | `NonSrsNeverLive`, `ExperimentsOnlyOnDemo`, `CoreSrsKeepsItsLimits`, `AuditIsTruthful`, `FillWithinBudget`, `FeasibleTradesFill`, `ApprovedCanTrade`, and that `Startup` implements `LaunchGate` (`ImplementsLaunchGate`) |
| `Decision` | two correlated pairs, two signals, two bars a symbol, with and without ranker, shadow and canary | `StackedOnlyWhileUnseen`, `EvaluationsPerBarBounded`, `DirectionFollowsRegime`, `RoutedRiskWithinBase`, `FunnelAgreesWithLedger` |
| `Management` | two signals of different modes, one position at a time, three slots, profits of half, one and one and a half R, a near and a far ATR distance, a restart, a kill or failed write, a failed deletion or late history | `RiskNeverGrows`, `FillsWithinRestarts`, `UnmanagedWithinSlips`, `HalvedWithinSlips`; `ExitIsReported` under `FairSpec` |
| `Supervision` | six process ids, two watchdogs in parallel, engine task named by a relative or an absolute path, three faults | `EnginesBounded`, `RunningSpared`; `EngineReturns`, `TerminalReturns` under `Fairness` |
| `Research` | ten bars with a gap, histories of at most two adjacent moving bars, signals of both directions, label tables joined from two replays | `LabelMatchesReference`, `MatrixAligned`, `LeakOnlyAcrossGaps` |

Each specification has a type invariant. `CrashRecovery` and `Anchors` check
theirs, and theirs are proved, as are those of `DecisionProperties` and `Supervision`;
these and those of the other three hold on the instances of their runs (`INVARIANT
TypeOK`) and are left out of the configurations, where they would say nothing about
the code.

### Disagreements between code and documents

Three runs are expected to end in a counterexample; the claims they refute are
quoted in `PROJECT.json` under `findings`.

| Run | Counterexample |
|---|---|
| `LossCountedTwice` | recovery from history counts a loss, then the exit artifact counts it again (recovery writes no receipt) |
| `StopLoosened` | break-even moves the stop past the entry, then trailing, which compares with the stop read before, moves it back (`FX_Execution.mq5:324`) |
| `ReplaySeesAhead` | H1 is sliced by opening stamps (`ml/meta_labeler/signal_replay.py:272`), so at an M15 bar inside an hour the replayed agents see that hour's finished bar; the docstring (line 12) says "agents see ONLY data available at or before that bar close" |

### What each passing run excludes, and why

The passing runs exclude exactly the conditions under which their property
fails. Each exclusion can be lifted by one change, and TLC then shows the
behaviour described:

| Property | Holds when | Without it |
|---|---|---|
| `ClosedTradeCounted` | no crash | drop `crashes = 0`: a crash after the exit's receipt (`main.py:1441`) and before the streak update; `SRS_v1.md:137` says closed outcomes "shall update loss streak" |
| `StreakEndsWithWin` | no failed snapshot | add `"snapshot"` to `Faults` of `CrashRecovery.cfg`: the first refresh after a restart fails, and the metrics row of that pass saves a zero streak (`core/state_sync.py:112`) |
| `FillsWithinRestarts` (`ExecutionEA`) | one more fill for each restart of the EA is admitted | replace `1 + restarts` by 1: an undeleted signal file (`FX_Execution.mq5:1265`) and a restart, or a kill between the order and the deletion alone, and the EA, which has forgotten the ids it processed, fills the signal again; the architecture plan (line 124) says "no duplicate fill" |
| `AcknowledgedPositionOnLedger` | excepts a signal the EA handled again, and a partial close taken for the closure | drop `\ reread`: the second handling refuses the signal, and its artifact takes the open position off the ledger. Drop the second exception: the listing comes back empty from a terminal that is disconnected (`core/mt5_bridge.py:447-458`), the exit deal of the partial close passes for the closure (67-148), and `main.py:1267-1317` closes the row of an open position and counts a win |
| `ClosureReachesLedger` | the ledger ends CLOSED, and may leave it once | ask for `row[t] = "CLOSED"` never to be left: an execution artifact written after the collection of its pass, applied after the exit, takes CLOSED back to EXECUTED_OPEN (`database/db.py:641` asks for no present status) |
| `DrawdownStopHolds`, `PeriodStopsHold` | no early exit | `INVARIANT DrawdownStopAlwaysHolds` in `Anchors.cfg`: an exit recorded before the first refresh of a restarted process overwrites peak and anchors with zero (`main.py:1189`); `SRS_v1.md:60` asks for a hard drawdown stop |
| `PeriodStopsHold` | not the first pass of a restarted process | drop `crashes = 0 \/ passes = 1`: the fresh reset scheduler (`main.py:1151`) zeroes the daily loss just measured from the restored anchor, and that pass may route beyond the stop |
| `ExitCountedOnce` | once for each identity its artifacts carry | bound it by 1: after the sweep freed the slot and the engine deleted the artifact, the deal event (`FX_Execution.mq5:162`) writes the exit again under the comment the broker put on the deal; another dedupe key, a second count |
| `FillsAreReserved`, `PositionAccountedFor`, `CommittedWithinLimit` | no crash; no file that cannot be deleted, is locked or torn; no kill inside a handler, no failed listing; no failed send except in `preserve_10` | one `file_delete` in `Exposure.cfg`: a rejected signal whose file stays is retried (`FX_Execution.mq5:1211` marks nothing) and filled after its reservation was given back |
| `CommittedWithinLimit`, `PositionAccountedFor` | `PickupLimit = 1` | set it to 9 and `MaxTime` to 4 in `Exposure.cfg`: the EA fills just before the expiry, in a pass that has read the account before; the reservation lapses and the next candidate of that pass is approved on top |
| `StackedOnlyWhileUnseen` | excepts signals the account did not show yet | `INVARIANT NoCorrelatedPositions` in `Decision.cfg`: two correlated pairs signalled on one candle are both routed, `core/agents/portfolio_manager.py:195` looking only at positions the last refresh showed |
| `DirectionFollowsRegime` | no H1 bar closes between the two fetches | drop `~moved`: a BUY under a bearish regime; nothing compares the two (`core/agents/technical_agent.py:219`) |
| `FillWithinBudget`, `FeasibleTradesFill` | lots in hundredths | drop `InHundredths(s)`: the EA's `NormalizeDouble(lot, 2)` leaves the grid of a broker with steps of 0.001 |
| `FeasibleTradesFill` | the engine's estimate is at most the EA's lot; the two are equal on a dollar account with a divisor of 1 | drop either condition of the equality: on a cent account the engine counts dollars and the EA cents, a factor of 100; with preserve_10's default divisor of 100 the engine divides a balance the EA takes whole, and refuses trades the EA would fill. "Mirror the EA's lot math" (`core/mt5_bridge.py:954`) is true of neither |
| `ApprovedCanTrade` | dollar accounts | drop it: eligibility compares a dollar budget with a pip value in cents (`core/mt5_bridge.py:1043`), and an approved cent account trades at no stop |
| `AuditIsTruthful` | the spread limit | the divisor is taken from the environment by any mode (`apply_policy_overrides`) and is in no audit |
| `FunnelAgreesWithLedger` | excepts an error of the router | drop the `"ended"` cases: the funnel says ROUTER REJECT, the ledger has no row, though in EXECUTION_UNCERTAIN the EA may hold the signal; the process ends by the error raised again (`main.py:1927-1977`) |
| `EnginesBounded` | one engine for each instance of the watchdog, each round of kills that was denied one, and a late task | ask for one: `setup/windows_task_watchdog.xml` starts another instance every five minutes (`Parallel`), each loops for ever; two that probe at once start two engines, and two healthy engines are never resolved. An engine whose kill is denied (`watchdog.py:179`) gets a second beside it |
| `EnginesBounded` | engines the watchdog can see | count all: the shipped engine task runs the relative `main.py --mode demo` (`setup/windows_task_engine.xml:64`), the watchdog looks for the absolute path (`watchdog.py:117`), does not recognise the engine while its health endpoint is silent, and starts a second. `watchdog.py:110`: "Return True if any python process is running main.py" |
| `RunningSpared` | a running engine may die for another's silence, or for having been silent before its first heartbeat | ask for none killed: the round of kills ends every engine the watchdog sees (`watchdog.py:173`), whichever of them gave the stale answer |
| `FillsWithinRestarts` (`TradeManagement`) | the ring has room for all positions | `RingSize = 1`, `MaxTickets = 3` in `Management.cfg`: the second id overwrites the first, whose file could not be deleted, and the first signal is filled again. The code has 100 places and no lower bound on the life of a file but its expiry |
| `UnmanagedWithinSlips` | a slot for each position that may be open and for each fault (`MAX_POS` is 10, the policy opens two) | `MaxPos = 1` in `Management.cfg`: a closed position keeps its slot until its exit is reported, and a new one finds none and is managed by the EA's inputs alone, without a log line |
| `HalvedWithinSlips` | a slot for each position that may be open | a position without a slot is halved on each visit in profit down to the smallest lot: `g_partial_closed` has no place for it (`FX_Execution.mq5:293`) |
| `RiskNeverGrows` | bounds the stop by the fill's, not by the last | run `StopLoosened` |
| `EngineReturns` | excepts a hung engine that is invisible, or has no port | drop `HungUnnoticed`: an invisible hung engine keeps the port, so each check finds it stale and kills the healthy replacement; one without the port is "detected but health check failed" for ever (`watchdog.py:173`) |
| `RunningSpared`, `EngineReturns` | zones at or east of UTC | an offset below 0: the engine's naive local stamp (`core/health.py:22`) is read as UTC (`watchdog.py:57`), so each answer is stale and each check restarts a healthy engine. East of UTC, a hung one is noticed hours late |
| `LeakOnlyAcrossGaps` | excepts trades held longer than purge and embargo | drop the exception: a trade held over a weekend ends some 54 h later, purge and embargo are 24 h each |

Also seen, and stated by no run: the "one-time" migration (`database/db.py:457`)
runs on each start and marks a PENDING trade FEEDBACK_LOST although its signal
may still be filled (`AcknowledgedPositionOnLedger` and `ClosureReachesLedger`
show that such a trade returns when its artifact arrives). `cleanup_stale` asks for
the age of a file the EA may delete at that moment (`bridge/signal_router.py:182`),
which ends the process: one of the crashes `CrashRecovery` has at each step. A pass
uses its candle up even while trading is halted (`main.py:2119`). The two
"relaxation" experiments raise thresholds instead of lowering them
(`config_microcapital.py`). The environment variables of shadow and canary enable
them on a live account, past the gate for policy experiments, and leave no trace in
the evidence tag. An extreme volatility makes the adversarial agent approve
before its RSI and stacking checks. A restart by the watchdog loses
`--policy-mode`. The research checkpoint is fitted on all rows whatever the
folds scored, and an error in the shadow's model bypasses it.

### Bounds, and why they are enough

- `MaxTime`, `TTL`, `CleanupAge`, `SnapshotAge`, `IterationLimit` are ticks. In
  the code the reservation lives 120 s, the clean-up age is 600 s and a pass takes
  about 5 s; only their order matters. In `Exposure`, three trades
  cross either limit, one large and two small ones or two large ones; `TTL` 3 and
  time 3 let reservations be made and answered in three passes; `CleanupAge` 9 keeps clean-up out of it as 600 s does. In
  `CrashRecovery` `TTL` and `CleanupAge` are 1, so expiry, stale signals and
  orphan locks happen within `MaxTime` 2.
- `MaxFaults`, `MaxCrashes`, `MaxCloses` bound events per behaviour. One
  trade with one crash and one fault covers each pair of one crash position and
  one fault position.
- `MaxFills` and `MaxCounts`, both 3, stop history counters beyond what the runs
  reach without a violation: two fills with one restart, two counts under two
  identities.
- `LossCountedTwice` has `MaxTime` 0, a still clock: its counterexample needs no
  expiry. `Liveness` has one tick, enough for a signal to be left by its pass and
  for artifacts and snapshots to age; its property does not depend on how long a
  step takes, and interleavings and order are unrestricted.
- `Exposure` has no close and no partial close: with three trades and the clock
  they take the state space beyond reach. They only reduce what is committed, and
  the theorems about the three properties admit any number of them.
- `Liveness` leaves out the kill inside a handler and the failed listing. After a
  kill the EA may have filled twice, and the closing of two positions of one trade
  is not followed; after a failed listing a partial close may have been recorded
  as the closure already.
- `MaxDay` 3 with `DaysPerWeek` 2 has daily changes within a week and a week's
  change; `Equities` 70..100 cross the daily (8%), weekly (15%) and drawdown (20%)
  stop, some not.

- `Startup`: environments differ in one or two settings from a plain one, in the
  combinations governance rules relate (mode, permission, override, experiment);
  brokers are one per reason to approve or refuse; two attempts stand for three.
- `Decision`: two symbols that correlate are the smallest set the portfolio
  gates can fail on; two bars each let one symbol run ahead; views are one bull,
  one bear and one flat market with calm and extreme volatility, and two pull-backs.
- `Management`: two tickets let a position close and the next be opened while the
  first still has its slot, its file or its unreported exit; one position at a
  time keeps the loop over positions short, and the visits of two positions share
  nothing but the slots. The profits lie below, between and beyond the triggers
  of both modes; one ATR distance tightens, the other would loosen. A volume
  of four can be halved twice. One kill and one restart let each step be the last.
- `Supervision`: with two instances and three denied kills `EnginesBounded` allows
  five engines in sight; six ids leave room for one the watchdog cannot see, or for
  one too many. Three faults let an engine hang, the kill of it be
  denied and a check fail. `MaxAge` 4 counts past the stale limit.
- `Research`: ten bars hold a warm-up, a gap, and two or three folds with purge and
  embargo of one bar. Two moving bars in a row decide every order of touches
  of stop and target, in one bar or in two. Two joined tables, of which the first
  may repeat the last label of the second, hold each order and each tie the sort can meet.

### Assumptions on time

- `IterationLimit`: a pass takes at most so many ticks. The code's pass is
  seconds, its time limits are minutes: one tick. `CrashRecovery` allows two, so
  that a pass that hangs between the reservation and the lock file finds its
  envelope expired (`SendExpired`).
- `PickupLimit`: the EA handles a signal within so many ticks. The EA's timer
  fires each second, but nothing in the engine enforces it: `Exposure`
  needs it, the others set it out of the way (9).

### Fairness

`FairSpec` has weak fairness of
- `EngineStep`: the loop is `while True` and each of its steps returns;
- `Restart`: `watchdog.py` starts the engine when it finds none;
- each `SweepClosedManagedPosition(t)`: the EA's timer walks all slots.

Weak fairness of the whole engine step suffices because the loop is sequential:
what it does next depends only on `pc`. It also resolves no choice in favour of
the property: a failing history call is a fault, of which there are at most
`MaxFaults`. Without a crash bound the liveness property would be false, as
repeated crashes can starve any pass. Nothing is fair about crashes, faults,
closes, the clock, or the EA's signal handling and deal events.

`TradeManagement` has weak fairness of `OnTimer` as a whole: the terminal calls it each
second and each of its steps returns. Nothing is fair about deal events, closes,
the engine's reading, restarts and kills; a late history is a fault, of which
there are at most `MaxFaults`.

`Supervision` has weak fairness of the passing of time (`time.sleep` returns, and
the task's trigger repeats for ever), of the next step of each watchdog instance
(`while True`, with every exception caught), and of the steps of a starting engine
(each of its waits has a timeout). Nothing is fair about the engine task, which
fires once or not at all, nor about faults, whose number is bounded: the
properties say what happens once they stop.

## 4. Proofs

Checked by TLAPS, for every value of the constants admitted by the named
assumptions (`StoreAssumption`, `BridgeAssumption`, `FaultAssumption`,
`EngineAssumption`, `AnchorsAssumption`, `ExperimentsAssumption`, `BlankAssumption`,
`StartupAssumption`, `EnvironmentsAssumption`, `BrokerFactsAssumption`,
`TradesAssumption`, `DecisionAssumption`, `OrderAssumption`, `ViewsAssumption`,
`ResearchAssumption`, `SupervisionAssumption`, `ManagementAssumption`), which TLC
evaluates in each run. A hypothesis of a theorem that is not one of these is in its
statement below; the instance of the run that checks the property satisfies it.

The path of a trade (`TradingEngineTypes`, `TradingEngine_proofs`):

| Theorem | Statement | Argument |
|---|---|---|
| `TypeCorrect` | `Spec => []TypeOK` | `TypeInv` adds `LoopInv`: while the loop handles a trade, `cur` is a trade, and an artifact being applied was collected. Without it `Transition(cur, ...)` has no type. One lemma per action, frame lemmas for untouched groups of variables |
| `ExitsCountedOnce` | `Spec => []ExitCountedOnce` | `ExitInv`: a trade's exit count is at most its receipts, one for each identity, and one less while the loop stands between a receipt and its count. A receipt keeps its artifact from being applied again, and a crash only moves `pc` away |
| `SignalFillsWithinRestarts` | `Spec => []FillsWithinRestarts` | `FillInv`: no fill without a reservation, no second publication of a trade (a candidate under evaluation has no reservation yet), and a filled trade whose signal file is still there is in `processed` or paid for by a restart. For all faults, kills inside a handler included |
| `StreakEndsWithWinHolds` | `"snapshot" \notin Faults /\ Spec => StreakEndsWithWin` | `StreakInv`: a process that has seeded its streak holds the persisted one, and where it decides it has seeded; so the metrics row of a pass repeats what is there, and only the two counting steps can lower it |
| `ClosedTradesCounted` | `Spec => []ClosedTradeCounted` | `CountInv`: until a crash, a closed row is counted or the loop stands between closing that row and counting it. For all faults |
| `AcknowledgedOnLedger` | `Spec => []AcknowledgedPositionOnLedger` | `EvidenceInv`: what artifacts, collected artifacts and receipts say of a trade agrees with its fills and its position: unless the EA handled the signal again, nothing says it was filled before it was, or refused after. `RowInv`: a candidate has no row while it is decided, so the late insert of a PENDING row hits no trade that has one. `RecordInv` follows such a trade from its receipt on: each step that writes its row leaves it executed and open, or finds it closed or halved in the history |
| `PartialCloseIsNoClosure` | `"positions" \notin Faults /\ Spec => []AcknowledgedStaysOpen` | the second exception is the failed listing alone: `OpenRecordInv` says that the loop then comes to recover only positions that are closed, however many were halved |
| `PositionsAccountedFor`, `FillsReserved` | `LossFree /\ Spec => []PositionAccountedFor`, `LossFree /\ Spec => FillsAreReserved` | `CapacityInv` follows a reservation to the ledger: young at the lock, pending with its capacity for at most the pick-up limit or the rest of its pass, filled with an artifact no pass has skipped, which the next pass applies before the reservation lapses. That needs the end of a pass and the answer together to be shorter than `TTL`. `RefusalIsFinal`: a rejected trade has nothing left that could fill |
| `CommitmentsWithinLimit` | `LossFree /\ Spec => []CommittedWithinLimit` | `ExposureInv` bounds what is open, pending or about to be published (`Committed`); `AccountInv` says what the cycle adds to: the count it read is the ledger's, its open risk covers the ledger's. A reservation adds one trade to `Committed`, which is contained in the ledger and the reservations the gate has just counted. Sums over sets (`RiskOf`) are proved additive by taking a smallest set that violates the claim (`SumStep`, `SumRemove`, `SumOfUnion`), so no induction theorem is needed |

`LossFree` names what the exposure properties rely on: the engine does not crash;
no artifact is torn or locked, no signal file outlives its handling, no kill falls
inside a handler and no listing of positions fails; no send fails,
except in `preserve_10`, which reports the failure and goes on where the other modes
end the process; and `AnswerLimit + IterationLimit < TTL`, where the answer limit is
the longer of a pick-up and a pass (in the code about 5 s each against 120 s). A
restarted EA, partial closes, late history, and snapshots that are late or wrong are all
admitted.
What happens without it is in the table of section 3.

Equity stops, start-up and a pass of the engine (`AccountAnchors_proofs`,
`Startup_proofs`, `Decision_proofs`):

| Theorem | Statement | Argument |
|---|---|---|
| `DrawdownStop` | `Spec => []DrawdownStopHolds` | `PeakInv`: without an early exit, the metrics row always holds the true peak, and the peak in memory equals it, or is 0 in a fresh process, or has just been raised by the present pass. The exception is the exit before the first refresh of the table above |
| `PeriodStops` | `Spec => []PeriodStopsHold` | `AnchorInv`: without an early exit, the metrics row holds the true anchor of the period it names, memory holds it too or is fresh, and the measured loss is the loss from that anchor, or zero in a pass in which a reset was due. That a reset is due only when the period has changed needs arithmetic on weeks (`WeeksDiffer`) |
| `AnchorTypesHold` | `Spec => []TypeOK` | anchors and peak are equities once read, so a loss is a share of a positive number |
| `NonSrsNeverLiveHolds`, `ExperimentsOnlyOnDemoHolds` | `Spec => []NonSrsNeverLive`, `Spec => []ExperimentsOnlyOnDemo` | `GateInv` follows the gates along the way to the run: the policy has experiments only for core_srs in a demo run from `"gate"` on, only on a demo account from `"approve"` on, and a research mode is permitted from `"preserve"` on. Lemmas say what overrides and experiments do to the shape of a policy, and that the command line leaves the permission alone |
| `StartupImplementsLaunchGate` | `Spec => Gate!Spec` | each step of start-up is a launch, a refusal, a stop or a stutter of `LaunchGate` under the mapping; `GateInv` gives `Permitted` at the launch |
| `CoreSrsLimitsKept`, `AuditsAreTruthful` | `Spec => []CoreSrsKeepsItsLimits`, `Spec => []AuditIsTruthful` | `LimitsInv`: from the first gate on each limit of the policy is the override of the environment where the mode admits one and the profile's otherwise; the two readings of the spread limit, by the policy and from the environment again, are the same function of the environment |
| `FillsWithinBudget` | `Spec => []FillWithinBudget` | arithmetic on floors: the lot on the broker's grid costs at most the money it was computed from (`GridLotBound`), the fraction sent, floored twice, at most the budget (`FractionWithinBudget`), and rounding to two decimals moves no lot of a grid in hundredths |
| `FeasibleTradesAreFilled` | `Spec => []FeasibleTradesFill` | the engine's balance, divided and in whole dollars, is at most the EA's in its own units, products and floors are monotone, and both lots are cut to one grid; with equal balances the two computations agree although they cut and round in different orders |
| `ApprovedAccountsTrade` | `Spec => []ApprovedCanTrade` | approval asks for a smallest lot that costs at most a fixed share of the budget per pip; eligibility multiplies by the stop |
| `DecisionTypesCorrect` | `Spec => []TypeOK` | the signal's fields by the stage it is at (`SignalStages`), the book and the cycle's turn by theirs |
| `DirectionsFollowRegimes` | `Spec => []DirectionFollowsRegime` | the direction is the side of the averages of the H1 view, and the regime is trending only on that side; the view changes only with `moved` |
| `RoutedRisksWithinBase` | `Spec => []RoutedRiskWithinBase` | the intervals of `SignalStages`: from the base down to 45 hundredths of a percent at the reservation |
| `StackingOnlyWhileUnseen` | `Spec => []StackedOnlyWhileUnseen` | `ShownInv`: the open symbols of the account are those of the signals it shows, and from the portfolio's verdict to the reservation none of them opposes the candidate; `UnseenInv` keeps that for every pair in the book, alive or not |
| `FunnelsAgreeWithLedger` | `Spec => []FunnelAgreesWithLedger` | `FunnelInv`: which gates the funnel holds at each stage (`GatesBefore`), and the four ways it can end, of which an error of the router ends the process too |
| `EvaluationsBounded` | `Spec => []EvaluationsPerBarBounded` | `JudgedInv` is a potential: the evaluations of a bar, plus one if the cycle under way will come to it, plus what each other symbol may still cause before this one's next bar - closing a bar while not ahead, a second while behind, starting a cycle for a bar not yet seen. Each new bar elsewhere pays for the cycle it starts |

Management, supervision and research (`TradeManagement_proofs`, `Supervision_proofs`,
`Research_proofs`):

| Theorem | Statement | Argument |
|---|---|---|
| `RiskNeverGrowsHolds` | `Spec => []RiskNeverGrows` | `RiskInv` adds what a visit read: while the position is still open, the stop read is no further than at the fill, and until the partial close the volume read is the volume. Each move is judged by that reading, so it can fall behind the last stop but not behind the first |
| `HalvedWithinSlipsHolds` | `MaxPositions <= MaxPos /\ Spec => []HalvedWithinSlips` | `HalvingInv`: for the slot and for the file alike, the partial closes are at most those the record knows of, the slips, and one waiting to be recorded; an open position with a file is managed, so none is halved behind a file's back. That a restart restores all files is a count of slots, of which it needs one for each open position (`OpenInv`) |
| `FillsWithinRestartsHolds` | `MaxTickets <= RingSize /\ Spec => []FillsWithinRestarts` | `FillInv`: the ids in the ring and the one about to enter are no more than the positions opened, so the ring forgets none; each fill is remembered or paid for by a restart |
| `UnmanagedWithinSlipsHolds` | `MaxPositions + MaxFaults < MaxPos /\ Spec => []UnmanagedWithinSlips` | `SlotsFree`: between handlers the slots in use are at most those of the positions the policy lets be open and one for each late history, so a new position finds one; `UnmanagedInv`: the positions that lost their file or slot are no more than the kills and failed writes. With the code's ten slots and two positions this covers seven late histories in a behaviour; it counts each as if its slot were never freed |
| `EnginesBoundedHolds` | `Spec => []EnginesBounded` | `StartsBounded`: the engines seen and the instances about to start one are together within the bound; an instance comes to a start by seeing no engine, or by a round of kills, which leaves none or is paid for by `spared`. A late task adds one engine, and until a task that is not late has fired or was passed by, nothing runs |
| `RunningEnginesSpared` | `(\A o \in UtcOffsets : o >= 0) /\ Spec => RunningSpared` | `KillInv`: an instance about to kill holds a stale answer, and if a heartbeat was in it, the process that gave it hangs or is gone, whatever has happened since: a hung engine never beats again. Only an age below zero, west of UTC, could be stale for another reason |
| `LabelsMatchReference` | `MinLookahead >= Ttl /\ Spec => []LabelMatchesReference` | `WalkInv`: while a candidate is labelled, no bar up to the offset decided it (`Undecided`), and a label was given at the first bar that did. The code asks for as many bars ahead as the trade lives |
| `MatrixAlignedHolds` | `Spec => []MatrixAligned` | the place of a row in a stable sort is the number of rows before it, so places are distinct and each is taken (`EarlierPlace`, `EveryPlaceTaken`, by the cardinality of finite sets), the sorted table is in the order of time (`ResolvedSorted`), and so is what the loop takes from it; a stable sort of what is in order moves nothing (`MergeOrderKeeps`, `RowsStay`), so the features stay beside their labels |
| `LeakOnlyAcrossGapsHolds` | `Spec => []LeakOnlyAcrossGaps` | `FoldInv`: no fold exists before the matrix is complete, and the training rows of a fold end a purge and an embargo before its test window |

Only model-checked: liveness (`ClosureReachesLedger`, `EngineReturns`,
`TerminalReturns`, `ExitIsReported`), as fairness and ENABLED are out of the
prover's reach. Every other property of a passing run is a theorem. That the type invariants
of `StartupProperties`, `TradeManagement` and `Research` hold was checked by TLC;
the proofs carry as much of them as they need. The three properties expected to fail
have no proof, as the specification violates them.

## 5. Plan

What is left, in order of importance.

1. **Abstract specifications of the trade path**: a trade's life (proposed,
   live, open, closed, counted) and a capacity account (reserve, commit, release),
   with `TradingEngine` shown to implement them.
2. **SignalRouter** as a module: registry of processed ids, duplicate
   suppression, the race of `cleanup_stale` with the EA's delete.
3. **Exposure with failures**: two trades with crashes and router faults; a
   silently dropped signal ending in EXECUTION_UNCERTAIN, and whether a halt
   is ever lifted.
4. **Reconciliation** with two trades on a symbol; broker clock offset.
5. **Proofs**: that `TradeManagement` implements the handlers of `ExecutionEA`;
   whether the exposure bound survives crashes (item 3), and if so its proof;
   `UnmanagedWithinSlips` with a bound on
   how many histories are late at once instead of in a behaviour; the refinements
   of item 1.
