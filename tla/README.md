# A formal model of alien-trade

TLA+ specifications of the trading agent in this repository, the TLC configurations
that check them on small instances, and machine-checked TLAPS proofs of the properties
that matter most. Every definition is translated from the source; the comment above a
definition names the function it stands for.

    tlc -workers 2 -config TradeCycle.cfg MCTradeCycle.tla     check a run
    tlapm TradeCycle_proofs.tla                                check the proofs

## 1. The system

The agent wakes once per bar, decides, and at most once per cycle swaps one token on a
chain (`mainnet`) or in its own ledger (`paper`). Around that there are a capital
manager, a risk engine, guards that may halt it, an operator with a web cockpit and a
Telegram bot, and a set of tables in Convex that everybody reads and writes through a
bridge whose calls **fail silently**: an exception in `ConvexBridge._call` is logged, and
the caller gets the default (`agent/convex_bridge.py:71`).

| part | state it keeps | operations | talks to |
|---|---|---|---|
| **Decision cycle** `agent/loop.py`, `executor.py`, `ledger.py`, `recovery.py`, `runtime.py`, `feed.py` | ledger (cash, units), executor's seen-keys, trades-today counter, mode, flags | `run_cycle` (overlays, strategy, execution, rows), `recover`, `build_loop` | everything below; called by `run_forever` and by `POST /cycle` |
| **Autopilot** `core/risk/autopilot.py` | banked floor, anchors, halted day, cooldown | `evaluate`, `start_cycle`, `deployable_capital` | called by the cycle; saved to and booted from Convex |
| **Risk engine** `core/risk/engine.py`, `guardrails.py`, `stops.py`, `sizing.py` | its own tracker of the position | `__call__` (stop, guardrails, strategy, caps), `restore` | wraps the strategy; never sees fills |
| **Kill switch and guards** `convex/config.ts`, `agent/loop.py`, `agent/server.py` | `halted`; first failure, two announcement flags | `setHalted`, equity floor, failure watchdog, `POST /halt`, `/resume` | read by every cycle, written by five parties |
| **Telegram bot** `agent/notify.py` | pending approvals, the update offset | `send_approval`, the polling thread, slash commands | loop thread sends, polling thread acts |
| **Operator commands** `agent/command_worker.py`, `convex/agentCommands.ts`, `approvals.ts` | rows and their status | `enqueue`, `propose`, `resolve`, `run_one_command` | drained by the loop and by `POST /twak/drain` |
| **Watches** `agent/watches.py`, `convex/watches.ts` | a row per watch with its armed flag | edge-triggered alerts | end of every cycle; the loop and `POST /cycle` |
| **Supervisor, spawned agents** `agent/graph`, `agent/agents` | cycles reflected on, time of the last research | `reflector`, `historian`, `researcher` nodes | events of `POST /supervisor`; the tables |
| **Second brain** `agent/secondbrain` | vector index, `reflections`, `forecast_state`, `forecast_calibration`, marks | reflect, check, forecast, dream | shrinks or blocks the cycle's order |
| **Wallet** `agent/twak_cli.py`, `wallet_manager.py`, `executor.py`, `core/exec` | balances and allowances on chain; approved routers | quote, swap, confirm, simulate, withdraw | executors, command worker, manager agent |
| **Market data** `core/data` | recordings, caches of funding, open interest, Fear & Greed | pull, enrich, live fetch | the cycle and every evaluation |
| **Strategies and signals** `core/strategy`, `core/signals` | one flag, `in_position` | `strategy(history)` | called by the risk engine and the backtest |
| **Backtest and research** `core/backtest`, `core/retune.py`, `core/evaluate.py`, `research` | a simulated account, scores, verdicts | engine, walk-forward, split, sweep, thesis gate | the same strategy code, the paper executor |
| **Social and KOL ingest** `agent/social` | scores | fetch, score | the KOL overlay |
| **Server, jobs, web, onboarding** | none a trade depends on | HTTP, UI, set-up | the tables |

How a cycle runs (`run_cycle`, in this order, and the order matters): new-day reset,
failure watchdog, mode toggle, autopilot configuration, equity floor, kill switch,
autopilot (may bank, exit or halt the day, and then the cycle ends), KOL overlay (may
trade, and then the cycle ends), strategy inside the risk engine, vetoes and
shrinking, execution, activity floor (may trade), watches, decision row, wallet
snapshot and reconciliation.

### What is hard

* **Several memories of one fact.** Position: ledger, risk tracker, strategy flag, wallet,
  replay of the trade rows. A close: table row, index record, the set of reflected cycles.
  Executed cycles: seen-set and decision rows. Halt: the switch and the loop's flags. Each is
  updated at a different moment.
* **Crashes.** systemd restarts the process at any point; what comes back is what rows say.
* **Silent losses.** Any table call, any Telegram message; a lost *reply* counts too.
* **Overlap.** `POST /cycle` runs in a thread pool; the polling thread acts while the
  loop runs; two drainers share one queue without a claim, several threads one set of
  watches, three callers one wallet.
* **Answers that say nothing.** A timeout or a missing hash leaves open whether a swap was
  sent.
* **Time.** A forecast ages by the clock, a cycle lives at its bar; a pull pages while
  candles close; the newest one is still forming.
* **Order.** Floors are persisted before sells, approvals sent before they are
  registered, the tracker updated before the executor is asked.

`PROJECT.json` lists each of these at its line under `hazards`.

### What makes each part correct

* *Cycle*: recovered cycles stay executed; rows of orders only behind swaps; ledger, wallet
  and replay agree whenever nothing known to part them happened; positions are managed in the
  mode they were opened in; the activity floor trades a day once.
* *Autopilot*: what is banked was owned, stays in cash and survives; a halted day stays
  halted.
* *Risk engine*: the stop covers what is held; the exposure cap bounds the real
  position; a restart adds nothing.
* *Kill switch and bot*: at most one cycle fills after a halt; the floor outvotes the
  operator; a press fires once; a halt is announced unless its notices are lost.
* *Commands*: served once and in order; executed again at most so often; one command per
  approval.
* *Watches*: a flag stands for an alert, a steady condition alerts once, every episode that
  lasts is announced.
* *Advice and memory*: evidence counts once, a forecast expires, one lost notice does not
  leave a stale one unannounced, calibration compares like with like.
* *Wallet*: a fill was mined; one call, one swap that can move money; what left the wallet
  leaves the ledger.
* *Market data*: recordings are complete and point in time; nothing forming is decided on.
* *Backtest*: no decision looks ahead; simulation and paper agree; the score is what it says.

## 2. The modules

| module | models | state |
|---|---|---|
| `TradeCycle` | one `run_cycle` as a walk of a caller through its stages; executors, table writes, recovery, converts | memory, tables, chain, history |
| `Autopilot` | the capital manager inside the cycle that drives it | its state, the ledger, the saved row, the cockpit's row |
| `RiskEngine` | strategy flag, tracker and ledger, three books of one position | market, tracker, book, the order under way |
| `KillSwitch` | loop thread, polling thread and operator around one switch | switch, loop flags, approvals, updates |
| `CommandQueue` | the tables of commands and approvals and their drainers | tables, drainers, effects |
| `FifoOnce` | the abstract promise of a command queue | accepted, taken, runs |
| `Watches` | the watches and the threads that check them | table, market, threads, history |
| `Advice` | research ticks and the cycle that heeds what they write | forecast row, supervisor, cycle, calibration |
| `Memory` | reflection by the loop and by threads of the supervisor, the vector index, the dreamer | index, table, threads, dreamer |
| `Wallet` | three callers spending from one wallet | chain, wallet, calls, reports |
| `MarketData` | historical pulls, caches and the live feed | clock, pull, disk, live bars |
| `Research` | the backtest engine under four harnesses | recording, leg, account, scores, verdict |
| `NoLookAhead` | two copies of `Research` in step | both |
| `*_proofs` | the theorems of the module they are named after; `RiskEngine_proofs` has those of `Advice` too, `Watches_proofs` those of `MarketData`, `KillSwitch_proofs` those of `Memory` | |
| `MC*` | bounds for TLC | |

How state and actions correspond to code:

* **TradeCycle.** `call[c].pc` is where caller `c` is in `run_cycle`; the stages are
  actions `Begin`, `SyncMode`, `Switch`, `Gates`, `Autopilot`, `Kol`, `Strategy`, `Submit` ...
  `Record`, `Activity`, `Decide`, `Snapshot`, `CloseRow`, cut where another thread, a crash or
  a lost call can come in between: between the test of the mode and the new executor
  (`Switch`), between a forced close and its row (`CloseRow`). A call keeps the executor it
  captured when it placed its order (`call.mode`, `own`), whatever another call installs
  meanwhile. `Submit` is `_check_dupe`, `Book` is `_remember` with the head
  of `_handle_execution`. `Refuse`, `RugRaise`, `Unconfirmed`, `NoHash` are the executor's
  ways to fail. What data decides (does the autopilot sell, does a reading fire, which side)
  is a free choice; positions are counted in lots. `fills`, `guarded`, `posMode`,
  `floorSwaps` and `torn` are history.
* **Autopilot.** `Decision` is `evaluate` branch by branch, with integer money and the
  thresholds multiplied out. `Begin ... Activity` are the calls of `run_cycle` that read or
  write its state, `Persist` the write to `autopilot_state`, `Boot` the constructor. The
  recycle gate's regime and confidence are one answer. `loose` is history: an uncapped buy,
  a bank not carried out, a floor forgotten by a restart.
* **RiskEngine.** `StopExit` and `Call` are `RiskEngine.__call__` (the stop first, then the
  guardrails, then the strategy, then sizing and caps: `Sizes` is what the risk budget, the
  volatility multiplier and the position cap of `sizing.py` leave); `Emitted` updates the
  tracker as the code does, before anyone has filled anything; `Deliver` is the rest of the
  cycle, which may drop, shrink or fail the order, sells included (`brain.check` and
  `_apply_forecast` do not look at the side). A fill may slip (`Slip`): an order of so
  many dollars gives fewer units (`Got`) or more of them (`Given`) than at the close, at which
  the tracker has booked it. The tracker also keeps the highest close since the entry
  (`high`) and the token it entered with (`heldSymbol`). `Restart` is `recover` with
  `restore`: the rows, at the prices they slipped to, go into a new tracker, and neither the
  high mark nor the token comes back. Lost trade rows are not repeated here: `TradeCycle`
  has them.
* **KillSwitch.** The loop's thread is `NextBar ... Trade`, cut at each call to Convex and
  Telegram; the poller is `GetUpdates`, `Command`, `Press`, `Resume`. Telegram keeps a
  sequence of updates and forgets those below the offset of a `getUpdates`; a crash resets
  the offset (it is memory only) and the rest is delivered again. `notice` counts what had to
  be said of a halt (due, lost) and whether the operator heard any of it. The market is one
  bit, whether the equity is at or under the floor. One loop thread is assumed: with *n* the
  bound of `HaltsWithinOneCycle` is *n* fills.
* **CommandQueue.** Rows are numbered in the order of `queued_at_ms`; `Waiting` is
  `pop_queued_command` over the window `agentCommands:list` returns. `Dispatch` is one effect
  that happens or does not, behind which the handler returns or raises: the command line may
  answer with an error or without a hash at exit code 0, and the row is done all the same. A
  `malformed` row is one whose `params` do not parse.
* **Watches.** `Tick` is the read of the active rows, `Check` the comparison with the
  snapshot and the write of the flag, `Fire` the alert; between any two another thread, a
  crash or a loss may come. `ConditionTrue` has the numeric and the categorical conditions,
  `create` and `cancel` the mutations with what they refuse. `owed` is history: a
  cycle saw the condition false, and no alert was tried since.
* **Advice.** `TickStart ... TickEnd` is a research tick: it claims the window (or passes the
  dedupe beside another), and researches one symbol after the other; the cycle goes from
  `CheckStaleness` through `Gate` (feedback, avoidance, forecast with its decay) to the fill
  (`Fill`), behind which the forecast is read once more for the entry (`Snapshot`; a failed
  read gives NEUTRAL), and the sell is filed with it. A mark of staleness may be set although
  its event and its message were lost (`told`, `missed`). Time is in hours, and the cycle's
  is that of its bar.
* **Memory.** A `writer` walks from the lesson over the index to the table; the loop does so
  within the cycle, a thread of `POST /supervisor` for every delivery of the same event,
  which files what its request says, with the defaults of the code for what it leaves out
  (`Reports`, `filed`). The index is a sequence in the order of writing, as the offline one
  is; `check` is `VectorMistakeAvoidance.check` with its over-fetch, threshold and
  majorities; `DreamPass` is the dreamer's comparison of rows read earlier (`Compared`,
  `Dropped`: each row against the older ones), and `Cleaned` what it then writes. The hits of
  a query are the places of the index that fewer than `TOP_K` others are `Ahead` of.
* **Wallet.** `Begin` starts an order, a command or a tool call; `Clamp`, `Approve`,
  `Quote`, the four answers of `swap_execute` and `Confirm` are the steps between
  subprocesses; `Simulate`, `Unsigned` and `Broadcast` are the SDK's. A transaction is
  pending until `Mine` or `Revert`, at any time. A TWAK timeout is `SwapCutOff`. An error may
  come before or after the broadcast (`SwapError`); one that names a revert is taken as true
  of what was sent, which is an assumption about the command line.
* **MarketData.** `pull.pc` is the stage of a pull, `CandlePage`, `FundingPage` and
  `InterestPage` its requests, any of which may fail; `MergeBar` is a turn of the pointer loop
  over the settlements, one bar at a time, and `Interest` the bisection among the snapshots.
  Readings are named by their hour, so that "from later" is an inequality; `final` says
  whether a candle had closed when read.
* **Research.** `RunBar` is one turn of the engine's loop (pending order at the open, the
  strategy, a close fill, the equity), the `Finish...` actions what each harness does at the
  end of a leg. A bar shows what the indicators say at it, since they look back only; the
  compiled rule's positions are computed over the slice, or over the whole recording for
  the holdout, as the code does.

`Advice`, `MarketData` and `Memory` give their state predicate, steps and specification names
of their own (`AdviceSpec`, `MarketSpec`, `MemorySpec`), so that one module can extend them
beside another component.

Composition: `CommandQueue` implements `FifoOnce` under a refinement mapping (accepted
rows, rows no longer queued, effects); `NoLookAhead` runs two instances of `Research`.
Elsewhere modules meet by assumption, not by `INSTANCE`: `RiskEngine`'s choices in `Deliver`
stand for `TradeCycle`'s outcomes of an order, `TradeCycle`'s in `Gates` for what
`KillSwitch` decides, `Unconfirmed` and `NoHash` for `Wallet`'s answers, `Advice`'s memory
verdict for `Memory`'s, and `Autopilot` takes from `TradeCycle` that the ledger survives a
restart.

## 3. The runs

| run | instance | properties |
|---|---|---|
| `TradeCycle` | one caller on mainnet, 3 bars over two days of which the first two are late in the same day, 3 calls, and any 2 of: a crash, a lost call, an unconfirmed swap, a convert, 2 mode toggles | `RecoveredCyclesStayExecuted`, `WalletMatchesLedger`, `BooksMatchLog`, `ModeConsistent`, `FloorOncePerLife`, `RestartKeepsPosition` |
| `Autopilot` | 2 prices, 4 hours over two days, 4 cycles, one each of crash, lost write, failed read, switch, refused sell | `FloorWasOwned`, `BankedStaysInCash`, `SavedFloorNeverFalls`, `NoTradeAfterHalt` |
| `RiskEngine` | 2 prices, 5 hours over two days, orders up to 2 lots with a 40% cap and a slip of 1, one overlay trade, one restart | `StopIsArmed`, `ExposureCapped`, `RestartAddsNothing` |
| `KillSwitch` | 3 bars, watchdog after 2, 2 taps, one each of lost call, cockpit, crash | `HaltsWithinOneCycle`, `FloorStopsTrading`, `FiresOnce`, `HaltIsAnnounced` |
| `CommandQueue_serial` | one drainer, 3 commands that fit the window, 1 approval, 1 crash, 1 malformed row | `ServedOnceInOrder` (implements `FifoOnce`), `QueuedIsServed` |
| `CommandQueue_rough` | 2 drainers, window 1, 2 approvals, 1 crash, 1 lost call, 1 malformed payload | `RerunsAreBounded` |
| `Watches` | 2 watches, 2 threads of which the loop alone is scheduled, 2 kinds and 2 refused submissions, 2 losses, crashes, halts or moves | `ArmedMeansAnnounced`, `SteadyConditionAlertsOnce`, `TrueConditionIsAnnounced` |
| `Advice` | 1 symbol, 1 research thread, 4 hours, TTL 3 h, stale after 1 h, 2 round trips, 2 faults | `AdviceExpires`, `StaleIsAnnounced`, `CalibrationPairsEntry` |
| `Memory` | 2 closes of 3 kinds, 3 preloaded outcomes, 1 thread beside the loop, 3 posts, losses, crashes, pauses or dreams | `VerdictMatchesRecord` |
| `Wallet` | 3 callers, 2 calls, ladder of 2, 2 transactions, 1 restart or revocation, either backend | `FillIsMined`, `OneSwapPerCall`, `PhantomsClose` |
| `MarketData` | windows of 2 and 3 hours, pages of 2, 2 attempts, 3 hours of clock, 2 pulls | `RecordingIsComplete`, `NothingFromLater`, `OnlyTheLastMayForm`, `PullReturns` |
| `Research` | every pair of 7 recordings of 6 bars for 2 symbols, 2 parameter sets, all four harnesses | `SimMatchesPaper`, `TradesExplainCash`, `EachBarTestedOnce`, `DurationIsLongestEpisode`, `PointInTime` |

What the less obvious ones say:

* `WalletMatchesLedger`, `BooksMatchLog`, `RestartKeepsPosition` relate four books of one
  position; each names the events known to part them (a lost call, a convert, a swap that
  was never confirmed) and holds for every order of everything else.
* `RerunsAreBounded`: the queue takes no claim, so two drainers may execute a command
  twice; but each drainer once, and once more for each update that was lost, is all.
* `FloorOncePerLife`: the floor counts its trades in memory, so the bound is one a day, and
  one more for each restart and each swap whose confirmation was missed.
* `RestartAddsNothing`: the replayed tracker has the prices the fills slipped to, so it is not
  the tracker of before; it has its cash, and no lots more.
* `HaltIsAnnounced` and `StaleIsAnnounced` speak of what the operator heard, not of what the
  agent has marked as said: silence needs the loss of every notice that was due.
* `CalibrationPairsEntry`: the forecast is read after the fill, so a tick may write between
  them; the row carries one that the table held from the fill to the read, and no other.
* `VerdictMatchesRecord`: the advice computed from ranked, filtered, capped hits of an
  index that was written twice, given digests and preloaded equals a count over the reports
  of the closes as last filed.
* `OneSwapPerCall`: a call swaps again behind silence, where the code cannot know, and behind
  a swap that was sent and reverted, where the first can move nothing; behind nothing else.
* `TrueConditionIsAnnounced`: a watch whose condition stays true, after a cycle had seen it
  false, is announced in *this* episode; an alert of an earlier one does not count.
* `NothingFromLater` is about what the pointer loop and the bisections return, whatever rows
  other pulls left on disk.
* `PointInTime` is non-interference, a property of pairs of runs, hence the product
  `NoLookAhead`: two runs over recordings that agree on the bars used so far (`Used`: those
  of the running leg, of the slice its candidates were tried on, of the legs published) are
  in one state. Nothing beyond those bars can have had a say.
* `DurationIsLongestEpisode` compares the scan of `max_drawdown_duration` with the longest
  time below a prior peak, for the curves that ever sank.
* `PhantomsClose` is liveness of a repair: the sync runs between calls that may hang in a
  quote, a ladder or a wait.

Every property has a mutant (an operator `Mut...` next to the definition it stands in for, a
bug one could well write there) that violates it. Type invariants are not in the runs: they
are proved (section 4).

### Bounds, and why they are enough

Bounds are `CONSTANT`s: `MaxEvents`, `Limit`, `MaxFaults` give the number of environment
events, `MaxBar`, `MaxHour`, `LastHour` the length of the market, `MaxCmds`, `MaxUpdates`,
`MaxLots`, `MaxOrder`, `MaxCalls`, `MaxSent`, `MaxCloses`, `Entries`, `MaxPulls` the rest.
Each hazard needs one crash *or* one loss at an arbitrary point and a retry after it; two
bars are needed to tell keys apart, and two late bars of one day for a second trade of the
floor; three have a day roll over besides, and with three calls a retry can follow a retry.
Two prices give gain and loss, and a price ratio of 3 crosses every threshold in both
directions. The risk engine needs five bars for enter, veto, stop, re-enter and exit; a slip
of one dollar makes fills of more and of less than what was booked. Two taps are what a
double press or a command against a press takes; three bars with a watchdog after two let it
fire, be undone and be pressed on. The command runs need one more command than the budget of
a drain, and a window smaller than the backlog. A forecast must be able to be fresh, stale
and expired, which takes four hours; a pairing can go wrong with two entries and a tick
between a fill and its read. A tick that fans out to other symbols writes the row of the
traded one as the first write of a lone tick does, so one symbol is enough. A wrong verdict
takes two losses, one of them counted twice or filed otherwise the second time; a second swap
takes two rungs and two transactions; a page boundary and a restart of the pagination take a
window longer than a page. Six bars hold a warm-up, walk-forward windows of unequal train and
test length of which the last is short, and a holdout; a capital of 18 pays one order in full
and the next in part, so that both sides of `SimMatchesPaper` and of `TradesExplainCash`
occur. The recordings hold theses that beat cash in development and theses that do not, so
one twin can go on to the holdout after the other has been falsified. The proofs remove these
bounds for what they cover.

### Fairness

* `CommandQueue`: weak fairness of each drainer's steps; `run_forever` drains at the end of
  every iteration and every handler returns or raises (subprocess and HTTP calls have
  timeouts).
* `Watches`: weak fairness of the loop's `Tick`, which `run_forever` schedules, while cycles
  get to the watches, and of the `Check` and `Fire` of any thread that has ticked; nothing in
  the code schedules `POST /cycle`, so no fairness makes it begin.
* `Wallet`: weak fairness of each caller's steps (each command and the wait for a receipt
  have a timeout) and of the sync, which the scheduler runs every hour. Nothing is assumed
  of the chain: a transaction may stay pending.
* `MarketData`: weak fairness of a pull's successful steps; attempts are finite, and nothing
  is assumed of when requests fail.

Nothing is assumed anywhere of the operator, of enqueueing, of crashes or of losses.
Deadlock is checked in all runs but those of `Watches`, `Memory`, `Advice`, `Wallet` and
`Research`, where a finite number of orders, closes or bars really ends; where the bounds end
one of the others, a `Rest` action says so.

## 4. The proofs

All are `Spec => ...` for every value of the constants the modules' named assumptions
allow (naturals where the code has counts, finite sets of drainers and watches, markers
such as `None` outside the sets they mark).

**`TradeCycle_proofs`.** `Typing`. `OrderRowsAreReal` and `LinksAreReal`, with no assumption
on callers: `RowsBackedBySwaps` is not inductive, since nothing in it speaks of the order
between a swap and its row, so `ChainInv` adds that a caller at *confirming*, *booking* or
*recording* has a swap of its key, and that one carrying a trade id has a row of its cycle.
The rows of forced closes and converts belong to no order and are not counted. `KeysFillOnce`
and `RecoveryGuards`, under `SerialCallers` (overlapping callers violate the first, section
5): `SeenInv` says that an order between the check and `_remember` carries a key not yet
seen, and that what is filled or guarded is seen. `LedgerIsReplay`, under `SerialCallers`:
`LogInv` says that the ledger is the replay of the rows, one fill ahead while that fill is
being recorded. `PositionKeepsMode`, under `SerialCallers` (section 5 has what happens
without): `HeldInv` says that the executor a call holds is the one of the present mode, and
that the ledger is flat when an executor is replaced; `ModeInv` that a process that is down
has crashed. `RestartsResume`, under `SerialCallers`, of the restart step itself: `KeptInv`
says that a process that went down between two trades, with no row of a forced close
outstanding, left rows which give back its position. `WalletIsLedger`, under `SerialCallers`:
by `WalletInv` the wallet is one fill ahead of the ledger between the swap and its booking,
and equal to it otherwise, as long as nothing known to part them happened (`Sound`), which no
later step can restore. `FloorTradesOnce`, under `SerialCallers`, with restarts and
unconfirmed swaps counted (`Extra`): `FloorInv` says that days only go forward, that an order
of the floor on its way is the first trade of its day in memory, and that a day with no trade
in memory has had no more trades of the floor than there were restarts and unconfirmed swaps.

**`Autopilot_proofs`.** `Typing`; `FloorIsOwned`; `FloorOnlyRises` (with `AheadInv`: the
saved floor is never ahead of the one in memory); `BankIsCovered` (with `CashInv`: between
the decision to bank and the sell that carries it out the floor is covered by cash, fees
*and* what the sell will bring; and the saved floor is covered on its own, which is what a
crash between decision and sell leaves); `HaltHolds` (`HaltInv`: a day that was halted is
halted in Convex, and in memory while there is a process, and the cycle is at no stage that
orders).

**`RiskEngine_proofs`.** `Typing`; `StopCovers` (`ArmedInv`: while a buy is under way the
tracker already holds its lots, while a sell is under way it has already let them go);
`CapHolds` (`ArmedInv` with `CapInv`: an emitted buy left the tracked position within the
cap, and the book is never above the tracked position); `RestartHarmless` (`SyncInv`: while
every order is filled as emitted the tracker's cash is the book's, or the book's with the
order under way applied, since both move it by the dollars of the order whatever the price
slipped to; that no lots are added is `ArmedInv`).

**`KillSwitch_proofs`.** `Typing` (`ShapeInv`: one message a bar, and the poller's batch lies
within what Telegram keeps). `HaltsInTime` (`HaltInv`: beside the fills since the switch went
on, a cycle past the gate counts as one). `FloorOutvotes` (`FloorInv`: at or under the floor
only a lost reading lets a cycle reach the gate). `HaltsAreAnnounced` (`ToldInv`: behind each
flag of a halt a notice was due, and the operator heard one or as many were lost as were
due). `FiringOnce` (`FireInv`: what is registered, or about to be, has not fired).
`HandlingOnce` and `NothingForgotten` (`HandInv`: the poller's offset separates what was
acted on from what was not, up to one repetition per crash).

**`Memory`, in `KillSwitch_proofs`** (both may withhold an order). `IndexHoldsTheRecord`: the
index holds the last filed report of every close a write of which went through, once, and
besides them preloaded history and digests only (`IndexIsRecord`, with the types and with the
fact that a thread at work has a close to reflect on). A write keeps that because it replaces
the record of its id and no other (`UpsertIs`), a night because it drops nothing, no lesson
being the text of a record (`NoDuplicate`), and because its digest has an id of its own
(`Night`). `AdviceIsTheRecords`: the places of the reflections and the closes filed
correspond one to one (`MatchesOf`), so the hits, the losses among them and their sum are
those of the record. The folds these rest on are operators with operator parameters; what is
needed of them is shown from their definitions: the sum of a function exists and does not
depend on the order (`SumRules`, over the inclusion of finite sets), equal summands have
equal sums (`SumsMatch`), a fold whose steps do nothing returns what it began with
(`FoldsStill`).

**`CommandQueue_proofs`.** `Typing`. `RerunsBounded` (`BoundInv`: while a row waits, whoever
is about to execute it lost its mark, so effects and those drainers together are at most the
lost updates; once it does not, nobody joins those who had fetched it, at most one per
drainer). The argument counts sets of drainers, so it needs them finite. `ApprovalMakesOne` (an
open request has no row, a resolved one keeps the row it has). `QueueIsFifo`: the queue
implements `FifoOnce` when one drainer serves it, no call is lost and the backlog fits the
window (`Quiet`; with less it does not, section 5). `OrderInv` is the simulation relation:
for some *t* the first *t* rows have been taken, each executed at most once, and the rest
wait. Each step of the queue is then a step of `FifoOnce` or a stutter.

**`Advice`, in `RiskEngine_proofs`** (it is the gate that follows the engine).
`AdviceIsTyped`. `AdviceRunsOut`: nothing in `AdviceExpires` speaks of the table, so
`RowInv` adds that a row which asks for caution is no younger than the last time one asked for
it. `StalenessIsTold`: `ToldInv`
says that a mark stands for a notice that arrived or for two that were lost, that what the
first read of a cycle found too old is marked, and that the row at the gate is no older than
the row at that read, since the ticks only write later ones.
`EntriesArePaired`: `FiledInv` says that the open entry has not been filed, and that its
forecast is one it could have read: while it is being read the entry is the last, and what
the table holds may be the answer.

**`Watches_proofs`.** `Typing`; `ArmedIsAnnounced`, which is inductive with the types;
`AlertsOnce` (`FiringInv`: a row that says clear may fire, and so may a row that a thread
has read as clear and still has to decide about, unless another thread wrote it since).

**`MarketData`, in `Watches_proofs`** (it is where the bars a watch sees come from).
`RecordingsAreTyped`. `RecordingsAreComplete`, from two invariants that depend on
each other. `PullInv`: while a pull pages, what it has is exactly the candles from the start of
its window to its cursor, whatever was asked for again; from then on it is the window
(`Window`: consecutive hours from a start, as many as asked for or one less), and the stages of
funding and interest leave it alone. `DiskInv`: every recording on disk is such a window, with
no reading from after its bar (`Timely`) and none but its last bar still forming.
`MergeInv`: the pointer loop gives every bar it has passed a settlement of its time or before,
never goes back, and every settlement left lies ahead. `ReadingsAreFromBefore` and
`OnlyTheLastForms` follow from the three. That a bisection returns a row of before
(`BisectedBefore`) needs that a set of hours has a newest one, which comes from the
well-foundedness of the naturals; what a page returns is computed from its first and last
hour, for any length (`CandlesType`).

**`Wallet_proofs`.** `Typing`, `FillsAreMined`, `OneSwap`, from one invariant. Neither
property is inductive: `Owned` adds that calls have numbers of their own, that no transaction
bears the number of a call to come, and that a call not waiting for a receipt has sent
nothing but what went unanswered or reverted (`Moot`). Every step of a call is first put in
one of two forms (`StepForm`: it sends nothing, or one transaction), so that the invariant is
shown for two cases and not for eleven actions.

**`NoLookAhead_proofs`**, about `Research` and the product of two of its runs, for recordings
of any length and number. `RunInv` is the type of a run, with what keeps its indices inside
the recordings (`LegOK`, `EngineOK`). `PaperMirrors`: a fill at a price the size divides does
the same to the paper ledger and to the simulated account (`FillMirrors`). `CashIsExplained`,
of the accounts whose exits each closed the whole position: cash is capital and realised
profit, less what an open position cost (`Flat`, `Long`), and an account that is long is
believed to be, or has its sell pending; so a buy never meets a position. `WalkIsOutOfSample`
(`WalkInv`: with *n* windows published the next one trains on the `Train` bars after the
first *n* `Test` ones, so the tested spans lie end to end and each behind its own training
span). `DurationIsRight`: one pass of `max_drawdown_duration` has, after *i* points, the
highest of them and the longest span that is over (`Surveyed`); of a curve that sank, the
longest of those spans is an episode under water (`SomeEpisode`, `LongestEpisode`).
`DecisionsArePointInTime`: `Same` holds whenever the recordings agree on what was used,
because what is used only grows (`UsedGrows`), a bar is used before its decision, and the
positions compiled over two recordings agree as far as the recordings do (`PositionsCausal`).
Nothing is assumed of the second run but that it starts as a run does: while the two are the
same it has what `RunInv` says of the first.

The scans of `Research` are recursive functions, and a recursive function is what its equation
says only if such a function exists. The lemmas `Minimal`, `Least`, `Induction` and
`Recursion` show that: every set of finite sets has a smallest member by inclusion, so a set
of numbers has a least one, so numbers admit induction, so a first value and a step determine
one function. They take sets where the library's theorems take operators.

Each proof has `Init => IInv`, `IInv /\ [Next]_vars => IInv'` with one step per action, and
`IInv => Inv`; arithmetic is confined to lemmas about accounts (`ApplyFill`, `Bought`,
`Sold`, the branches of `evaluate`) and about sequences.

The hypotheses are the ones the runs have too. `SerialCallers` is the loop alone, without a
`POST /cycle` beside it; a property that names the events known to break it (`Clean`,
`Sound`, `Quiet`, `Undisturbed` repeat them) is proved for every order of all others.

**Model-checked only**: liveness under fairness, which is out of the prover's reach, as
`ENABLED` is: `QueuedIsServed`, `TrueConditionIsAnnounced`, `PhantomsClose`, `PullReturns`.
Every invariant and every action property of the runs is proved. No `RECURSIVE` operator is
used.

## 5. Where the code does less than its documents say

Found while modelling. They are behaviours of the models, and of the code by reading; no run is
spent on them.

*Orders and books*
* `server.py:13` calls `POST /cycle` "safe to call repeatedly": two overlapping calls both
  pass the duplicate check before either is remembered, and fill one key twice.
* `jobs/src/decisionLoop.ts:14` says a retry "can never double-trade": overlays order under
  keys of their own (`{cycle_id}-autopilot`, ...), so a retried bar that meets a changed
  state may trade a second time (`loop.py:846`, `927`).
* `recovery.py:8` says a replayed cycle "returns DUPLICATE": rows are written after the swap,
  so a crash in between leaves nothing to recover the key from. `recovery.py:53`, "every
  cycle that already produced a trade": only bare keys are restored
  (`agent/tests/test_live_runtime.py:485` has the test as xfail).
* `loop.py:453` wants a position closed in the mode it was opened in: a call that holds the
  paper executor while another switches the agent to mainnet books a paper position there.
* A position opened after a toggle comes back under the environment's mode (`loop.py:454`).
* `_trades_today` is memory only, so the activity floor trades again after a restart late in a
  day (`FloorOncePerLife` counts it).
* Recovery reads the newest 500 rows (`recovery.py:45`); with more, it replays from the middle
  onto the initial capital.
* Converts are written as buy rows, whatever was swapped and whether or not it was mined
  (`command_worker.py:207`), and replayed as such.
* `ExecutionReport` has no `realized_pnl`, which `server.py:147` reads: a `POST /cycle` that
  fills answers 500 and `decisionLoop.ts` never sends the event of its close; where it sends
  one, a missing profit is 0 (`decisionLoop.ts:44`).
* The reconciliation (`loop.py:1267`) does not ask for the mode: on paper the first position
  of a session is force-closed once a wallet snapshot succeeds. It happens once a session,
  and a partial external sale that leaves more than a twentieth is never seen.

*Capital and risk*
* `config.ts:256` persists the floor "so a restart keeps the banked floor": enabled from the
  cockpit only, the agent restarts with floor 0 (`loop.py:179`).
* `engine.py:185` warns of "a guardrail that can veto an exit": the daily loss and the circuit
  breaker answer before the strategy is asked (`engine.py:142`), so its exit is withheld.
  While flat nothing can clear the breaker until the process restarts.
* `ledger.py:4` "Mirrors backtest.engine fill accounting": the engine caps the proceeds of a
  sell by the position, the ledger caps the units and credits the full size (`ledger.py:86`).
* Banked capital can be re-risked by a KOL buy, which is not capped (`loop.py:926`). A bank
  that does not fill, with `protect_principal` off, adds the same gain to the floor again in
  every cycle (`loop.py:838`). HALT_DAY sells nothing although its reason says flat.
* While flat after a loss the cooldown is set anew in every cycle (`autopilot.py:172`).
* The take-profit anchor is set on the first buy only (`loop.py:1101`).
* After a restart the strategy believes it is flat: a restored position is left by stops
  only. The trailing stop falls back, since the peak is that of the fills again, and a stop
  sells the default token, whatever is held. Exits are of a fixed size and may leave a
  residue that only the stop sells.

*Control*
* "Unbroken FAILED execs" for 4 h (`loop.py:252`): only the first failure is dated, so one
  failed swap and four hours without an order halt the agent; a lost write of the halt
  forgets the streak (`loop.py:585`).
* "Fund wallet or tap Resume": a tap alone is undone in the next cycle, funding alone leaves
  the switch on; a tap between the message and the write of the halt is overwritten.
* A lost notice of a halt is not repeated; a cycle that ends in an exception leaves
  `_was_halted` set, so a halt that follows a resume is not announced afresh.
* A command is marked done when its handler returns, and it returns also where the command
  line answered an error at exit code 0 or gave no hash, and where the transaction reverts
  later (`command_worker.py:66`, `130`).
* A press that finds its approval expired pops it and fires neither handler (`notify.py:279`).
* `convex_bridge.py:489` "a stuck/failed row never permanently blocks later commands": a row
  whose params do not parse raises out of every drain before it is marked
  (`command_worker.py:62`) and blocks all behind it. The oldest row is looked for among the
  newest 20 (`convex_bridge.py:486`).
* Watch events name agents `Watcher` and `Autopilot`, which `contracts.AGENTS` lacks, so the
  event raises and is swallowed; a symbol such as `CAKEUSDT` and a regime outside the
  engine's names can never match.

*Wallet*
* A subprocess timeout is no `TwakError`, so it leaves the executor and the cycle, though the
  swap may have been sent. Three silent rungs may buy three times. The manager reads a missing
  hash as "ok": false, and may sell again.
* `_approved_routers` outlives a revocation until the restart. The executor's and the
  convert's approvals are in different units.
* `OnchainExecutor` needs a signer that signs transactions, which the runtime's `TWAKClient`
  does not, and a timeout of its wait is reported without a hash.

*Memory and advice*
* The dreamer says it drops near-identical reflections (`jobs/src/dreamer.ts:9`): it looks for
  the text of one lesson among texts of setups, and so never drops any.
* The supervisor's dedupe is "idempotent" (`supervisor.py:236`): two deliveries at once both
  pass it and reflect twice. A delivery that lacks its profit or its setup
  overwrites what the loop filed, a loss with 0, a setup with one similar to every other.
* A failed write of a reflection is swallowed, and the historian confirms the cycle as
  recorded. Preloaded history can crowd reflections out of the hits when the index is large.
* A forecast of an empty history is written with the confidence of an unknown regime, and a
  failed symbol counts as researched for 90 minutes; two concurrent ticks both pass the
  dedupe. Calibration files the raw, undecayed confidence after the fill. The activity floor
  and KOL orders by-pass the gates. A failed staleness read announces a recovery.

*Data and research*
* `binance_client.py:345` says "aligned by nearest hourly snapshot (within ±1h)": only
  snapshots of before are looked at.
* A historical pull keeps the candle that is forming, as the last bar of a recording that is
  cached for good; the live feed drops it. `sentiment_history.py:47` says the live loop
  refreshes the index daily: it never does. A funding cache rarely covers a window, since
  settlements and bars do not begin together, and is fetched again.
* `core/backtest/portfolio.py:98` unpacks three of the four values `_apply_fill` returns.
  The default test window is shorter than the warm-up; the stability bonus is the same for
  all candidates; `max_drawdown_duration` of a curve that only rises is one bar.
* Rotation compares a bound method with a number (`loop.py:1458`); the `TypeError` is
  swallowed, so the symbol never rotates.

Three hazards have no property, each with its reason in `PROJECT.json`: overlapping cycles that
fill one key twice (`KeysFillOnce` says what can be said of it positively), the pauses that do
not end, the row marked done without an effect. They are so in the code. Some hazards are
covered in part only; their notes say which part.

## 6. Not modelled

Floating point and its rounding; indicators and scoring (their outputs are free choices or
what a bar shows); the text of prompts and answers, wording, telemetry and the audit log; the
symbol rotation and the rotation portfolio, which never run; the rows of the sweep with the
risk engine on; spawned agents, whose ticks call methods the bridge does not have and raise
before any effect; the reading commands of the bot (`/pause` is `Memory`'s `Pause`);
authorisation (tokens, chat ids); the cockpit's views; gas and the exchange rate of a swap
(amounts are trades of the least size); wallet alerts and automations; the CMC client, social
ingest and onboarding.

## 7. Plan

1. Composition: `RiskEngine` under `TradeCycle`, with `Deliver` refined by the stages from
   `Submit` to `Record`, so that lost rows meet the tracker; `Wallet` under its executor.
2. An abstract specification of an executor (each key fills at most once and is answered
   DUPLICATE afterwards) that `TradeCycle` implements for serial callers.
3. A second research thread in `Advice`; `Memory`'s verdict with two threads of the
   supervisor, which may reflect on one close at once.
