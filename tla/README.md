# Thalor in TLA+

Thalor (`src/natbin`) is a trading bot for binary options. An *observer* scores
each candle of a *scope* (an asset and an interval) and writes the verdict as a
signal; an *execution layer* turns the newest trade signal into an order intent,
takes it through a row of gates, submits it to a broker, and reconciles its ledger
of intents with what the broker says; a *portfolio runner* does this for several
scopes, with caps and quotas. A *client* keeps the connection to the broker up,
through one of several proxies. State lives in SQLite files, JSON files, lock files
and the process environment, and it is shared by operating-system processes (daemons,
subprocesses that a timeout kills, commands typed by an operator) and threads. There is no
server and little locking between them, so what is hard to get right is what happens
between two commits.

The modules model the path of an order from the signal to its settlement, the
gates and caps in front of it, the breaker and the locks that decide who may
run, and the connection underneath. The rest of the system is inventoried below.

Paths in this file are relative to the repository; `natbin/` is `src/natbin/`.

## 1. Inventory

### Execution layer (`ExecutionLedger` and what it extends)

| Part | State it keeps | Operations | What is hard | What makes it correct |
|---|---|---|---|---|
| Execution process `natbin/runtime/execution_process.py`, `execution_signal.py`, `execution_submit.py` | nothing between runs | `process_latest_signal`: reconcile, pick the signal, ensure its intent, gates, deadline, submit, save, reconcile again | killed anywhere; rows read early and written late; exceptions of the first reconcile pass are swallowed | one order per signal; a planned intent really has no order |
| Ledger `natbin/state/execution_repo.py`, `runtime/execution_contracts.py`, `execution_policy.py` | `order_intents`, `broker_orders`, `submit_attempts`, events | whole-row `save_intent` (upsert), `ensure_intent` in two transactions, `upsert_broker_snapshot`, counts | each call commits alone; no version check, the last writer wins | terminal states stay; the row never says what the broker contradicts |
| Reconciliation `natbin/runtime/reconciliation_flow.py`, `reconciliation.py`, `reconciliation_matching.py` | lists in memory for one pass | list pending, fetch open and closed orders, match by id / client key / fingerprint, expire, mark ambiguous, store orphans | stale rows against stale snapshots; per-intent failures; graces and deadlines | an intent names its own order; nothing is written off too early; everything resolves |
| Broker adapters `natbin/brokers/*.py` | the fake broker's and the bridge's JSON file | `submit_order` with the client's retries, `fetch_order`, `fetch_open_orders`, `fetch_closed_orders` | timeouts with a late acceptance; a retry of what was sent; no telemetry; an order accepted and never recorded; one bridge file for all scopes, loaded and saved whole | the ledger follows the broker |
| Signals `natbin/state/repos.py` | `signals_v2` | write a row (a trade is never replaced), read recent trades | days and candles out of order | the newest trade gets an intent |

The worker and the operator's commands call the reconciliation, which calls the
adapters and writes the ledger; the worker writes the ledger as well. They meet
only in the ledger's tables and in the broker's book.

### Gates before a live submit (`SubmitGate`)

| Part | State | Operations | What is hard | What makes it correct |
|---|---|---|---|---|
| Hardening `natbin/runtime/execution_hardening.py` | submit lock file; reads ledger counts | evaluate limits, take the submit lock, submit, verify, release | the limits are read one by one, and before the lock is taken | submissions overshoot the limits by a known number; the lock is never held for good |
| Broker guard `natbin/security/broker_guard.py` | JSON of recent submits | evaluate, `note_submit_attempt` | load, change, save a whole file, no lock over the three | no submit forgotten, pacing kept |
| Account protection `natbin/security/account_protection.py` | JSON shared by all scopes | evaluate, recommended delay, note | as above, and a delay between check and submit | as above |

Several scopes of one account run these in processes of their own and meet in the
counts, in the two files and at the lock.

### Who may run (`LockFile`, `CircuitBreaker`, `PortfolioCycle`)

| Part | State | Operations | What is hard | What makes it correct |
|---|---|---|---|---|
| Lock files `natbin/ops/lockfile.py` | one file per lock with a pid | acquire, take over a stale one, refresh, release | takeover and release unlink by path, without looking at the owner; a crash leaves an empty file | one holder; a dead holder's lock can be had again |
| Failsafe `natbin/runtime/failsafe.py`, `precheck.py`, `state/control_repo.py` | a breaker row per scope; kill and drain files | evaluate, record failure or success, half-open trials | four writers load and save whole rows without a lock | rows stay coherent; a breaker does not stay open |
| Daemon and cycle `natbin/runtime/daemon.py`, `cycle.py` | scope lock, loop state | precheck, cycle, sleep | restart in the middle of a cycle; the row it holds through a cycle | at most one daemon per scope |
| Portfolio `natbin/portfolio/runner.py`, `allocator.py`, `quota.py` | caches, reports | collect candidates in subprocesses, count quotas, check, allocate under caps, execute in subprocesses, record | what is counted moves on while it is counted; failing queries; subprocess timeouts | caps hold although the counts are old |

The portfolio runner and a daemon of one of its scopes take different lock files and
meet in the breaker rows and the ledger; the operator's commands meet both.

### Connection (`NetworkTransport`, `IQConnection`)

| Part | State | Operations | What is hard | What makes it correct |
|---|---|---|---|---|
| Transport `natbin/utils/network_transport.py` | failures, quarantine, inflight count and next health check of each endpoint; `os.environ` | select, record success or failure, health checks, `apply_environment` | one process environment for all threads; counts that callers never give back | a request that is waited for uses its own proxy; a working endpoint is found again |
| Client `natbin/adapters/iq_client.py` | API object, active binding | `connect`, `ensure_connection`, `_call_with_retries`, `get_candles`, history | a call that logs in through another endpoint in its middle; threads left behind by a timeout | failover happens and stays; a request goes out in the balance mode configured |

### Left out

Observer scoring and the decision engine (floating-point models; what they write is
the action `Emit`); the pacing of the quota over a session (`runtime/quota.py`:
fractions of a session in floating point and local time); automatic policies (pure
functions of daily summaries); the intelligence pack (training and drift over
floating-point data); alerting; operations tools; configuration loading; migrations;
dashboard, telemetry and research. `PROJECT.json` lists each with its reason, and
for each component above what of it is left out.

## 2. Modules and how they correspond to the code

```
ExecutionContracts      states, broker statuses and the translations between them
   |        \
BrokerBook   \          the broker's orders; what an adapter may answer
   |          \   SignalLog     the signals table and latest_trade_row
ExecutionLedger \------+        the processes, step by step
   |      |      \
   |      |       OrderLifecycle      what the layer promises with a sure broker (abstract)
   |      |       LossyLifecycle      what is left of it with any broker (abstract)
   |      MCExecutionLedger           TLC instances, the refinements
ExecutionLedgerProofs -> SubmitOnceProofs
            \-> SoleProcessProofs -> LifecycleProofs

SubmitGate -> MCSubmitGate                the gates, their files and the submit lock
    \-> SubmitGateProofs
LockFile -> LockFileProofs                the daemon's and the portfolio's lock
CircuitBreaker                            a breaker row and its transitions
    \-> PortfolioCycle -> MCPortfolioCycle    runner, daemons, operator, ledger
             \-> PortfolioCycleProofs
NetworkTransport                          the manager of the proxies
    \-> IQConnection -> MCIQConnection        the client, its threads, os.environ
             \-> IQConnectionProofs
```

**ExecutionContracts** holds the states of `execution_contracts.py` and the two
translations, `StateFromBroker` (`intent_state_from_broker_status`, as
`apply_snapshot` uses it) and `StateFromTransport` (`submit_intent`'s branches).
The definitions called *faulty variants*, here and in the other modules, are never
used by a specification: they are plausible mistakes that the properties are shown to catch.

**BrokerBook** has one record per request sent. The broker accepts, refuses,
closes or cancels on its own time. `FetchViews` is what `fetch_order` may return
and `ScanViews` what the two scans may list: for the iqoption bridge that includes
an order without telemetry kept open until its expiry plus the settle grace and
reported not found from then on, an empty answer read as *unknown*, an order the bridge
never recorded (untagged: submitted by a process that died before
`_upsert_record`), and a whole scan with no session. With `SharedBridge` other scopes
write the bridge's file too, and a record may be lost at any time (`BridgeForgets`):
`_upsert_record` loads the file, adds its order and saves it whole, and a process that
loaded it before another one's record saves it without. The fake broker creates the
order inside `submit_order`, under its client key.

**SignalLog** is the table and `latest_trade_row`, which walks the recent days
from the newest and keeps overwriting its result.

**ExecutionLedger** composes these with the processes:

| Action | Code |
|---|---|
| `StartWorker` | kill switch and drain mode sampled at the start of `process_latest_signal` |
| `ListPending`, `Scan` | the first half of `reconcile_scope`: the clock, the pending rows, the fetches |
| `MatchById`, `MatchByScan`, `MatchAmbiguous`, `MatchNone`, `MatchRaises` | one pending intent: `candidate_snapshots`, `apply_snapshot`, the ambiguity and expiry branches, the per-intent `except` |
| `MatchDone`, `OrphanPass`, `PassRaises` | the orphan loop; an exception outside the per-intent block |
| `PickSignal`, `InsertIntent` | `latest_trade_row` and the two transactions of `ensure_intent` |
| `GateBlocked`, `DeadlinePassed`, `GatePass` | the gates and the entry deadline |
| `CallBroker`, `BuyAgain`, `SubmitReturns`, `SaveResult` | `submit_intent`: request, the client's further tries when `buy` raises, answer (ack, reject, unknown), whole-row write |
| `StartReconcile`, `CheckOrderStatus` | the operator's commands, which take no lock |
| `Crash` | a process killed between any two steps |
| `Tick`, `Emit`, `ToggleHalt`, `Broker` | time, the observer, the operator, the broker |
| `OtherScopeSaves` | another scope's `_upsert_record` saves a bridge file it loaded too early |

What a process holds between steps is a variable of its own (`pending`, `view`,
`held`, `call`, `sampled`, `since`): that is what goes stale. A row in the table
is `[st, ext, sub]`: intent state, external order id and submission time.

`BuyRetries` is `IQ_EXEC_BUY_RETRIES` (two unless set, `natbin/adapters/iq_client.py:1297`):
the live adapter's `submit_order` sends the request that often when the call raises; the
fake broker sends it once, and `Tries` is the number for the broker in use. A request
that raised may have reached the broker.

**OrderLifecycle** is the abstract specification: no process, pass or clock; for
each signal what the broker did and what the ledger says, and which records the
broker's answer allows. **LossyLifecycle** is what is left of it for a broker that may
answer after its caller has given up, a client that sends a request again, and a bridge that
loses sight of orders. A signal has a set of requests and an order may be taken for a
look-alike's. What is sent is recorded before anything else is sent, what has left
*planned* is not sent again, and a state is recorded only if an order that passes for
the signal's bears it out.

**SubmitGate** takes the gates apart that are one refusal in `ExecutionLedger`, for
several scopes:

| Action | Code |
|---|---|
| `Begin` | kill and drain sampled, the newest signal picked, its intent ensured |
| `Gate` | the sampled halt, entry deadline, broker guard, health |
| `Protect` | account protection (rates, day cap, active and pending intents of the cluster) and the recommended delay |
| `CountOpen`, `CountUnknown` | the reads of `evaluate_execution_hardening`: open positions first; unknown submissions, spacing and recent failures later |
| `TakeLock`, `Send`, `RecordAttempt`, `SaveIntent`, `Release` | `live_submit_guard` (a `flock`) around `submit_intent`, whose `record_attempt` and `save_intent` are two commits, and the verification |
| `LoadNotes`, `SaveNotes` | `note_submit_attempt` and its counterpart: the file is read, and written back whole or, after an exception, not at all |
| `Kill`, `Tick`, `ToggleHalt`, `Reconcile` | a process killed (its `flock` ends with it), time, the operator, what reconciliation learns |

A kill on the wire or before `save_intent` leaves the row *planned* and may put the submit
in `lost`: its order may live. Reconciliation may find it (the row is then `found`) or not: an
untagged order can be missed, and an exception of the pass at the start of a run is swallowed
(`natbin/runtime/execution_process.py:144`). The row then stays planned and the signal may
be sent again, which makes one more submit. Of a signal sent again only the last attempt is
kept in `asked` and `failed`. Submits are counted, not orders: one submit has as
many orders as the client's `buy` has tries (`natbin/adapters/iq_client.py:1290`).

**LockFile** is `ops/lockfile.py`, one file-system call per action: `Create` is the
`O_EXCL` open, `ReadOwner` and `CheckOwner` the pid in the file and whether it
runs, `UnlinkStale` and `Recreate` the takeover, `WriteOwner` the payload;
`BeginRefresh`, `Truncate`, `Rewrite` are `refresh_lock`, and `Release` is
`release_lock`, which does not look whose file it removes. The path stands for an inode:
a process writes to the file it opened, whatever has the path by then. A process is
one run of the program, named by its pid; it may be killed between any two calls, an
unlink or a write may fail (the code swallows both), and the system may give a
dead run's pid to another program. `Overlap` says whether a run may try for the
lock while another one does.

**CircuitBreaker** is a breaker row and the pure transitions of `failsafe.py`:
`EvaluateCircuit` (an open row whose cooldown is over turns half open),
`RecordFailure`, `NewBreaker` (a success), `Aged` (time passing for one row). The
cooldown is kept as the time left to it. **PortfolioCycle** has its users:

| Action | Code |
|---|---|
| `Start`, `NextScope`, `Scan`, `Loop` | `run_portfolio_cycle`: its start, and its loops over the scopes |
| `Count`, `AssetQuotas`, `PortfolioQuota` | the three queries of `quota.py` for each scope, any of which may raise and then counts nothing; what they bar |
| `Judge`, `ChecksDone` | `run_precheck` of each candidate |
| `Allocate`, `AllocationFails` | `allocate`: every set of candidates that going through them by some rank can select; an exception on the way |
| `Execute` | `execute_scope`: the child submits, refuses, or is killed at its timeout |
| `SaveRow`, `Finish`, `Die` | the late load and save of each scope's breaker; the end; the runner killed |
| `DaemonLoad`, `DaemonJudge`, `DaemonSubmits`, `DaemonEnds` | a daemon: the row it loads at its precheck and saves after its cycle |
| `View`, `SaveView`, `Reset` | `ops breaker status`, which writes back what it read, and reset |
| `Reconcile`, `Tick`, `Toggle` | reconciliation, time, the switches |

A deployment (constant `Deployments`) says which scopes trade, which fail, which have a
daemon, and whether operator, switches and faults are there: one run checks several
combinations without multiplying them all.

**NetworkTransport** has the manager's methods, each under the manager's lock and so one
step: `Preferred` and `LastResort` (the two selections), `Take`, `RecordSuccess`,
`RecordFailure` with the doubling `Penalty`, `Probeable` and `ProbeAnswers`.
**IQConnection** is the client: `Begin` an operation of one of four kinds
(`_call_with_retries`, `get_candles`, history, `ensure_connection`), `Pick`, `Probe`,
`Reselect` (`_select_transport_binding` with the health checks before it gives up), `EnterOp`,
`Check`, `Again` (the operation's `apply_environment` block and `ensure_connection` in
it), `Build`, `Login`, `LoggedIn`, `LoginFails` (`connect`), `Answered`,
`RequestFails`, `EmptyBatch`, `Failed`, `Sleep`. What a timeout leaves behind
(`_run_with_timeout`, `natbin/adapters/iq_client.py:905`) goes on: a call in the thread
`Late`; a login, outside of any block of `apply_environment`, on the API object it was started
on (`adrift`), which `LateLogin` connects in the end unless `NewObject` has replaced the
object; a history request without changing anything that is modelled. `chosen` says whether
`change_balance` has succeeded on the API object: a login that comes through late never gets
to it, and a failing one leaves the object connected. Until `Calm` anything may fail; from then on the endpoints in
`up` work, and only they.

Abstractions to know about. *Execution layer*: events and error texts are left out, and
submit attempts are in `SubmitGate` only;
the two broker scans are one step (of two snapshots of one order the later counts in the
code); the orphans' upserts are one step, and so are the `save_intent` and
`upsert_broker_snapshot` of `apply_snapshot` (`natbin/runtime/reconciliation_core.py:79`), which
commit one after the other; an exception inside the handling of one intent comes before both
(in the code it may come between them, or after the order was noted as matched); an asynchronous
record of the bridge that still says open when the order has closed
(`natbin/brokers/iqoption.py:720`, `762`) is not among the answers of `FetchViews`; `check_order_status` is one step; the
three `closed_*` statuses, which differ in profit, are one; execution disabled and
`scan_without_pending` are not modelled. One scope is modelled there: intents and
orders of different scopes meet only in the gates. *Gates*: checks that no step
changes (environment variables, multi-asset) and the trading window are a refusal
without a cause; sessions and volatility only choose the delay, which is any up to its
maximum; the writes of `verify_live_submit` are those of a reconcile pass, `Reconcile`.
*Lock files*: the option `force`, which no caller uses, is left out, and so is
the mandatory locking of open files on Windows, where it is one more failing unlink; a
new run never has the pid that stands in a stale file (`Fresh`; see Fairness).
*Portfolio*: ranks are any; the budget of candidates and its rotation, the refreshing
of data and the latest files are left out. *Connection*: throttling, asset names and the
parsing of settings are left out; an exchange of the API object by `get_candles` is one step
with the exception that causes it; the separate environment block of `change_balance` is part
of the login; a login left behind on an object that has been replaced has no effect (the
library's module-global connection flags are left out).

## 3. What TLC checks

| Run | Instance | Distinct states | Shows |
|---|---|---|---|
| `exec_serial` | fake broker, 2 signals, 3 requests, one worker, one kill | 0.24 M | `NoDuplicateOrder`, `OwnOrder`, `NamedOrderIsLinked` and `ImplementsLifecycle` under a kill between any two steps |
| `exec_concurrent` | iqoption, 1 signal, 2 requests, one worker and one operator command, raising calls | 2.2 M | `BrokerTruth`, `NoDuplicateOrder`, `IdlePlannedIsUnsent`, `NoEarlyWriteOff` however stale rows are written back |
| `exec_lossy` | iqoption, 2 signals, 2 requests, two tries per submit, one worker, look-alike orders, a bridge shared with other scopes | 0.56 M | `TerminalIsFinal` and `ImplementsLossyLifecycle` |
| `exec_liveness` | fake broker, 1 signal, 3 requests, two kills, kill switch | 56 k | `EventuallyResolved` under `FairSpec` |
| `exec_latest` | fake broker, days of one candle | violated | `LatestSignalProducesIntent` fails (finding 1) |
| `exec_orphan` | iqoption, 2 signals | violated | `NamedOrderIsLinked` fails (finding 2) |
| `lock_serial` | 3 processes, 2 kills, 1 failing call, 1 recycled pid, attempts one at a time | 37 k | `Exclusive`, and `StaleLockIsCleared` under `FairSpec` |
| `lock_race` | 3 processes, no kill, attempts overlap | violated | `Exclusive` fails (finding 3) |
| `gate` | 2 scopes of one cluster, 3 signals, limits of one, one kill or lost note, kill switch | 0.84 M | `UnknownBound`, `OneInLock`, `SubmitRate`, `HaltLeavesOne`, `KeepsNotes`; `LockIsFreed` under `FairSpec` |
| `portfolio` | 2 scopes, each an asset, both a cluster, 3 signals, 6 deployments | 0.46 M | `GroupExposure`, `TotalExposure`, `DayTrades`, `RowsCoherent`; `BreakerRecovers` under `FairSpec` |
| `transport` | 2 endpoints, quarantines of 2 and 3, two attempts of a call and of a login | 0.66 M | `RetryHasBalance`; `FailsOver` under `FairSpec` |
| `transport_failover` | the same | violated | `QuarantineIsEarned` fails (finding 4) |

The properties:

- `NoDuplicateOrder`: no signal has more positions than one submit has tries. The client
  order key is what makes it true: a worker that restarts meets its order in the first pass.
- `IdlePlannedIsUnsent`: *planned* may be submitted again only because nothing at
  the broker can still become a position. A timeout must not leave *planned*.
- `BrokerTruth`: "O broker é a autoridade do resultado"
  (`docs/ORDER_RECONCILIATION.md`): *settled* names a closed order, *accepted_open* an
  accepted one, *rejected* with an order a cancelled one.
- `OwnOrder`: an intent's order was sent for it, or for a signal its fingerprint
  cannot tell from it. The run has no look-alikes; the theorem has any.
- `TerminalIsFinal`: a terminal row is never rewritten. It takes one process: the runs
  and the theorem have one.
- `NoEarlyWriteOff` ("keeps accepted orders OPEN until expiry + `settle_grace_sec`",
  `docs/EXECUTION_LAYER.md`): no step of any process gives up an intent whose order is
  recorded before that order's grace is over.
- `NamedOrderIsLinked`: an order that an intent names is stored under an intent. It holds of
  orders listed with their client key (finding 2 is about the others).
- `EventuallyResolved`: every pending intent becomes terminal.
- `ImplementsLifecycle`: every step of the layer is a step of `OrderLifecycle` or
  changes nothing it can see. `ImplementsLossyLifecycle`: the same for `LossyLifecycle`.
- `Exclusive` (`LockFile`): two runs never hold the lock together. A refresh
  empties the file for a moment, a takeover removes it: the pid check must tell the two apart.
- `StaleLockIsCleared`: a lock whose owner is gone does not stay.
- `UnknownBound`: the limit on unknown submissions is read before the submit lock is
  taken, so several scopes can pass it on the same reading; still there are never more
  than `MaxUnknown - 1` plus one for each scope.
- `OneInLock`, `LockIsFreed`: one process at a time is between taking the submit lock and
  letting it go, and each comes out again, killed or not.
- `KeepsNotes`: a write of a guard's file drops no submit that is still inside its
  window, although the write is that of a list read earlier. It holds because the submit
  lock spans the read and the write. `SubmitRate` is what the notes are for: the
  submits in a window stay below the cap plus one for each scope, kill and lost note.
- `HaltLeavesOne`: kill switch and drain mode are sampled at the start of a run; after
  they go on a scope sends at most the order it had begun.
- `GroupExposure`, `TotalExposure`, `DayTrades`: the caps of assets, clusters and the
  portfolio hold although unknown submissions turn into positions between the
  queries that count them. The order of the queries matters: pending before open,
  so that an order which moves is counted twice rather than not at all. They speak of the orders
  a count can take in (`Known`).
- `RowsCoherent`, `BreakerRecovers`: whatever stale rows runner, daemons and operator
  save over each other, no row is closed with too many failures or open with too few, and
  none stays open.
- `RetryHasBalance`: no retry goes out on a connection whose balance mode (PRACTICE or
  REAL) was never set, although a login may come through after it was given up and
  `change_balance` may fail on a connection that then stays up. It holds because every further
  attempt begins with a new API object; of a first attempt it is not true (see below).
- `FailsOver`: once outages are over and an endpoint works, the client is served
  again and again, whatever quarantines and inflight counts were left behind.

**Bounds.** `MaxTime` is a horizon: its last instant stands for every later
one (`Due`), so every deadline and grace falls both before and after each step.
Where duplicates are the question `MaxOrders` exceeds the number of signals, so that a
second request has a slot (`MayAskAgain` keeps one for every signal that may still be
submitted). Two signals are the fewest with an older and a newer
intent and a look-alike pair; two processes the fewest that interleave. `MaxCrashes`
is one or two: a second kill only repeats the recovery from the first unless
it falls into it, which two cover. `SettleGrace`, `NotFoundGrace` and `MatchDelta` are one
tick, long enough for a pass to begin on each side. `exec_lossy` has two tries per submit
(the others one), no lookback and a horizon of one tick, at which the first signal's deadlines
and graces are over; the second signal comes then, too late for an order of its own, so its
row meets the look-alike orders of the first.
`gate`: two scopes with limits of one are the fewest that pass a limit together; one has
a second candle, so that what a first run leaves behind meets a second one; the delay of
one tick reaches past the entry deadline, so the late submit is there. `MaxMishaps`
bounds kills and lost notes together; with `HaltMishaps` at 0 the operator's switches are used
only before the first of them (`HaltIsBounded` has no such limit). `portfolio`: two failures open a breaker,
so that one failure is a state of its own, and the cooldown is one
tick; a cap of one leaves no room for a second order. `transport`: two endpoints with a
preference are the fewest that fail over; `QuarantineMax` is above the base, so
that the doubling and its limit both happen; failures and bindings in flight are counted to 2.
Thresholds of 2 with 3 failures pass as well.

**Fairness.** `FairSpec` of `ExecutionLedger` asks weak fairness of time, of each broker
order (the broker answers and settles), and of each worker's next step (the daemon's loop
or the operator's scheduler runs it again after an exit or a kill). It asks
nothing of the observer, the kill switch or the killer. `EventuallyResolved` is not
claimed of the iqoption bridge: an order whose betinfo row stays empty is
reported *unknown* each time, and that leaves the intent as it is for ever. Of the
fake broker it takes a settlement that comes: its default `settlement='open'` never settles, and
its intents stay open.
In `LockFile` runs keep being started (by the scheduler or the operator) and an
attempt goes on; a holder need never let go. `StaleLockIsCleared` says nothing of an
*empty* file: a kill or a failed write between `O_EXCL` and the payload leaves one,
no pid check ever calls it stale, and the scope is locked out until somebody deletes
it. Nor does it speak of a pid that now belongs to another program, or of a run whose own
pid is the one in the stale file (a container with few pids and a runs volume that outlives it):
`_pid_is_running` of one's own pid is true and the run is refused
(`natbin/ops/lockfile.py:203`).
In `SubmitGate` a holder of the submit lock goes on (`WF` of `InLock`): the adapter's call
times out and the poll of `verify_live_submit` has a deadline. In `PortfolioCycle`
time passes and the runner's steps end, since its children have timeouts; daemons,
operator and reconciliation are not asked for anything. `BreakerRecovers` is stated for
deployments without failing queries: a runner that is killed again and again never
reaches the breaker. In `IQConnection` the caller goes on with one operation after
another, no thread's step waits for ever (every call has a timeout), and a connection
through an endpoint that is down is noticed in the end; a login that was given up need never
come through.

### Findings

1. **The latest signal does not always produce an intent.** `latest_trade_row`
   overwrites its result day by day towards the past
   (`natbin/runtime/execution_signal.py:109`), so a trade on an older recent day
   hides today's. `docs/EXECUTION_LAYER.md:19` says "The latest trade signal still
   produces an **intent**". Run `exec_latest`.
2. **A known order can lose its intent.** An order of the live stream that carries
   no client key was matched to its intent by fingerprint; a later pass, which no
   longer lists that intent, stores the snapshot again with `intent_id = NULL`
   (`natbin/runtime/reconciliation_flow.py:172`) and the link is gone.
   `docs/ORDER_RECONCILIATION.md:48` reserves NULL for orders "sem intent local
   correspondente". Run `exec_orphan`.
3. **The lock is not exclusive when attempts overlap.** `acquire_lock` reads the pid,
   finds it gone, and unlinks whatever the path stands for by then
   (`natbin/ops/lockfile.py:205`): the file of a third process that took the lock in
   between. No crash is needed, the first holder only has to release and exit.
   `docs/STRICT_CLEANUP_CLOSEOUT.md:53` guarantees "lock exclusivo por scope", the
   docstring at `natbin/portfolio/runner.py:1153` "prevents concurrent runners". Run
   `lock_race`. It takes attempts a few file-system calls apart, such as a scheduler that
   starts a run while the operator starts another.
4. **A call that fails over clears the endpoint that failed.** `_call_with_retries`
   chooses its binding before `ensure_connection`; when `connect()` in there fails on that
   endpoint and logs in through another, the success of the call is recorded for the first
   one (`natbin/adapters/iq_client.py:1058`). Its failures are cleared and its quarantine
   is lifted, so the next selection goes back to it. `tests/test_iq_client_network_transport.py:229`
   asserts that the primary is still quarantined after a failover, and
   `docs/history/root_legacy/PART3_CONNECTIVITY_NOTES_20260410.md:55` promises "menos
   insistência em endpoint ruim". Run `transport_failover`.

### Where a property is not claimed, and why

- *One position per signal with kills on iqoption.* A kill after the broker
  accepted and before the bridge recorded the order leaves it untagged; if no
  scan lists it the intent is still *planned* and is submitted again. What a kill can
  cost is bounded: `KillsCostOneSubmit` (section 4).
- *One position per signal with the client's retries.* With the default of two tries a `buy`
  that raised after it was received is sent again and one submit opens two positions;
  `docs/ENV_VARS.md:120` documents the retry only. `NoDuplicateOrder` counts the tries.
- *`TerminalIsFinal` with an operator command beside the worker.* Both write
  whole rows they read earlier: a settled row can go back to *accepted_open*, an
  order id can be forgotten, and *expired_unsubmitted* can be written over a row
  whose order is live. `BrokerTruth` still holds of what the rows say.
- *The fake broker with a lookback shorter than the downtime*: the order settles and
  falls out of the closed scan before it is seen. `Lookback` is longer than
  the horizon in those runs.
- *Two workers of one scope*: `ensure_intent` is two transactions, so each can submit. The
  daemon's lock is what keeps them apart, as long as attempts to take it do not
  overlap; the command `execute-order` takes no lock at all.
- *The documented limits themselves.* Unknown submissions and open positions can exceed
  their limits, since both are read before the lock; what holds is the bound above.
- *One order per cluster.* The other scopes' active intents are looked at before the delay and
  the lock (`natbin/runtime/execution_process.py:283`), so two scopes of one cluster can both
  pass; `docs/CONFIGURATION_V2.md:309` describes the setting as a block of
  simultaneous exposure.
- *A submit before its entry deadline.* The deadline is checked before the
  delay and the wait for the lock, neither of which is bounded by it.
- *`KeepsNotes` without the submit lock*: in PRACTICE, or with `serialize_submits` off,
  two scopes can lose each other's note.
- *Caps over stray orders.* An order of a failed count, of a killed child or of a daemon can
  put a group over its cap: no count of the runner took it in.
- *Half-open trials.* `allow_half_open_trial` is never called, so a half-open breaker
  lets every cycle through, although `docs/OPERATIONAL_ROOT_CAUSE_CORRECTION_PLAN.md:110` has
  the trial in flight recorded.
- *`FailsOver` with `fail_open_when_exhausted` on* (the default of the code and of
  `docs/NETWORK_TRANSPORT_REQUEST_METRICS.md:69`; every profile sets it off). An
  inflight count that was never given back keeps a quarantined endpoint from being probed
  (`natbin/utils/network_transport.py:1468`); `get_candles` takes it as its last resort all
  the same, its `connect()`, which does not, finds nothing and raises, and the failure
  is recorded for the endpoint that was never tried and extends its quarantine, again and
  again. TLC finds this when `failOpen` is dropped from the property.
- *`FailsOver` with a quarantine shorter than the wait between two attempts*: the attempts of
  a call would all go to the preferred endpoint. The defaults are 30 s against 2 to 8 s.
- *`FailsOver` beside a thread left behind*: its states are too many for the run. Safety was
  checked with one on a smaller instance, and `AwaitedEnvIsOwn` is proved with one. What such a
  thread does to the API object and the active binding, which nothing protects
  (`natbin/adapters/iq_client.py:905`), is not claimed to be harmless.
- *The balance mode of a first attempt.* When `change_balance` fails, or a login comes through
  after it was given up, the API object stays connected with the balance it has by itself
  (`natbin/adapters/iq_client.py:961`). The next operation finds the connection up and does not
  log in again, so it runs without `broker.balance_mode`
  (`docs/operations/library/05_atlas_de_configuracao_thalor.md:726`). TLC finds this when
  `tries[t] < Retries` is dropped from `RetryHasBalance`. The property is also stated for no call
  given up: a thread left behind changes the object under the caller's hands.
- *The variables of what was given up.* A login or a history request left behind by
  `_run_with_timeout` (`natbin/adapters/iq_client.py:946`, `1365`) runs on after its block of
  `apply_environment` has ended, with the variables of whoever is next. `AwaitedEnvIsOwn`
  speaks of requests and logins that are still waited for.

## 4. What is proved

TLAPS proves the following for all values of the constants, from the named assumptions
of the modules (`BrokerAssumption`, `SignalAssumption`, `LedgerAssumption`, `LockAssumption`,
`GateAssumption`, the assumptions of `CircuitBreaker` and `PortfolioCycle`,
`TransportAssumption` and `ConnectionAssumption`): any number of signals, orders, workers, commands, scopes,
groups, endpoints, kills and faults, both brokers, all settings.

| Theorem | States |
|---|---|
| `TypeCorrect` | `ExecutionLedger`: `Spec => []TypeOK` |
| `LedgerIsTrue` | `Spec => []LedgerInv`, the inductive invariant |
| `LedgerAgreesWithBroker` | `Spec => []BrokerTruth` |
| `IntentNamesOwnOrder` | `Spec => []OwnOrder` |
| `KeyedOrdersStayLinked` | fake broker, no operator command: `Spec => []NamedOrderIsLinked` |
| `OneDaysLatestHasIntent` | `NSignals <= DayLen`: `Spec => LatestSignalProducesIntent` |
| `KillsCostOneSubmit` | one worker, any kills: `Spec => []OrdersPerKill`, `Tries * (1 + crashes)` positions at most |
| `OneRequestPerSignal` | one worker, no kill: `Spec => []SentOnce` |
| `OnePositionPerSignal` | one worker, no kill: `Spec => []NoDuplicateOrder` |
| `IdlePlannedNeverSent` | one worker, no kill: `Spec => []IdlePlannedIsUnsent` |
| `UnkilledImplementsLossy` | one worker, no kill: `Spec => ImplementsLossyLifecycle`, the refinement for both brokers |
| `TerminalStaysTerminal` | one process, any kills: `Spec => TerminalIsFinal` |
| `SettlementIsAwaited` | `Spec => NoEarlyWriteOff` |
| `AcknowledgementIsKept` | one process, any kills: `Spec => AcknowledgedStaysOpen` |
| `SerialImplementsLifecycle` | `Serial`, any kills: `Spec => ImplementsLifecycle`, the refinement |
| `KilledWorkerNeverRepeats` | `Serial`, any kills: `Spec => []NoDuplicateOrder` |
| `LockTypeCorrect` | `LockFile`: `Spec => []TypeOK` |
| `ExclusiveWhenSerial` | `Overlap = FALSE`: `Spec => []Exclusive` |
| `GateTypeCorrect` | `SubmitGate`: `Spec => []TypeOK` |
| `OneSubmitAtATime` | `Spec => []OneInLock` |
| `HaltIsBounded` | `Spec => []HaltLeavesOne` |
| `UnknownIsBounded` | `Spec => []UnknownBound` |
| `ExposureIsBounded` | `Spec => []ExposureBound`: submits that may be alive (open, unknown, cut off by a kill), those of signals sent again included |
| `NotesAreKept` | `Spec => KeepsNotes` |
| `RateIsBounded` | `Spec => []SubmitRate` |
| `CycleTypeCorrect` | `PortfolioCycle`: `Spec => []TypeOK` |
| `BreakersCoherent` | `Spec => []RowsCoherent` |
| `GroupsCapped` | `Spec => []GroupExposure` |
| `PortfolioCapped` | `Spec => []TotalExposure` |
| `DayCapped` | `Spec => []DayTrades` |
| `ConnectionTypeCorrect` | `IQConnection`: `Spec => []TypeOK` |
| `EnvironmentOwned` | `Spec => []AwaitedEnvIsOwn`: requests and logins still waited for |
| `RetriesHaveBalance` | `Spec => []RetryHasBalance` |

*The ledger's truth.* `BrokerTruth` speaks of rows in the table and is not inductive:
a process writes back a row it read long ago. `LedgerInv` says the same
(`RowTruth`) of every row a process holds, that each snapshot in hand is borne
out by the book (`ViewTruth`), and that an acknowledged call names an accepted order
(`CallTruth`). What makes stale data harmless is that the book only grows: lemma
`BookGrows` shows that every step leaves a closed order closed, a cancelled one
cancelled, an accepted one accepted and each order with its signal;
`RowTruthKept`, `ViewTruthKept` and `CallTruthKept` carry each part over such a step. Then
each action is shown to write only rows with `RowTruth`
(`ReconcileTruth`, `WorkTruth`, `OtherTruth`).

*What the findings need.* Two theorems bound findings 1 and 2. `KeyedOrdersStayLinked`
holds for any number of workers, kills and failing calls: the fake broker records each order
under its client key (`BookKey`), so every snapshot carries it (`HandKey`), the intent it
names exists and is never taken away (`IntentsStay`), and the orphan pass links
the order to it. `OneDaysLatestHasIntent` shows that the older day is all that
`latest_trade_row` gets wrong: with the trades of one day what it returns is the newest
(`LatestIsNewest`).

*Requests and kills.* `SentBeyond(k)` says how one worker stands who may find `k`
requests for a signal from before: there are at most `k` and those of one submit, and while the
submit goes on `k` and as many as it has made; a signal with more than `k` has a row that
no longer invites a submit, or its worker is about to write the answer; and the signal
the worker takes to the broker has no more than `k`. Every step but a kill preserves it for
every `k` (`SentBeyondStep`), and a kill turns it into `SentBeyond(k + Tries)`
(`KillAllowsOneMore`), so that `SentBeyond(Tries * crashes)` is inductive on top of
`LedgerInv`. Without kills it is `SentOnce`. `ReconcileWrites` is the heart
of it: no pass, the operator's included, ever writes a row that invites a
submit, since it writes only rows with a snapshot or a terminal state. The lookalike pairs,
the graces, the clock and the adapter's failures play no part. With
`crashes = 0` the bound is `NoDuplicateOrder`, which the runs check.

*One process at work.* Whole rows written back are harmful only when something newer
is in the table. With one process, killed as often as one likes, `Fresh` is inductive:
the rows of its pass and the row of the signal in hand are those of the table. A row is
written then only over a pending one, so a terminal one stays (`TerminalStaysTerminal`);
and the row that is given up is the one in the table, so that it is the acknowledged order
whose grace is over (`AcknowledgementIsKept`). Both hold with a shared bridge file.

*Write-offs.* `SettlementIsAwaited` needs no such hypothesis. `GiveUpInv` says that the rows
of a pass were pending when it read them, and that a *not found* in hand is of an order whose
settle grace is over; the bridge says *not found* of nothing else (`NotFoundIsLapsed`), and
what has lapsed stays so as the clock only runs forward (`LapsedStays`). A pass gives up a
row that names an order only on such a lookup (`GivenUpWhenLapsed`): however old the row, the order
it names is the one looked up. An order whose record is lost is one of which
`NoEarlyWriteOff` does not speak.

*The refinement.* `Serial(w)` is one worker of the fake broker, no operator command, no
raising calls, no look-alikes and a lookback that reaches over the horizon; kills, the
operator's switches, the graces and the numbers of signals and requests are free. `SerialInv` adds to the above what
lets a kill be survived: a request is under way only while its caller waits (`BookInv`, the
fake broker being inside the call), every position carries its client key, a planned intent
has a position only until the pass that will find it (`RowsInv`), and that pass's snapshot
shows every position (`HandInv`). So the worker never goes to the broker for a signal
that has a position, which is `KilledWorkerNeverRepeats`. For the refinement
`AnswerIs` says what `BrokerAnswer` computes in terms of the set of a signal's orders, and
each action is shown to move at most one signal's row (`RowMoves`, `PlanMoves`) or
one signal's answer (`AskMoves`, `AnswerMoves`): `StepRefines`.

*The refinement without kills.* `Unkilled(w)` is one worker that is not killed and no operator
command; the broker, raising calls, a bridge shared with other scopes, retries of the buy,
look-alikes, lookback and every delay are free. `UnkilledInv` is `LedgerInv`, `SentOnce`,
`Fresh` and `AnswerInv`: a slot nobody took belongs to nobody, a row of unknown outcome has
something sent for it, and the worker holds the row and the answer that its place says.
Lemma `SnapshotBorneOut` says that a snapshot applied to a row names an order that passes for
the signal's and that the broker's answer bears out the state it gives (the order may
have moved on since, but never back); `PassRecords`, `RequestAsks`, `FinishRecords` and
`WorkRecords` take the actions one by one. The two hypotheses are needed: a kill between the
answer and its record leaves an order that no row and no tag names, and another is sent
for the signal; and an operator command writes back rows of before the submit, so that
a state is recorded from a row that is no longer pending.

*Exclusion by the lock*, from `LockAssumption` and `Overlap = FALSE`, for any number of
processes, kills, failing calls and recycled pids. `SerialInv` adds to `Exclusive`
that a holder's file is at the path and names the holder or, while or since it was
rewritten, nobody; that one process at a time contends; and that a
contender which has read a pid has read the holder's, if there is a holder, so that
finding it gone means that nobody holds the lock.

*Limits read before the lock.* The bounds count, beside the submissions there are, the
scopes that have passed a limit and not yet submitted: a scope that passes saw fewer than the
limit and is one more, every other step only moves a scope out or an order on. The sum of
what is submitted and of what has passed is therefore inductive where the count
alone is not. For `ExposureBound` both counts are needed, since
a submission confirmed between the two reads is in neither; each costs one per
scope. It is about submits: one that a kill cut off is no longer seen by either count, its
signal may be sent again, and so every kill adds one. `NotesAreKept` rests on what a process in the lock has read being what is in the file.

*The rate of submits.* The guard counts the notes in its file, the property the submits
themselves. An attempt inside the window is in the file, or the one run inside the lock is
about to note it, or its note was missed (`Missed`), which takes a kill or a
failed write each (`MissBound`). So a run that passes the guard has seen all attempts but
those, and whoever passed counts as an attempt already (`RateBound`). That sum is inductive; at
the submit a run moves from one of its terms to the other.

*Caps of a cycle.* The invariant says that what a query has seen stays accounted for
(`SeenInv`): an order seen *pending* is still pending or has become a position that the later
query sees or has left; that what is selected and not executed fits beside the orders there
are (`TodoInv`, `CapInv`), and that an order no query could see is stray
(`LostIsStray`). It needs the order of the queries; with open counted before pending,
the mutant of `GroupExposure`, it does not hold.

*The connection's types.* The quarantine of an endpoint doubles with its failures, and the
provers leave `^` uninterpreted: `PowersAssumption` in `NetworkTransport` states that the powers
of two in question are naturals, a fact of arithmetic that TLC evaluates on every run.

*One environment, two threads.* `EnvInv` says for each thread, place by place, what it has put
aside in its blocks of `apply_environment`: nothing outside of them, the variables of no
endpoint inside the block of its operation, and the operation's own on top during a
login nested in it; and that a thread has something put aside exactly while it holds the
lock. A block with no endpoint takes no lock, which is why the outermost one may be
the login's. Lemma `Threadwise` reduces a step to the thread that takes it.

*The balance of a retry.* `ChosenInv` says that between its first failure and its next request a
call is about to get a new object, or is at a place where the object, should it be connected or
still pursued by a login left behind, has its balance set (`Clean`), or is past a login whose
`change_balance` succeeded. It rests
on `EnvInv` for where a thread is in its operation, and on the counts of attempts.

Every invariant and action property of a passing run is a theorem. Only model-checked are
the liveness properties (`EventuallyResolved`, `StaleLockIsCleared`, `LockIsFreed`,
`BreakerRecovers`, `FailsOver`), because liveness under fairness and `ENABLED` are out of this
prover's reach, as is induction over data (what a recursive function computes for every
input). The theorems with a hypothesis on the constants say in it which deployments they are
about; what holds outside of them is in the list of section 3.

## 5. Plan

Written in the order of what a fault would cost: first what can send too many orders
(`ExecutionLedger`, `SubmitGate`), then what lets two processes run that should not
(`LockFile`), then what stops trading too late or too early (`PortfolioCycle`), then the
connection (`IQConnection`). What would be worth adding:

1. `LockFile` and `ExecutionLedger` composed, so that what one lost lock costs the ledger
   can be seen; the daemon's sleeps and restarts around them.
2. The scheduling state of the retraining (`natbin/ops/retrain_ops.py`: cooldown, trial and
   rollback) and the budget of candidates with its rotation
   (`natbin/portfolio/runtime_budget.py`), with the scores as any order.
3. The API object and the active binding beside a thread left behind: which of its writes
   the client survives.

## 6. Running it

```
tlc -workers 2 -config ExecSerial.cfg MCExecutionLedger    # and the other Exec*.cfg
tlc -workers 2 -config LockSerial.cfg LockFile             # and LockRace.cfg
tlc -workers 2 -config Gate.cfg MCSubmitGate
tlc -workers 2 -config Portfolio.cfg MCPortfolioCycle
tlc -workers 2 -config Transport.cfg MCIQConnection        # and TransportFailover.cfg
tlapm ExecutionLedgerProofs.tla                            # and the other *Proofs.tla
```

Each property of a passing run has a *mutant* in `PROJECT.json`: one modelled
definition replaced by its faulty variant, under which TLC finds the property
violated. `map` ties each definition to the lines it models, and `hazards`
lists what in this code is hard to test, with the property that covers it
or the reason why none does.
