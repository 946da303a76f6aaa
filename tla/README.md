# TLA+ verification of FlareDB

FlareDB is a single-node Apache Beam portable runner. A job is fused into a
graph of stages; one loop, `ExecutorDispatcher::run_pipeline`, runs bundles of
these stages in an SDK worker (over the Fn API) or in the runner itself, as
watermarks, timers and committed rows allow. PCollections are tables with read
cursors, timers and user state are in a key-value store.

This directory models the scheduling core: the watermark manager, the scheduler,
the dispatcher loop and the bundles it spawns.

## The system

| Part | Source (`src/flaredb/src/`) | State | Operations | Modelled by |
|---|---|---|---|---|
| Watermark manager | `engine/watermark.rs` | per stage: watermarks, holds, unproduced/pending/empty inputs, bundle counters | reports, holds, start/complete bundle, refresh, release | `WatermarkState`, `WatermarkManager`, `WatermarkRefresh`, `WatermarkContract` |
| Node scheduler | `engine/scheduler.rs` | the manager, the graph | `next_nodes`, `mark_complete`, promotion | `Dispatcher` |
| Dispatcher | `engine/dispatcher.rs` | bundles in flight, timers to deliver, work items and their holds | `run_pipeline` | `Dispatcher` |
| Stage executor, bundle runtime | `engine/executor.rs`, `runtime.rs` | bundle phase, input count | read, commit, set/clear timers, finish | `Dispatcher` (partly) |
| Splittable DoFn | `engine/sdf.rs` | initialized flag, work items | split, defer, seed | `Dispatcher` (partly) |
| Timer service | `engine/timer.rs` | durable timers, clock | set, clear, scan, delete, wait | `Dispatcher` (partly) |
| TestStream, Impulse | `utils/teststream.rs`, `transforms/impluse.rs` | script | one event per bundle | `Dispatcher` |
| Element store | `store/element_store.rs` | tables, committed minima, cursors | commit, read since cursor | `Dispatcher` (partly) |
| GroupByKey, windows, triggers | `transforms/gbk.rs`, `engine/trigger.rs`, `window.rs` | window buffers, panes | fire, merge, prune | not yet: a gated stage only |
| Fn API harness | `engine/harness/`, `guard.rs` | streams, pending responses, caches | connect, route, reset, time out | not yet |
| User state, key-value store | `engine/state.rs`, `kv.rs` | write-back cache | get, append, flush | not yet |
| Job service, worker manager | `jobservice/`, `worker/` | job states, worker process | prepare, run, cancel | not yet |
| Fusion, coders, metrics, estimator | `fusion/`, `coders/`, ... | none (functions) | | not yet |

What is hard: the loop awaits the timer store between reading and deleting
timers while bundles write it; bundles commit rows before the loop knows of
them; several bundles of a splittable stage finish in any order; an empty branch
must hold its consumers, but not for ever; an aggregation must wait for
everything upstream. `PROJECT.json` lists these hazards with their lines.

## Modules

- **`WatermarkState`**: the manager's state `m`, a function from stages to
  `StageState` records, and every method as an operator from state to state. A
  PCollection is named by its producer. `None`, above every timestamp, stands
  for a missing one. `Refresh` is what the loop of `refresh` computes, as a
  recursive function over the acyclic graph (`SettledOutput`). The other modules
  use it as one step; that the loop computes it is shown in `WatermarkRefresh`.
- **`WatermarkContract`**: what callers rely on. Watermarks do not move back, no
  stage is ahead of its producers, an output never moves past a hold in place.
- **`WatermarkManager`**: the methods called in any order; refines the contract.
- **`WatermarkRefresh`**: the same with the loop of `refresh` as it is written:
  rounds over the ids in sorted order (`Order`), one stage per `Visit`, computed
  from the watermarks as they are, until a round has changed nothing
  (`RoundIsLast`). `release_empty_input_holds` enters the same loop. `called` is
  the state before the call in progress.
- **`WatermarkCalls`**: `WatermarkRefresh` seen through `called`, call by call:
  it implements `WatermarkManager`, whose refresh is one step.
- **`Dispatcher`**: the loop as a program counter with one value per await
  point: `sync` (install holds), `promote` and `delete` (event-time timers),
  `schedule` (start ready stages), then `idle`, or, with bundles in flight,
  `receive` when a work item was announced before the biased select and `wait`
  when none was. Bundles go from `started` over `working` and `committed` to
  `done` or `failed`.
- **`MCWatermarkManager`, `MCWatermarkRefresh`, `MCDispatcher`**: the graphs that
  TLC checks.
- **`WatermarkState_proofs`, `WatermarkManager_proofs`, `WatermarkVisit_proofs`,
  `WatermarkRefresh_proofs`, `WatermarkCalls_proofs`**: the theorems.

| Action of `Dispatcher` | Code |
|---|---|
| `SyncHolds` | `sync_event_time_holds` and `set_residual_holds` at the top of the loop |
| `PromoteScan`, `PromoteDelete` | `promote_due_event_time_timers`: list, then delete stage by stage |
| `Schedule` | `next_nodes`, validation of the handed watermark, seeding of work items, spawn |
| `IdleProgress` | with nothing in flight: source reports, due timers of both domains |
| `IdleWait`, `IdleRelease`, `IdleReturn` | sleep to a deadline; release empty-input holds; return |
| `ReceiveItem`, `Join`, `JoinFailed` | the biased select, and the completion of a bundle; for a splittable stage with its holds, its residuals and the drain of the announced items (`Settle`) |
| `BundleRead` ... `BundleFails` | `execute_node`, `execute_bundle` and their tasks |
| `Impulse`, `PlayEvent` | the runner sources |

What user code outputs is open, except that its timestamps and holds are not
below those of the input, timers or work it was given. A commit is represented
by its minimum event time, which is all that scheduling looks at. The wall clock
advances whenever the loop reads it, up to `MaxNow`; a TestStream pauses it.

A bundle writes a timer key as `flush_timers` does: the last write per key, at
most `MaxFlushes` times (a bundle flushes again only after 512 further keys; 1 in
every run). A work item is `[low, hold]`: what it may still output, and where
it is held. `ItemKinds` selects how the two relate (`ItemHold`): a residual root
held where the SDK reports, an unreported one at `MIN_TIMESTAMP`, one of an
unknown transform held nowhere, and whole elements held unless their timestamp
is minimal. A splittable stage has one boundary output, hence one hold an item.

## Runs

| Run | Question | Distinct states |
|---|---|---|
| `refresh_loop` | Does the loop of refresh end, settle, report what moved, and compute `Refresh`, between any calls and with the ids sorted against the data flow? | 136 664 |
| `manager_fork` | With a side input, queued work and a time-sorted gate: does any order of calls keep the contract, and is a bundle's watermark behind its stage's and behind the pending rows its start clears? | 164 640 |
| `dispatcher_chain` | Impulse, two workers with an event-time timer, an aggregation: no deadlock, all input read, timers at most once, the gate waits for the chain | 31 688 |
| `dispatcher_split` | A splittable stage with two concurrent bundles, splits, deferred work of every kind and failures: counters, holds and pending minima exact, the gate waits for announced work, the run ends and never in a deadlock | 64 839 |
| `dispatcher_stream` | A TestStream with elements, watermark and processing time; timers of both domains: script played, no timer lost | 24 774 |
| `dispatcher_side` | A side input whose producer may have empty bundles before its rows, and a wall-clock timer: the consumer waits, and the run ends | 37 053 |

`Terminates` counts every return of `run_pipeline`, with an error too; wherever it
is checked `NeverDeadlocked` excludes the deadlock error, and a bundle fails only
where `MayFail` is set. `GatedWaits` is about event-time timers: the code does not
look at processing-time timers upstream, although the comment at
`watermark.rs:1123` speaks of timers in general.

Six more runs show where the program differs from what its comments promise;
each has one property and TLC finds a counterexample.

| Run | What happens |
|---|---|
| `lost_input` | a stage with both a due timer and pending input starts a timer-only bundle; the start clears the pending mark, the input is never read, `run_pipeline` returns Ok |
| `lost_timer` | a bundle flushes a timer key between scan and delete of the promotion, which found the timer an earlier bundle had set; the new timer is deleted undelivered |
| `invalid_watermark` | a bundle re-run for a timer holds nothing; setting the timer again fails a later downstream start |
| `timer_order` | a timer overtakes older rows that a not yet joined bundle committed |
| `stranded_timer` | the run ends before empty-input holds are released, with timers waiting behind them |
| `deferred_work` | a split item finishing before the first bundle ends that bundle's implicit hold |

Two of these properties also appear in passing runs, and pass only under a
restriction. `NoLostInput` holds in `dispatcher_chain`, where just the stage that
reads the Impulse has a timer, so its input never arrives together with a due
timer. `NoLostTimer` holds in `dispatcher_stream`, where a key is set at most once
(`MaxTimerSets = 1`), so no timer is set again during a promotion. There they check
the rest of the bookkeeping: re-arming on later commits, and deletion of exactly
the promoted timers.

One more difference is in the model and has no run: a partition's first report is
compared with `PartitionWatermark::default()`, whose watermark is 0, so a first
report before the epoch is recorded as the epoch although the module comment says
that watermarks start at `MIN_TIMESTAMP`.

### Bounds

Timestamps are `-1..2` in the dispatcher runs: before the epoch, the epoch, one
after it, the end of time; `-1..1` in those of the manager. `MaxCommits` bounds commits per stage,
`MaxTimerSets` the settings of a timer key, `MaxFlushes` those by one bundle,
`MaxItems` the work items of a
splittable stage, `MaxNow` the clock, `MaxQueued` and `MaxHolds` the counters in
the free manager, `TimerStages` the stages whose holds and re-runs its callers
touch. Two commits, two settings and two items are what it takes to
have one already handled and one arriving late; two bundles in flight make waves.
The bounds restrict user code and callers, never the loop. The graphs have three
or four stages: enough for a grandparent of a gated stage, a fork and a side input.

### Fairness

`LoopIsFair`: the loop moves unless it has returned or waits for a bundle; it is
one task of the runtime and never waits for anything else without a deadline.
Weak fairness of `BundleProgress`: a worker answers, or `idle_guard` fails its
bundle. Nothing is assumed of user code's optional steps. Deadlock checking stays
on in the dispatcher runs; a returned run stutters explicitly. In
`WatermarkRefresh`, weak fairness of `Visit` and `RoundEnds`: the loop is
straight-line code of the calling thread, which holds `&mut self`.

## Proofs

For every acyclic graph (in which a PCollection is named by its one producer),
every ceiling, gate, hold map and bound, TLAPS checks:

| Theorem | Module | Statement |
|---|---|---|
| `TypeCorrect` | `WatermarkManager_proofs` | `Spec => []TypeOK` |
| `BundlesBehind` | `WatermarkManager_proofs` | `Spec => []BundleBehindInput` |
| `WavesBehindPending` | `WatermarkManager_proofs` | `Spec => WaveBehindPending` |
| `Refinement` | `WatermarkManager_proofs` | `Spec => ImplementsContract` |
| `RefreshReachesFixpoint` | `WatermarkRefresh_proofs` | `RefreshSpec => RefreshSettles` |
| `ReportsMoves` | `WatermarkRefresh_proofs` | `RefreshSpec => AdvancedReported` |
| `LoopRefinement` | `WatermarkRefresh_proofs` | `RefreshSpec => ImplementsContract` |
| `LoopImplementsManager` | `WatermarkCalls_proofs` | `RefreshSpec => ImplementsManager` |

The assumptions are those named in `WatermarkState`, `WatermarkManager` and
`WatermarkRefresh` (`TimestampAssumption`, `GraphAssumption`,
`AcyclicAssumption`, `CallAssumption`, `OrderAssumption`: every stage is in the
list of ids); TLC evaluates them in the runs of the manager and of the loop.

The inductive invariant of the manager says that states are typed, that
`watermark_at_last_run <= input`, that a stage's output is at most the output of
its main producers, and that the input of a stage with main inputs is at most the
output of every producer. The last two are needed because a call between two
refreshes sees watermarks of an earlier refresh: only `refresh` moves watermarks,
and the comparison with producers has to hold already when it starts, since it
keeps the larger of old and new. `WatermarkState_proofs` shows for each operator
which fields it keeps; existence and uniqueness of `SettledOutput` follow from a
least counterexample over the rank in `AcyclicAssumption`.

The loop needs more. While it runs, every watermark is between the one it entered
with and the settled one, and all else is as on entry; the stages in `advanced`
are those that moved; and while `changed` is false, no stage visited in this
round has anything to advance. `WatermarkVisit_proofs` shows that one visit keeps
this, with `compute_output` monotone in the outputs. A round that ends with
`changed` false has therefore left every stage with nothing to advance. Such a
state is the fixpoint, because the settled outputs are unique, and the call as a
whole is the step `Refresh`.

Only model-checked: liveness (`RefreshReturns` and `Terminates`), and all
properties of `Dispatcher`.

## Limits

- No output from bundle start or finish callbacks below the input's timestamps.
- Window-expiration timers are not distinguished from user timers.
- Store and timer I/O errors appear only as failed bundles; no crash of the process.
- A commit and the record of its minimum are one step, as are the deletes of one
  stage's due timers.
- Timers are written before a bundle is done (`finish_bundle` gives up after 30 s).
- The error "timer deadline passed but nothing was due" has no action.

## Plan

1. `JobService`: prepare, run, cancel, worker process and harness status; an
   abstract job state machine as its contract; bound of two jobs.
2. `HarnessData` and `HarnessControl`: channel creation, routing, pending
   responses, reset between jobs, idle timeout.
3. `Timers` and `UserState` over the key-value store, with crashes between writes.
4. `ElementStore` with commit and minimum apart, cursors and crash; `GroupByKey`
   on top of it with triggers; composed with the manager's contract.
5. `SplitMonitor` and channel ranges; batch size estimator, metrics merge,
   triggers and fusion as operators against reference definitions.
6. Proofs: `CountsMatch` and `KeepsContract` of `Dispatcher` (typed invariant
   first), the job state machine's refinement, exactness of holds.
