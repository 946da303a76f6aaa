----------------------------- MODULE Dispatcher -----------------------------
(***************************************************************************)
(* ExecutorDispatcher::run_pipeline: one task that schedules bundles       *)
(* through NodeScheduler and WatermarkManager, and the bundles it spawns,  *)
(* which run concurrently with it.                                         *)
(*                                                                         *)
(* The loop is a program counter, pc: sync -> promote -> (delete) ->       *)
(* schedule -> idle, receive or wait -> sync.  A bundle is started,        *)
(* working, perhaps committed, and then done (or failed) until the loop    *)
(* joins it.  What user code does in a bundle is left open, up to the      *)
(* timestamps it may still output: never below those of the input, timers  *)
(* or deferred work it was given.                                          *)
(*                                                                         *)
(* A commit to a PCollection is represented by its minimum event time.     *)
(***************************************************************************)
EXTENDS WatermarkState, Sequences

CONSTANTS
    Workers,        \* stages that run in the SDK worker
    Splittables,    \* stages that run a splittable DoFn
    TestStreams,    \* sources that play a script
    Script,         \* TestStream -> sequence of scripted events
    TimerKeys,      \* identities of user timers
    TimerStage,     \* timer key -> the stage that owns it
    TimerDomain,    \* timer key -> "event" or "processing"
    TimerSettings,  \* [fire, hold] pairs user code may set
    OutputTimes,    \* event times user code may output
    MaxCommits,     \* bound: stage -> number of commits
    MaxTimerSets,   \* bound: number of times a timer key is set
    MaxFlushes,     \* bound: number of flushes of a bundle that write one timer key
    ItemKinds,      \* kinds of work items the worker hands back
    MaxItems,       \* bound: number of work items a splittable stage creates
    MaxNow,         \* bound on the processing-time clock
    MayFail         \* whether bundles may fail

Runners == Stages \ (Workers \cup Splittables)

ASSUME StageSortAssumption ==
    /\ Workers \subseteq Stages /\ Splittables \subseteq Stages /\ TestStreams \subseteq Runners
    /\ Workers \cap Splittables = {}
    /\ \A s \in TestStreams : IsSource(s)
    /\ TimerStage \in [TimerKeys -> Workers]
    /\ TimerDomain \in [TimerKeys -> {"event", "processing"}]
    /\ ItemKinds \subseteq {"reported", "unreported", "unknown", "channel"}

VARIABLES
    wm,             \* the WatermarkManager
    pc,             \* where the loop of run_pipeline is
    status,         \* running, or how run_pipeline returned
    running,        \* stage -> its spawned bundles that are not joined yet
    pending_timers, \* stage -> timers to deliver with its next bundle
    due,            \* event-time timers selected for promotion, not yet deleted
    timers,         \* the durable timers
    sets,           \* timer key -> how often it was set
    tables,         \* stage -> the commits to its output PCollection
    commit_min,     \* stage -> minimum event time committed since last taken
    cursor,         \* <<reader, producer>> -> number of commits read
    sdf,            \* splittable stage -> [initialized, items, created]
    residual_holds, \* stage -> holds of its outstanding work items
    immediate,      \* work items announced by running bundles
    script,         \* TestStream -> [events left, processing_time]
    reports,        \* source progress reports not applied yet
    clock,          \* [now, manual]
    fired,          \* timers handed to a bundle, as <<key, generation>>
    superseded      \* timers user code replaced or cleared

dataVars == <<tables, cursor>>
sdfVars == <<sdf, residual_holds, immediate>>
sourceVars == <<script, reports, clock>>
timerVars == <<timers, sets, superseded>>
vars == <<wm, pc, status, running, pending_timers, due, timerVars, dataVars,
          commit_min, sdfVars, sourceVars, fired>>

NoWork == [initialized |-> FALSE, items |-> <<>>, created |-> 0]

Init ==
    /\ wm = NewManager /\ pc = "sync" /\ status = "running"
    /\ running = [s \in Stages |-> <<>>]
    /\ pending_timers = [s \in Stages |-> {}]
    /\ due = {} /\ timers = {} /\ sets = [k \in TimerKeys |-> 0]
    /\ tables = [s \in Stages |-> <<>>]
    /\ commit_min = [s \in Stages |-> None]
    /\ cursor = [rp \in Stages \X Stages |-> 0]
    /\ sdf = [s \in Splittables |-> NoWork]
    /\ residual_holds = [s \in Stages |-> NoHolds]
    /\ immediate = <<>>
    /\ script = [s \in TestStreams |-> [events |-> Script[s], processing_time |-> 0]]
    /\ reports = <<>> /\ clock = [now |-> 0, manual |-> FALSE]
    /\ fired = {} /\ superseded = {}

Loop(at) == status = "running" /\ pc = at

-----------------------------------------------------------------------------
(* Timers and holds.                                                       *)

EventTimers == {e \in timers : TimerDomain[e.key] = "event"}
ProcessingTimers == timers \ EventTimers
OwnedBy(S, s) == {e \in S : TimerStage[e.key] = s}
Without_Nothing(S, D) == S
Without_Stage(S, D) == {e \in S : \A d \in D : TimerStage[d.key] # TimerStage[e.key]}

Without(S, D) == {e \in S : \A d \in D : d.key # e.key}
Names(S) == {<<e.key, e.generation>> : e \in S}

\* The holds sync_event_time_holds rebuilds from the durable timers.
TimerHolds ==
    [s \in Stages |-> [t \in Timestamps |->
        Cardinality({e \in OwnedBy(EventTimers, s) : e.hold = t})]]

DueAtWatermark(m) ==
    {e \in EventTimers : e.fire <= EffectiveInputWatermark(m, TimerStage[e.key])}
DueAtTime(now) == {e \in ProcessingTimers : e.fire <= now}

\* mark_rerun for the stage of every timer in D.
Rearm(m, D) ==
    [s \in Stages |-> IF OwnedBy(D, s) # {} THEN MarkRerun(m, s)[s] ELSE m[s]]
Deliverable(D) == [s \in Stages |-> pending_timers[s] \cup OwnedBy(D, s)]

ItemHolds(items) ==
    [t \in Timestamps |-> Cardinality({i \in DOMAIN items : items[i].hold = t})]
AddHolds(holds, s, items) ==
    [holds EXCEPT ![s] = [t \in Timestamps |-> holds[s][t] + ItemHolds(items)[t]]]
RemoveHolds_Leaks(holds, s, items) == holds

RemoveHolds(holds, s, items) ==
    [holds EXCEPT ![s] = [t \in Timestamps |->
        Higher(holds[s][t] - ItemHolds(items)[t], 0)]]

\* enqueue_sdf_items on q, the manager with the holds, the queues and the
\* announced items of the loop.
Enqueue(q, s, items) ==
    LET holds == AddHolds(q.holds, s, items) IN
    IF items = <<>> THEN q
    ELSE [q EXCEPT !.holds = holds,
                   !.sdf[s].items = @ \o items, !.sdf[s].initialized = TRUE,
                   !.wm = EnqueueBundles(SetResidualHolds(@, holds), s, Len(items))]

Drain_Skipped(q) == q

\* Every item announced so far is queued.
Drain(q) ==
    LET drained[n \in 0..Len(q.announced)] ==
            IF n = 0 THEN q
            ELSE Enqueue(drained[n - 1], q.announced[n].stage, <<q.announced[n].item>>)
    IN  [drained[Len(q.announced)] EXCEPT !.announced = <<>>]

-----------------------------------------------------------------------------
(* The loop of run_pipeline.                                               *)

SyncHolds ==
    /\ Loop("sync")
    /\ wm' = SetResidualHolds(SetEventTimeHolds(wm, TimerHolds), residual_holds)
    /\ pc' = "promote"
    /\ UNCHANGED <<status, running, pending_timers, due, timerVars, dataVars,
                   commit_min, sdfVars, sourceVars, fired>>

\* promote_due_event_time_timers reads the timers, then deletes the due ones of
\* one stage after another; running bundles may write timers in between.
PromoteScan ==
    /\ Loop("promote")
    /\ due' = DueAtWatermark(wm)
    /\ wm' = Rearm(wm, due')
    /\ pc' = IF due' = {} THEN "schedule" ELSE "delete"
    /\ UNCHANGED <<status, running, pending_timers, timerVars, dataVars,
                   commit_min, sdfVars, sourceVars, fired>>

PromoteDelete(s) ==
    /\ Loop("delete") /\ OwnedBy(due, s) # {}
    /\ timers' = Without(timers, OwnedBy(due, s))
    /\ pending_timers' = Deliverable(OwnedBy(due, s))
    /\ due' = due \ OwnedBy(due, s)
    /\ pc' = IF due' = {} THEN "schedule" ELSE "delete"
    /\ UNCHANGED <<wm, status, running, sets, superseded, dataVars, commit_min,
                   sdfVars, sourceVars, fired>>

\* next_nodes starts one bundle of a ready stage, and more while work items
\* are declared and the concurrency ceiling allows it.
StartsOf(m, s) == Lower(Higher(m[s].queued, 1), MaxInFlight[s] - m[s].in_flight)
StartReady_One(m, s) == StartBundle(m, s)[s]

StartReady(m, s) ==
    LET started[n \in Nat] == IF n = 0 THEN m ELSE StartBundle(started[n - 1], s)
    IN  started[StartsOf(m, s)][s]

Seed(s, i) ==
    IF s \in Splittables /\ sdf[s].initialized /\ i <= Len(sdf[s].items)
    THEN <<sdf[s].items[i]>> ELSE <<>>
NewBundle(s, i) ==
    [ timers |-> IF i = 1 THEN pending_timers[s] ELSE {},
      seed |-> Seed(s, i),
      initialized |-> s \in Splittables /\ sdf[s].initialized,
      phase |-> "started", low |-> None, no_input |-> FALSE, residuals |-> <<>>,
      writes |-> [k \in TimerKeys |-> 0] ]

Schedule ==
    /\ Loop("schedule")
    /\ LET m     == Refresh(wm)
           ready == ReadyStages(m)
           new   == [s \in Stages |-> IF s \notin ready THEN <<>>
                                      ELSE [i \in 1..StartsOf(m, s) |-> NewBundle(s, i)]]
       IN  /\ wm' = [s \in Stages |-> IF s \in ready THEN StartReady(m, s) ELSE m[s]]
           /\ running' = [s \in Stages |-> running[s] \o new[s]]
           /\ fired' = fired \cup UNION {Names(pending_timers[s]) : s \in ready}
           /\ pending_timers' = [s \in Stages |-> IF s \in ready THEN {} ELSE pending_timers[s]]
           /\ sdf' = [s \in Splittables |->
                IF ~sdf[s].initialized THEN sdf[s]
                ELSE [sdf[s] EXCEPT !.items = SubSeq(@, Lower(Len(new[s]), Len(@)) + 1, Len(@))]]
           /\ status' =
                IF \A s \in ready :
                     BundleInputWatermarkIsValid(wm', s, wm'[s].watermark_at_last_run)
                THEN status ELSE "invalid watermark"
           /\ pc' = IF \A s \in Stages : running'[s] = <<>> THEN "idle"
                    ELSE IF immediate # <<>> THEN "receive" ELSE "wait"
    /\ UNCHANGED <<due, timerVars, dataVars, commit_min, residual_holds, immediate, sourceVars>>

ApplyReport_NoFinish(m, r) ==
    LET reported == IF r.watermark = None THEN m
                    ELSE ReportSourcePartitionWatermark(m, r.stage, DefaultPartition, r.watermark)
    IN  IF r.done THEN reported ELSE MarkRerun(reported, r.stage)
ApplyReport_AlwaysRerun(m, r) ==
    LET reported == IF r.watermark = None THEN m
                    ELSE ReportSourcePartitionWatermark(m, r.stage, DefaultPartition, r.watermark)
    IN  MarkRerun(IF r.done THEN ReportSourceFinished(reported, r.stage) ELSE reported, r.stage)

ApplyReport(m, r) ==
    LET reported == IF r.watermark = None THEN m
                    ELSE ReportSourcePartitionWatermark(m, r.stage, DefaultPartition, r.watermark)
    IN  IF r.done THEN ReportSourceFinished(reported, r.stage) ELSE MarkRerun(reported, r.stage)

ApplySourceProgress(m) ==
    LET applied[n \in 0..Len(reports)] ==
            IF n = 0 THEN m ELSE ApplyReport(applied[n - 1], reports[n])
    IN  IF reports = <<>> THEN m ELSE Refresh(applied[Len(reports)])

\* The clock after the reports: a report of processing time pauses it.
ReportedClock ==
    LET timed == {i \in DOMAIN reports : reports[i].processing_time # None}
    IN  IF timed = {} THEN clock
        ELSE [now |-> reports[Max(timed)].processing_time, manual |-> TRUE]

\* What a reading of clock c may return: a paused clock stands still.
Readings(c) == IF c.manual THEN {c.now} ELSE c.now..MaxNow

\* With nothing in flight the loop applies source progress and fires the
\* timers that are due at the time it reads.
IdleDue(now) == DueAtWatermark(ApplySourceProgress(wm)) \cup DueAtTime(now)

Fire(m, D) ==
    /\ wm' = Rearm(m, D)
    /\ timers' = Without(timers, D)
    /\ pending_timers' = Deliverable(D)
    /\ pc' = "sync"

IdleProgress ==
    /\ Loop("idle")
    /\ \E now \in Readings(ReportedClock) :
         /\ reports # <<>> \/ IdleDue(now) # {}
         /\ Fire(ApplySourceProgress(wm), IdleDue(now))
         /\ clock' = [ReportedClock EXCEPT !.now = now]
    /\ reports' = <<>>
    /\ UNCHANGED <<status, running, due, sets, superseded, dataVars, commit_min,
                   sdfVars, script, fired>>

Quiet == Loop("idle") /\ reports = <<>> /\ IdleDue(clock.now) = {}
MustWait == ~clock.manual /\ ProcessingTimers # {}

\* The wall clock is waited for until the next processing-time deadline.
IdleWait ==
    /\ Quiet /\ MustWait
    /\ \E now \in Min({e.fire : e \in ProcessingTimers})..MaxNow :
         /\ clock' = [clock EXCEPT !.now = now]
         /\ Fire(wm, DueAtTime(now))
    /\ UNCHANGED <<status, running, due, sets, superseded, dataVars, commit_min,
                   sdfVars, script, reports, fired>>

IdleRelease ==
    /\ Quiet /\ ~MustWait /\ ~IsComplete(wm)
    /\ EmptyHeld(wm) # {}
    /\ wm' = ReleaseEmptyInputHolds(wm)
    /\ pc' = "sync"
    /\ UNCHANGED <<status, running, pending_timers, due, timerVars, dataVars,
                   commit_min, sdfVars, sourceVars, fired>>

\* Nothing can be done any more: break, or the error "executable graph
\* deadlocked".
IdleReturn ==
    /\ Quiet /\ ~MustWait
    /\ IsComplete(wm) \/ EmptyHeld(wm) = {}
    /\ status' = IF IsComplete(wm) THEN "done" ELSE "deadlocked"
    /\ UNCHANGED <<wm, pc, running, pending_timers, due, timerVars, dataVars,
                   commit_min, sdfVars, sourceVars, fired>>

\* The select is biased: items announced before it go first.  One announced
\* while it polls may find it at the finished bundles already.
ReceiveItem ==
    /\ Loop("receive") \/ Loop("wait")
    /\ immediate # <<>>
    /\ LET q == Enqueue([wm |-> wm, holds |-> residual_holds, sdf |-> sdf],
                        Head(immediate).stage, <<Head(immediate).item>>)
       IN  wm' = q.wm /\ residual_holds' = q.holds /\ sdf' = q.sdf
    /\ immediate' = Tail(immediate)
    /\ pc' = "sync"
    /\ UNCHANGED <<status, running, pending_timers, due, timerVars, dataVars,
                   commit_min, sourceVars, fired>>

\* mark_complete_with_min_and_input, after the holds are installed.
MarkComplete(m, s, output_min, no_input) ==
    LET source == IF IsSource(s) /\ s \notin TestStreams THEN ReportSourceFinished(m, s) ELSE m
    IN  Refresh(CompleteBundle(source, s, output_min, no_input))

LastOfWave_None(m, s) == m[s].in_flight < 1

\* The bundle that is being joined still counts.
LastOfWave(m, s) == m[s].in_flight <= 1

\* What the outcome of bundle b of a splittable stage does to the queues: its
\* item is consumed, its residuals and all items announced so far are queued.
Settle(s, b) ==
    Drain(Enqueue(
        [wm |-> wm, holds |-> RemoveHolds(residual_holds, s, b.seed),
         sdf |-> [sdf EXCEPT ![s].initialized = TRUE], announced |-> immediate],
        s, b.residuals))

Join(s, i) ==
    /\ Loop("wait")
    /\ i \in DOMAIN running[s] /\ running[s][i].phase = "done"
    /\ LET b == running[s][i]
           q == IF s \in Splittables THEN Settle(s, b)
                ELSE [wm |-> wm, holds |-> residual_holds, sdf |-> sdf, announced |-> immediate]
           last_of_wave == LastOfWave(wm, s)
           output_min == IF last_of_wave THEN commit_min[s] ELSE None
       IN  /\ residual_holds' = q.holds /\ sdf' = q.sdf /\ immediate' = q.announced
           /\ commit_min' = IF last_of_wave THEN [commit_min EXCEPT ![s] = None] ELSE commit_min
           /\ wm' = MarkComplete(SetEventTimeHolds(q.wm, TimerHolds), s, output_min, b.no_input)
    /\ running' = [running EXCEPT ![s] = SubSeq(@, 1, i - 1) \o SubSeq(@, i + 1, Len(@))]
    /\ pc' = "sync"
    /\ UNCHANGED <<status, pending_timers, due, timerVars, dataVars, sourceVars, fired>>

JoinFailed(s, i) ==
    /\ Loop("wait")
    /\ i \in DOMAIN running[s] /\ running[s][i].phase = "failed"
    /\ status' = "failed"
    /\ UNCHANGED <<wm, pc, running, pending_timers, due, timerVars, dataVars,
                   commit_min, sdfVars, sourceVars, fired>>

-----------------------------------------------------------------------------
(* Bundles.                                                                *)

InPhase(s, i, phase) ==
    /\ status = "running" /\ i \in DOMAIN running[s] /\ running[s][i].phase = phase

\* A commit and its entry in the minima recorded for the producer.
Commit(s, t) ==
    /\ Len(tables[s]) < MaxCommits[s]
    /\ tables' = [tables EXCEPT ![s] = Append(@, t)]
    /\ commit_min' = [commit_min EXCEPT ![s] = Lower(@, t)]

Unread(s, p) == {tables[p][n] : n \in cursor[<<s, p>>] + 1 .. Len(tables[p])}

\* A bundle with fired timers delivers only them, and an initialized
\* splittable stage only its work item; any other reads all new input.
BundleRead(s, i) ==
    /\ InPhase(s, i, "started") /\ ~IsSource(s)
    /\ LET b     == running[s][i]
           reads == b.timers = {} /\ ~b.initialized
           input == IF reads THEN UNION {Unread(s, p) : p \in MainInputs[s]} ELSE {}
       IN  /\ cursor' = [rp \in Stages \X Stages |->
                IF reads /\ rp[1] = s /\ rp[2] \in MainInputs[s]
                THEN Len(tables[rp[2]]) ELSE cursor[rp]]
           /\ running' = [running EXCEPT ![s][i] =
                [b EXCEPT !.phase = "working", !.no_input = (s \in Workers /\ input = {}),
                          !.low = Min({None} \cup input \cup {e.hold : e \in b.timers}
                                        \cup {b.seed[n].low : n \in DOMAIN b.seed})]]
    /\ UNCHANGED <<wm, pc, status, pending_timers, due, timerVars, tables,
                   commit_min, sdfVars, sourceVars, fired>>

\* The output of a bundle is committed once.
BundleCommit(s, i) ==
    /\ InPhase(s, i, "working")
    /\ \E t \in OutputTimes : running[s][i].low <= t /\ Commit(s, t)
    /\ running' = [running EXCEPT ![s][i].phase = "committed"]
    /\ UNCHANGED <<wm, pc, status, pending_timers, due, timerVars, cursor,
                   sdfVars, sourceVars, fired>>

SetByUser(k) == {e \in timers : e.key = k}

\* The last write of a bundle to a timer key is flushed, with those to the
\* other keys, when its timers end or 512 keys are pending.  Output times, and so
\* holds, stay above the event times the bundle was given.
Writes(s, i, k) ==
    /\ InPhase(s, i, "working") /\ TimerStage[k] = s
    /\ running[s][i].writes[k] < MaxFlushes
    /\ running' = [running EXCEPT ![s][i].writes[k] = @ + 1]

BundleSetTimer(s, i, k) ==
    /\ Writes(s, i, k)
    /\ sets[k] < MaxTimerSets
    /\ \E e \in TimerSettings :
         /\ running[s][i].low <= e.hold
         /\ timers' = (timers \ SetByUser(k)) \cup
               {[key |-> k, generation |-> sets[k] + 1, fire |-> e.fire, hold |-> e.hold]}
    /\ sets' = [sets EXCEPT ![k] = @ + 1]
    /\ superseded' = superseded \cup Names(SetByUser(k))
    /\ UNCHANGED <<wm, pc, status, pending_timers, due, dataVars,
                   commit_min, sdfVars, sourceVars, fired>>

BundleClearTimer(s, i, k) ==
    /\ Writes(s, i, k)
    /\ running[s][i].low # None /\ SetByUser(k) # {}
    /\ timers' = timers \ SetByUser(k)
    /\ superseded' = superseded \cup Names(SetByUser(k))
    /\ UNCHANGED <<wm, pc, status, pending_timers, due, sets, dataVars,
                   commit_min, sdfVars, sourceVars, fired>>

\* Where a work item is held that may output from low on: a residual root where
\* the SDK reports, at MIN_TIMESTAMP if it does not, and nowhere if its transform
\* is unknown; whole elements at their timestamp, unless that is minimal.
ItemHold(kind, low) ==
    CASE kind = "reported" -> low
      [] kind = "unreported" -> MinTs
      [] kind = "unknown" -> None
      [] kind = "channel" -> IF low = MinTs THEN None ELSE low

\* A split hands the tail of the restriction to another bundle, before or
\* when the bundle completes.
NewItems(b) ==
    {[low |-> t, hold |-> ItemHold(kind, t)] :
        t \in {u \in OutputTimes : b.low <= u}, kind \in ItemKinds}

BundleSplit(s, i) ==
    /\ InPhase(s, i, "working") /\ s \in Splittables
    /\ sdf[s].created < MaxItems
    /\ \E item \in NewItems(running[s][i]) :
         immediate' = Append(immediate, [stage |-> s, item |-> item])
    /\ sdf' = [sdf EXCEPT ![s].created = @ + 1]
    /\ UNCHANGED <<wm, pc, status, running, pending_timers, due, timerVars,
                   dataVars, commit_min, residual_holds, sourceVars, fired>>

BundleDefer(s, i) ==
    /\ InPhase(s, i, "working") /\ s \in Splittables
    /\ sdf[s].created < MaxItems
    /\ \E item \in NewItems(running[s][i]) :
         running' = [running EXCEPT ![s][i].residuals = Append(@, item)]
    /\ sdf' = [sdf EXCEPT ![s].created = @ + 1]
    /\ UNCHANGED <<wm, pc, status, pending_timers, due, timerVars, dataVars,
                   commit_min, residual_holds, immediate, sourceVars, fired>>

\* The input count is stored by a task the executor does not wait for: it may
\* still read 0 after input was sent.
BundleDone(s, i) ==
    /\ \E phase \in {"working", "committed"} : InPhase(s, i, phase)
    /\ \E late \in BOOLEAN :
         /\ late => s \in Workers
         /\ running' = [running EXCEPT ![s][i] =
                [@ EXCEPT !.phase = "done", !.no_input = @ \/ late]]
    /\ UNCHANGED <<wm, pc, status, pending_timers, due, timerVars, dataVars,
                   commit_min, sdfVars, sourceVars, fired>>

BundleFails(s, i) ==
    /\ MayFail
    /\ \E phase \in {"started", "working", "committed"} : InPhase(s, i, phase)
    /\ running' = [running EXCEPT ![s][i].phase = "failed"]
    /\ UNCHANGED <<wm, pc, status, pending_timers, due, timerVars, dataVars,
                   commit_min, sdfVars, sourceVars, fired>>

\* Impulse::execute writes one element, at the minimal timestamp.
Impulse(s, i) ==
    /\ InPhase(s, i, "started") /\ IsSource(s) /\ s \notin TestStreams
    /\ Commit(s, MinTs)
    /\ running' = [running EXCEPT ![s][i].phase = "done"]
    /\ UNCHANGED <<wm, pc, status, pending_timers, due, timerVars, cursor,
                   sdfVars, sourceVars, fired>>

\* TestStream::execute plays one event and reports.
Report(s, watermark, time, done) ==
    reports' = Append(reports,
        [stage |-> s, watermark |-> watermark, processing_time |-> time, done |-> done])

IsLast_Early(left) == Len(left) <= 2

IsLast(left) == Len(left) <= 1

PlayEvent(s, i) ==
    /\ InPhase(s, i, "started") /\ s \in TestStreams
    /\ LET left == script[s].events
           e    == Head(left)
           done == IsLast(left)
           time == script[s].processing_time + (IF e.type = "time" THEN e.at ELSE 0)
       IN  IF left = <<>>
           THEN Report(s, None, None, TRUE) /\ UNCHANGED <<script, tables, commit_min>>
           ELSE /\ script' = [script EXCEPT ![s] = [events |-> Tail(left), processing_time |-> time]]
                /\ Report(s, IF e.type = "watermark" THEN e.at ELSE None,
                             IF e.type = "time" THEN time ELSE None, done)
                /\ IF e.type = "element" THEN Commit(s, e.at)
                   ELSE UNCHANGED <<tables, commit_min>>
    /\ running' = [running EXCEPT ![s][i].phase = "done"]
    /\ UNCHANGED <<wm, pc, status, pending_timers, due, timerVars, cursor,
                   sdfVars, clock, fired>>

-----------------------------------------------------------------------------
DispatcherStep ==
    \/ SyncHolds \/ PromoteScan \/ (\E s \in Stages : PromoteDelete(s)) \/ Schedule
    \/ IdleProgress \/ IdleWait \/ IdleRelease \/ IdleReturn
    \/ ReceiveItem
    \/ \E s \in Stages : \E i \in DOMAIN running[s] : Join(s, i) \/ JoinFailed(s, i)

BundleProgress(s, i) ==
    \/ BundleRead(s, i) \/ BundleCommit(s, i) \/ BundleDone(s, i)
    \/ Impulse(s, i) \/ PlayEvent(s, i)

BundleStep(s, i) ==
    \/ BundleProgress(s, i)
    \/ BundleSplit(s, i) \/ BundleDefer(s, i) \/ BundleFails(s, i)
    \/ \E k \in TimerKeys : BundleSetTimer(s, i, k) \/ BundleClearTimer(s, i, k)

\* run_pipeline has returned; its bundles are aborted.
Returned == status # "running" /\ UNCHANGED vars

Next ==
    \/ DispatcherStep
    \/ \E s \in Stages : \E i \in DOMAIN running[s] : BundleStep(s, i)
    \/ Returned

\* The loop is one task of the runtime: it moves, changing pc, status or due,
\* unless it waits for a bundle.  A worker answers, or the idle timeout fails its
\* bundle, so a bundle does not stay in a phase before done for ever.
LoopWaits ==
    /\ pc = "wait" /\ immediate = <<>>
    /\ \A s \in Stages : \A i \in DOMAIN running[s] :
         running[s][i].phase \notin {"done", "failed"}

LoopIsFair == []<>(status # "running" \/ LoopWaits) \/ []<><<TRUE>>_<<pc, status, due>>

Fairness ==
    /\ LoopIsFair
    /\ WF_vars(\E s \in Stages : \E i \in DOMAIN running[s] : BundleProgress(s, i))

Spec == Init /\ [][Next]_vars
FairSpec == Spec /\ Fairness

-----------------------------------------------------------------------------
Items == [low : Timestamps, hold : Timestamps \cup {None}]
Entries == [key : TimerKeys, generation : Nat, fire : Int, hold : Timestamps]
Bundles ==
    [ timers : SUBSET Entries, seed : Seq(Items), initialized : BOOLEAN,
      phase : {"started", "working", "committed", "done", "failed"},
      low : Timestamps \cup {None}, no_input : BOOLEAN, residuals : Seq(Items),
      writes : [TimerKeys -> Nat] ]

\* The variables have the types of the Rust fields they stand for.
TypeOK ==
    /\ wm \in Managers
    /\ pc \in {"sync", "promote", "delete", "schedule", "idle", "receive", "wait"}
    /\ status \in {"running", "done", "deadlocked", "failed", "invalid watermark"}
    /\ running \in [Stages -> Seq(Bundles)]
    /\ pending_timers \in [Stages -> SUBSET Entries]
    /\ due \subseteq Entries /\ timers \subseteq Entries
    /\ sets \in [TimerKeys -> Nat]
    /\ fired \subseteq TimerKeys \X Nat /\ superseded \subseteq TimerKeys \X Nat
    /\ tables \in [Stages -> Seq(Timestamps)]
    /\ commit_min \in [Stages -> Timestamps \cup {None}]
    /\ cursor \in [Stages \X Stages -> Nat]
    /\ sdf \in [Splittables -> [initialized : BOOLEAN, items : Seq(Items), created : Nat]]
    /\ residual_holds \in [Stages -> Holds]
    /\ immediate \in Seq([stage : Splittables, item : Items])
    /\ \A s \in TestStreams : script[s].processing_time \in Nat
    /\ \A i \in DOMAIN reports : reports[i].stage \in TestStreams
    /\ clock \in [now : Nat, manual : BOOLEAN]

\* The manager counts exactly the bundles that were spawned and not joined,
\* and the work items in the queue of a splittable stage: a count that drifts
\* hangs the pipeline or ends it early.
CountsMatch ==
    status # "invalid watermark" =>
        /\ \A s \in Stages : wm[s].in_flight = Len(running[s])
        /\ \A s \in Splittables : wm[s].queued = Len(sdf[s].items)

\* run_pipeline never returns its "executable graph deadlocked" error.
NeverDeadlocked == status # "deadlocked"

\* Once the bundles of a stage and of its consumer are joined, the rows the
\* consumer has not read are pending at the consumer, and at a minimum no later
\* than theirs, whichever bundle of the wave committed them.
UnreadIsPending ==
    \A s \in Stages : \A p \in MainInputs[s] :
        (running[p] = <<>> /\ running[s] = <<>>) =>
            \A t \in Unread(s, p) : p \in wm[s].pending /\ wm[s].pending_min <= t

\* When run_pipeline returns Ok, every stage has read all of its main inputs.
NoLostInput ==
    status = "done" => \A s \in Stages : \A p \in MainInputs[s] : Unread(s, p) = {}

\* A timer handed to a bundle is neither durable nor queued any more: it is
\* delivered at most once.
TimerFiresOnce ==
    \A s \in Stages : Names(pending_timers[s] \cup timers) \cap fired = {}

\* Every timer that was set is durable, promoted, delivered, or was replaced
\* or cleared by user code.
NoLostTimer ==
    \A k \in TimerKeys : \A g \in 1..sets[k] :
        <<k, g>> \in fired \cup superseded
                     \cup Names(timers \cup due \cup UNION {pending_timers[s] : s \in Stages})

\* When run_pipeline returns Ok, no event-time timer is left behind.
NoStrandedTimer == status = "done" => EventTimers = {}

Waiting(s) ==
    \/ running[s] # <<>>
    \/ OwnedBy(EventTimers, s) \cup pending_timers[s] # {}
    \/ s \in Splittables /\ sdf[s].items # <<>>
    \/ \E n \in DOMAIN immediate : immediate[n].stage = s

\* A gated stage starts a bundle only when no bundle, event-time timer or work
\* item, announced or queued, is left in any ancestor: StageKind::WatermarkGated
\* waits for the chain.  (A processing-time timer upstream is no reason to wait,
\* although the comment in upstream_chain_is_quiescent speaks of timers.)
GatedWaits ==
    [][\A s \in Stages :
        (Kind[s] # "Ordinary" /\ Len(running'[s]) > Len(running[s]))
            => \A a \in Ancestors[s] : ~Waiting(a)]_vars

ItemsOf(s) ==
    {<<"queued", i, sdf[s].items[i]>> : i \in DOMAIN sdf[s].items}
        \cup {<<"seed", i, running[s][i].seed[1]>> :
                i \in {j \in DOMAIN running[s] : running[s][j].seed # <<>>}}

\* The holds kept for a splittable stage are those of its work items that are
\* queued or in flight, no more (a leak stalls consumers) and no less.
HoldsAccounted ==
    \A s \in Splittables : \A t \in Timestamps :
        residual_holds[s][t] =
            Cardinality({x \in ItemsOf(s) : x[3].hold = t})

\* The deferred work of a splittable stage holds its output watermark: while an
\* item with a hold is queued or in flight, the output does not pass what the
\* item may still output.
DeferredWorkHolds ==
    \A s \in Splittables : \A x \in ItemsOf(s) :
        x[3].hold # None => wm[s].output <= x[3].low

\* A timer is delivered only when no older input of its stage is unread.
TimerAfterInput ==
    [][\A s \in Stages : \A e \in pending_timers[s] :
        (TimerDomain[e.key] = "event" /\ e \notin pending_timers'[s])
            => \A p \in MainInputs[s] : \A t \in Unread(s, p) : e.fire <= t]_vars

\* validate_bundle_input_watermark never fails.
WatermarkAlwaysValid == status # "invalid watermark"

\* When run_pipeline returns Ok, every TestStream has played its whole script.
ScriptPlayed == status = "done" => \A s \in TestStreams : script[s].events = <<>>

Delivers(p) == tables[p] # <<>> \/ \E r \in MainInputs[p] : cursor[<<p, r>>] > 0

\* A bundle starts only after the producer of every side input of its stage has
\* completed a bundle that output or read rows (unproduced_side_inputs).  One
\* that only had empty bundles counts when nothing runs and no source has more
\* to report, which is when release_empty_input_holds declares it final.
SideInputsProduced ==
    [][\A s \in Stages : Len(running'[s]) > Len(running[s]) =>
        \A p \in SideInputs[s] :
            /\ wm[p].completed
            /\ \/ Delivers(p)
               \/ reports = <<>> /\ \A r \in Stages : running[r] = <<>>]_vars

Contract == INSTANCE WatermarkContract WITH
    input  <- [s \in Stages |-> wm[s].input],
    output <- [s \in Stages |-> wm[s].output],
    held   <- [s \in Stages |-> HeldAt(wm[s])]

\* Whatever the loop does, watermarks keep the manager's contract: no regress,
\* never ahead of a producer, never moved past a hold that is in place.
KeepsContract == Contract!Spec

\* run_pipeline returns, with Ok or with an error.
Terminates == <>(status # "running")
=============================================================================
