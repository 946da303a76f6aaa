--------------------------- MODULE WatermarkState ---------------------------
(***************************************************************************)
(* The state of the engine's WatermarkManager and its operations, as       *)
(* operators from a manager state to a manager state.  A manager state m   *)
(* maps every stage to its StageState record.                              *)
(*                                                                         *)
(* A PCollection is named by the stage that produces it: all outputs of a  *)
(* stage carry the same watermark and are always marked together, so the   *)
(* sets unproduced, pending, pending_empty hold producer stages.  (A stage *)
(* with a producer among both its main and its side inputs reads the same  *)
(* PCollection in both roles.)                                             *)
(***************************************************************************)
EXTENDS Integers, FiniteSets, FiniteSetsExt

CONSTANTS
    Stages,             \* the nodes of the executable graph
    MainInputs,         \* stage -> producers of its main inputs
    SideInputs,         \* stage -> producers of its side inputs
    Kind,               \* stage -> StageKind
    RequiredWatermark,  \* stage -> the gate of a gated stage
    MaxInFlight,        \* stage -> its concurrency ceiling
    Partitions,         \* partitions a source may report for
    DefaultPartition,   \* the partition of report_source_watermark
    MinTs, MaxTs        \* MIN_TIMESTAMP and MAX_TIMESTAMP

StageKinds == {"Ordinary", "WatermarkGated", "TimeSorted"}

\* The epoch, timestamp 0, lies strictly between the two extremes.
ASSUME TimestampAssumption == MinTs \in Int /\ MaxTs \in Int /\ MinTs < 0 /\ 0 < MaxTs

Timestamps == MinTs..MaxTs

\* No timestamp.  It is above every timestamp, so taking a minimum with it
\* leaves the other operand.
None == MaxTs + 1

ASSUME GraphAssumption ==
    /\ IsFiniteSet(Stages)
    /\ MainInputs \in [Stages -> SUBSET Stages]
    /\ SideInputs \in [Stages -> SUBSET Stages]
    /\ Kind \in [Stages -> StageKinds]
    /\ RequiredWatermark \in [Stages -> Timestamps]
    /\ MaxInFlight \in [Stages -> Nat \ {0}]
    /\ DefaultPartition \in Partitions

Producers(s) == MainInputs[s] \cup SideInputs[s]

\* The graph of a pipeline has no cycle: producers precede their consumers.
ASSUME AcyclicAssumption ==
    \E rank \in [Stages -> 0..Cardinality(Stages)] :
        \A s \in Stages : \A p \in Producers(s) : rank[p] < rank[s]

IsSource(s) == MainInputs[s] = {}

\* All producers upstream of a stage, through main and side inputs.
Ancestors[s \in Stages] ==
    Producers(s) \cup UNION {Ancestors[p] : p \in Producers(s)}

Lower(a, b) == IF a <= b THEN a ELSE b
Higher(a, b) == IF a >= b THEN a ELSE b

\* A multiset of timestamps, as the number of times each is held.
Holds == [Timestamps -> Nat]
NoHolds == [t \in Timestamps |-> 0]
NoPartitions == [q \in Partitions |-> [watermark |-> None, idle |-> FALSE]]

StageState ==
    [ input : Timestamps, output : Timestamps,
      partitions : [Partitions -> [watermark : Timestamps \cup {None}, idle : BOOLEAN]],
      finished : BOOLEAN,
      watermark_holds : Holds, residual_holds : Holds,
      unproduced : SUBSET Stages, unproduced_side_inputs : SUBSET Stages,
      pending : SUBSET Stages, pending_min : Timestamps, pending_empty : SUBSET Stages,
      in_flight : Nat, queued : Nat,
      completed : BOOLEAN, rerun_pending : BOOLEAN, time_sorted_input_closed : BOOLEAN,
      watermark_at_last_run : Timestamps ]

Managers == [Stages -> StageState]

AddStage(s) ==
    [ input |-> IF IsSource(s) THEN MaxTs ELSE MinTs, output |-> MinTs,
      partitions |-> NoPartitions, finished |-> FALSE,
      watermark_holds |-> NoHolds, residual_holds |-> NoHolds,
      unproduced |-> MainInputs[s], unproduced_side_inputs |-> SideInputs[s],
      pending |-> {}, pending_min |-> MaxTs, pending_empty |-> {},
      in_flight |-> 0, queued |-> 0,
      completed |-> FALSE, rerun_pending |-> FALSE, time_sorted_input_closed |-> FALSE,
      watermark_at_last_run |-> MinTs ]

NewManager == [s \in Stages |-> AddStage(s)]

-----------------------------------------------------------------------------
(* Reports of sources and watermark holds.                                 *)

\* A partition that reports for the first time starts from
\* PartitionWatermark::default(), whose watermark is 0.
PartitionWatermark(part) == IF part.watermark = None THEN 0 ELSE part.watermark

ReportSourcePartitionWatermark(m, s, q, t) ==
    LET part == m[s].partitions[q] IN
    [m EXCEPT ![s].partitions[q] =
        [watermark |-> Higher(PartitionWatermark(part), t), idle |-> FALSE]]

SetSourcePartitionIdle(m, s, q, idle) ==
    LET part == m[s].partitions[q] IN
    [m EXCEPT ![s].partitions[q] =
        [watermark |-> PartitionWatermark(part), idle |-> idle]]

ReportSourceFinished(m, s) == [m EXCEPT ![s].finished = TRUE]

AddHold(m, s, t) == [m EXCEPT ![s].watermark_holds[t] = @ + 1]
ReleaseHold(m, s, t) ==
    [m EXCEPT ![s].watermark_holds[t] = IF @ > 0 THEN @ - 1 ELSE 0]
SetEventTimeHolds(m, holds) ==
    [s \in Stages |-> [m[s] EXCEPT !.watermark_holds = holds[s]]]
SetResidualHolds(m, holds) ==
    [s \in Stages |-> [m[s] EXCEPT !.residual_holds = holds[s]]]

\* The timestamps at which a stage state is held; min_hold is their minimum.
HeldAt(st) ==
    {t \in Timestamps : st.watermark_holds[t] > 0 \/ st.residual_holds[t] > 0}

MinHold_TimersOnly(st) == Min({t \in Timestamps : st.watermark_holds[t] > 0} \cup {None})

MinHold(st) == Min(HeldAt(st) \cup {None})

-----------------------------------------------------------------------------
(* Watermark propagation.                                                  *)

SourceOutput(st) ==
    LET reported == {q \in Partitions : st.partitions[q].watermark # None}
        active   == {q \in reported : ~st.partitions[q].idle}
    IN  IF st.finished THEN MaxTs
        ELSE IF reported = {} THEN MinTs
        ELSE Min({st.partitions[q].watermark : q \in active} \cup {MaxTs})

ComputeInput_MainOnly(output, s) ==
    IF IsSource(s) THEN MaxTs ELSE Min({output[p] : p \in MainInputs[s]} \cup {MaxTs})

\* compute_input and compute_output, given the output watermarks of the stages.
ComputeInput(output, s) ==
    IF IsSource(s) THEN MaxTs
    ELSE Min({output[p] : p \in Producers(s)} \cup {MaxTs})

\* A bundle of a stage that has not completed one yet holds its output.
OutstandingBundle(st) ==
    IF ~st.completed /\ (st.in_flight > 0 \/ st.queued > 0)
    THEN st.watermark_at_last_run ELSE None

\* What limits the output watermark of a stage, its upstream aside.
OwnLimits(st) ==
    {OutstandingBundle(st), MinHold(st)}
        \cup (IF st.pending_empty # {} THEN {MinTs} ELSE {})

ComputeOutput(m, output, s) ==
    Min(OwnLimits(m[s]) \cup
        (IF IsSource(s) THEN {SourceOutput(m[s])}
         ELSE {output[p] : p \in MainInputs[s]} \cup {m[s].pending_min}))

SettledOutput_Regresses(m) ==
    LET output[s \in Stages] == ComputeOutput(m, output, s) IN output

\* The output watermarks on which the loop of refresh settles: no stage moves
\* back, and each is computed from the settled outputs of its producers.  The
\* loop itself is in WatermarkRefresh, which is shown to end here.
SettledOutput(m) ==
    LET output[s \in Stages] == Higher(m[s].output, ComputeOutput(m, output, s))
    IN  output

Refresh(m) ==
    LET output == SettledOutput(m) IN
    [s \in Stages |->
        [m[s] EXCEPT !.input = Higher(@, ComputeInput(output, s)),
                     !.output = output[s]]]

\* A visit of stage s by the loop in refresh finds nothing to advance.
NothingToAdvance(m, s) ==
    LET output == [p \in Stages |-> m[p].output] IN
    /\ ComputeInput(output, s) <= m[s].input
    /\ ComputeOutput(m, output, s) <= m[s].output

-----------------------------------------------------------------------------
(* Eligibility.                                                            *)

EffectiveInputWatermark_Pending(m, s) == m[s].pending_min

EffectiveInputWatermark_Cleared(m, s) == m[s].input

EffectiveInputWatermark(m, s) == Lower(m[s].input, m[s].pending_min)

InputsProduced(st) == st.unproduced = {} /\ st.unproduced_side_inputs = {}

FirstRunInFlight(st) == ~st.completed /\ st.in_flight > 0 /\ st.queued = 0

IsReadyWithoutUpstreamBarrier(m, s) ==
    LET st == m[s] IN
    /\ st.in_flight < MaxInFlight[s]
    /\ InputsProduced(st)
    /\ ~FirstRunInFlight(st)
    /\ st.completed =>
         \/ st.rerun_pending
         \/ st.queued > 0
         \/ st.pending # {}
         \/ /\ Kind[s] = "WatermarkGated"
            /\ EffectiveInputWatermark(m, s) > st.watermark_at_last_run
    /\ Kind[s] # "Ordinary" => st.input >= RequiredWatermark[s]

Quiescent_IgnoresRerun(st) ==
    /\ st.completed /\ st.in_flight = 0 /\ st.queued = 0
    /\ st.pending = {} /\ st.pending_empty = {} /\ HeldAt(st) = {}

Quiescent(st) ==
    /\ st.completed /\ st.in_flight = 0 /\ st.queued = 0
    /\ st.pending = {} /\ ~st.rerun_pending /\ st.pending_empty = {}
    /\ HeldAt(st) = {}

UpstreamChainIsQuiescent_Parents(m, s) == \A a \in Producers(s) : Quiescent(m[a])

UpstreamChainIsQuiescent(m, s) == \A a \in Ancestors[s] : Quiescent(m[a])

StageIsReady(m, s) ==
    /\ IsReadyWithoutUpstreamBarrier(m, s)
    /\ Kind[s] # "Ordinary" => UpstreamChainIsQuiescent(m, s)

ReadyStages(m) == {s \in Stages : StageIsReady(m, s)}

IsComplete(m) ==
    \A s \in Stages :
        LET st == m[s] IN
        /\ st.completed /\ st.unproduced_side_inputs = {} /\ st.pending = {}
        /\ ~st.rerun_pending /\ st.queued = 0 /\ st.in_flight = 0
        /\ ~(Kind[s] = "WatermarkGated" /\ st.input > st.watermark_at_last_run)

-----------------------------------------------------------------------------
(* Bundles.                                                                *)

EnqueueBundles(m, s, n) == [m EXCEPT ![s].queued = @ + n]
MarkRerun(m, s) == [m EXCEPT ![s].rerun_pending = TRUE]

\* The conditions under which start_bundle returns Ok.
CanStartBundle(m, s) ==
    LET st == m[s] IN
    /\ st.in_flight < MaxInFlight[s]
    /\ ~FirstRunInFlight(st)
    /\ st.completed =>
         \/ st.rerun_pending \/ st.queued > 0 \/ st.pending # {}
         \/ Kind[s] = "WatermarkGated" /\ st.input > st.watermark_at_last_run
    /\ st.unproduced = {}

TakeQueued_Wraps(queued) == queued - 1
TakeQueued_Keeps(queued) == queued

\* queued_bundles.saturating_sub(1)
TakeQueued(queued) == IF queued > 0 THEN queued - 1 ELSE 0

StartBundle(m, s) ==
    LET st == m[s]
        started ==
            [st EXCEPT
                !.in_flight = @ + 1,
                !.queued = TakeQueued(@),
                !.rerun_pending = FALSE,
                !.time_sorted_input_closed =
                    @ \/ (Kind[s] = "TimeSorted" /\ st.input >= RequiredWatermark[s])]
    IN  [m EXCEPT ![s] =
            IF st.in_flight # 0 THEN started
            ELSE [started EXCEPT !.pending = {}, !.pending_min = MaxTs,
                                 !.watermark_at_last_run = EffectiveInputWatermark(m, s)]]

AcceptsInput_Once(st, c, p) ==
    p \in MainInputs[c] /\ p \in st.unproduced /\ ~st.time_sorted_input_closed

\* Rows of p are recorded, unless the stage has closed its time-sorted input.
AcceptsInput(st, c, p) == p \in MainInputs[c] /\ ~st.time_sorted_input_closed

SideIsProduced_Always(empty) == TRUE

\* An empty side input does not count as produced until it is released.
SideIsProduced(empty) == ~empty

\* How a completion of producer p is recorded in the state of stage c.
Produced(st, c, p, empty, min_ts) ==
    LET main == p \in MainInputs[c]
        side == p \in SideInputs[c]
        open == AcceptsInput(st, c, p)
    IN  [st EXCEPT
            !.unproduced = IF main THEN @ \ {p} ELSE @,
            !.pending = IF open THEN @ \cup {p} ELSE @,
            !.pending_min = IF open THEN Lower(@, min_ts) ELSE @,
            !.pending_empty = IF ~(open \/ side) THEN @
                              ELSE IF empty THEN @ \cup {p} ELSE @ \ {p},
            !.unproduced_side_inputs = IF side /\ SideIsProduced(empty) THEN @ \ {p} ELSE @]

\* output_min is the minimum event time the bundle committed, None if nothing;
\* no_input tells that input_count is Some(0).
CompleteBundle(m, s, output_min, no_input) ==
    LET has_empty == m[s].pending_empty # {}
        empty     == has_empty \/ (output_min = None /\ no_input)
        min_ts    == IF has_empty THEN MinTs ELSE output_min
        finished  == [m EXCEPT ![s].in_flight = @ - 1, ![s].completed = TRUE]
    IN  [c \in Stages |-> Produced(finished[c], c, s, empty, min_ts)]

EmptyHeld_SideOnly(m) ==
    {s \in Stages : m[s].pending_empty \cap SideInputs[s] # {}}

EmptyHeld(m) == {s \in Stages : m[s].pending_empty # {}}

ReleaseEmpty_MainOnly(m) == [s \in Stages |-> [m[s] EXCEPT !.pending_empty = {}]]

ReleaseEmpty(m) ==
    [s \in Stages |->
        [m[s] EXCEPT !.pending_empty = {},
                     !.unproduced_side_inputs =
                        @ \ (m[s].pending_empty \cap SideInputs[s])]]

ReleaseEmptyInputHolds(m) ==
    IF EmptyHeld(m) = {} THEN m ELSE Refresh(ReleaseEmpty(m))

\* validate_bundle_input_watermark returns Ok.
BundleInputWatermarkIsValid(m, s, watermark) ==
    \A p \in Producers(s) :
        watermark <= Lower(OutstandingBundle(m[p]), MinHold(m[p]))
=============================================================================
