-------------------------- MODULE WatermarkManager --------------------------
(***************************************************************************)
(* The WatermarkManager as a component: its public methods, called in any  *)
(* order its callers could choose.  A call that returns an error changes   *)
(* nothing and is no step.                                                 *)
(***************************************************************************)
EXTENDS WatermarkState

CONSTANTS
    TimerHoldMaps,  \* maps from stages to holds that callers install
    DeferredHoldMaps,
    TimerStages,    \* stages that callers hold and re-arm for their timers
    HoldTimes,      \* timestamps at which callers add single holds
    OutputMins,     \* minimum event times of committed bundles, or None
    Reports,        \* timestamps that sources report
    IdleSettings,   \* what callers pass to set_source_partition_idle
    MaxQueued,      \* stage -> bound on its declared work items
    MaxHolds        \* bound on the count of one hold

ASSUME CallAssumption ==
    /\ TimerHoldMaps \subseteq [Stages -> Holds]
    /\ DeferredHoldMaps \subseteq [Stages -> Holds]
    /\ TimerStages \subseteq Stages
    /\ HoldTimes \subseteq Timestamps
    /\ OutputMins \subseteq Timestamps \cup {None}
    /\ Reports \subseteq Timestamps
    /\ IdleSettings \subseteq BOOLEAN
    /\ MaxQueued \in [Stages -> Nat] /\ MaxHolds \in Nat

VARIABLE stages     \* the manager state

Init == stages = NewManager

ReportSourceWatermarkCall(s, q, t) ==
    /\ IsSource(s)
    /\ stages' = ReportSourcePartitionWatermark(stages, s, q, t)

SetSourcePartitionIdleCall(s, q, idle) ==
    /\ IsSource(s)
    /\ stages' = SetSourcePartitionIdle(stages, s, q, idle)

ReportSourceFinishedCall(s) ==
    /\ IsSource(s)
    /\ stages' = ReportSourceFinished(stages, s)

AddHoldCall(s, t) ==
    /\ stages[s].watermark_holds[t] < MaxHolds
    /\ stages' = AddHold(stages, s, t)

ReleaseHoldCall(s, t) == stages' = ReleaseHold(stages, s, t)

SetEventTimeHoldsCall(holds) == stages' = SetEventTimeHolds(stages, holds)

SetResidualHoldsCall(holds) == stages' = SetResidualHolds(stages, holds)

EnqueueBundlesCall(s) ==
    /\ stages[s].queued < MaxQueued[s]
    /\ stages' = EnqueueBundles(stages, s, 1)

MarkRerunCall(s) == stages' = MarkRerun(stages, s)

StartBundleCall(s) ==
    /\ CanStartBundle(stages, s)
    /\ stages' = StartBundle(stages, s)

CompleteBundleCall(s, output_min, no_input) ==
    /\ stages[s].in_flight > 0
    /\ stages' = CompleteBundle(stages, s, output_min, no_input)

ReleaseEmptyInputHoldsCall == stages' = ReleaseEmptyInputHolds(stages)

RefreshCall == stages' = Refresh(stages)

\* The calls that do not refresh.
PlainCall ==
    \/ \E s \in Stages :
         \/ \E q \in Partitions, t \in Reports : ReportSourceWatermarkCall(s, q, t)
         \/ \E q \in Partitions, idle \in IdleSettings : SetSourcePartitionIdleCall(s, q, idle)
         \/ ReportSourceFinishedCall(s)
         \/ EnqueueBundlesCall(s)
         \/ StartBundleCall(s)
         \/ \E mn \in OutputMins, no_input \in BOOLEAN : CompleteBundleCall(s, mn, no_input)
    \/ \E s \in TimerStages :
         \/ \E t \in HoldTimes : AddHoldCall(s, t) \/ ReleaseHoldCall(s, t)
         \/ MarkRerunCall(s)
    \/ \E holds \in TimerHoldMaps : SetEventTimeHoldsCall(holds)
    \/ \E holds \in DeferredHoldMaps : SetResidualHoldsCall(holds)

Next == PlainCall \/ ReleaseEmptyInputHoldsCall \/ RefreshCall

Spec == Init /\ [][Next]_stages

-----------------------------------------------------------------------------

\* Every StageState keeps its shape whatever is called.
TypeOK == stages \in Managers

\* The input watermark handed to a bundle (bundle_input_watermark) is never
\* ahead of the stage's own input watermark.
BundleBehindInput ==
    \A s \in Stages : stages[s].watermark_at_last_run <= stages[s].input

\* The watermark handed to a wave of bundles is not ahead of the rows that were
\* pending when it started, although starting it clears the record of them.
WaveBehindPending ==
    [][\A s \in Stages :
        (stages[s].in_flight = 0 /\ stages'[s].in_flight > 0)
            => stages'[s].watermark_at_last_run <= stages[s].pending_min]_stages

\* The contract, read off the manager state: the frontiers of
\* WatermarkContract are the input and output fields, the holds both multisets.
Contract == INSTANCE WatermarkContract WITH
    input  <- [s \in Stages |-> stages[s].input],
    output <- [s \in Stages |-> stages[s].output],
    held   <- [s \in Stages |-> HeldAt(stages[s])]

\* The manager implements WatermarkContract for any sequence of calls.
ImplementsContract == Contract!Spec
=============================================================================
