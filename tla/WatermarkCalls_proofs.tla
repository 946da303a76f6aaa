----------------------- MODULE WatermarkCalls_proofs ------------------------
(***************************************************************************)
(* The manager with the loop of refresh implements WatermarkManager.       *)
(***************************************************************************)
EXTENDS WatermarkCalls, WatermarkRefresh_proofs

\* The operators of the instance are those of WatermarkState.
LEMMA SameState ==
    ASSUME NEW m, NEW s, NEW q, NEW t, NEW idle, NEW holds, NEW k
    PROVE  /\ Manager!IsSource(s) = IsSource(s)
           /\ Manager!ReportSourcePartitionWatermark(m, s, q, t)
                = ReportSourcePartitionWatermark(m, s, q, t)
           /\ Manager!SetSourcePartitionIdle(m, s, q, idle)
                = SetSourcePartitionIdle(m, s, q, idle)
           /\ Manager!ReportSourceFinished(m, s) = ReportSourceFinished(m, s)
           /\ Manager!AddHold(m, s, t) = AddHold(m, s, t)
           /\ Manager!ReleaseHold(m, s, t) = ReleaseHold(m, s, t)
           /\ Manager!SetEventTimeHolds(m, holds) = SetEventTimeHolds(m, holds)
           /\ Manager!SetResidualHolds(m, holds) = SetResidualHolds(m, holds)
           /\ Manager!EnqueueBundles(m, s, k) = EnqueueBundles(m, s, k)
           /\ Manager!MarkRerun(m, s) = MarkRerun(m, s)
    BY Zenon DEF IsSource, ReportSourcePartitionWatermark, SetSourcePartitionIdle,
       ReportSourceFinished, AddHold, ReleaseHold, SetEventTimeHolds, SetResidualHolds,
       EnqueueBundles, MarkRerun, Higher, PartitionWatermark, None,
       Manager!IsSource, Manager!ReportSourcePartitionWatermark,
       Manager!SetSourcePartitionIdle,
       Manager!ReportSourceFinished, Manager!AddHold, Manager!ReleaseHold,
       Manager!SetEventTimeHolds, Manager!SetResidualHolds,
       Manager!EnqueueBundles, Manager!MarkRerun, Manager!Higher,
       Manager!PartitionWatermark, Manager!None

LEMMA SameBundles ==
    ASSUME NEW m, NEW s, NEW mn, NEW no_input
    PROVE  /\ Manager!CanStartBundle(m, s) = CanStartBundle(m, s)
           /\ Manager!StartBundle(m, s) = StartBundle(m, s)
           /\ Manager!CompleteBundle(m, s, mn, no_input) = CompleteBundle(m, s, mn, no_input)
    BY Zenon DEF CanStartBundle, StartBundle, CompleteBundle, FirstRunInFlight, TakeQueued,
       EffectiveInputWatermark, Lower, Produced, AcceptsInput, SideIsProduced, None,
       Manager!CanStartBundle, Manager!StartBundle, Manager!CompleteBundle,
       Manager!FirstRunInFlight, Manager!TakeQueued, Manager!EffectiveInputWatermark,
       Manager!Lower, Manager!Produced, Manager!AcceptsInput, Manager!SideIsProduced,
       Manager!None

LEMMA SameComputed ==
    ASSUME NEW m, NEW output, NEW s
    PROVE  /\ Manager!ComputeInput(output, s) = ComputeInput(output, s)
           /\ Manager!ComputeOutput(m, output, s) = ComputeOutput(m, output, s)
           /\ Manager!AddStage(s) = AddStage(s)
<1>1. Manager!ComputeInput(output, s) = ComputeInput(output, s)
    BY Zenon DEF ComputeInput, IsSource, Producers, Min, Manager!Min,
       Manager!ComputeInput, Manager!IsSource, Manager!Producers
<1>2. Manager!ComputeOutput(m, output, s) = ComputeOutput(m, output, s)
    BY Zenon DEF ComputeOutput, OwnLimits, OutstandingBundle, MinHold, HeldAt, SourceOutput,
       IsSource, None, Timestamps, Min, Manager!Min,
       Manager!ComputeOutput, Manager!OwnLimits, Manager!OutstandingBundle,
       Manager!MinHold, Manager!HeldAt, Manager!SourceOutput, Manager!IsSource,
       Manager!None, Manager!Timestamps
<1>3. Manager!AddStage(s) = AddStage(s)
    BY Zenon DEF AddStage, IsSource, None, NoHolds, NoPartitions, Timestamps,
       Manager!AddStage, Manager!IsSource, Manager!None, Manager!NoHolds,
       Manager!NoPartitions, Manager!Timestamps
<1> QED BY <1>1, <1>2, <1>3

LEMMA SameSettled ==
    ASSUME NEW m
    PROVE  Manager!SettledOutput(m) = SettledOutput(m)
    BY Zenon DEF SettledOutput, ComputeOutput, OwnLimits, OutstandingBundle, MinHold, HeldAt,
       SourceOutput, IsSource, None, Timestamps, Min, Higher,
       Manager!SettledOutput, Manager!ComputeOutput, Manager!OwnLimits,
       Manager!OutstandingBundle, Manager!MinHold, Manager!HeldAt, Manager!SourceOutput,
       Manager!IsSource, Manager!None, Manager!Timestamps, Manager!Min, Manager!Higher

LEMMA SameRefresh ==
    ASSUME NEW m
    PROVE  /\ Manager!Refresh(m) = Refresh(m)
           /\ Manager!ReleaseEmptyInputHolds(m) = ReleaseEmptyInputHolds(m)
           /\ Manager!NewManager = NewManager
<1>1. ASSUME NEW n PROVE Manager!Refresh(n) = Refresh(n)
    <2>1. PICK output : output = SettledOutput(n)
        OBVIOUS
    <2>2. Manager!SettledOutput(n) = output
        BY <2>1, SameSettled
    <2>3. Refresh(n) = [s \in Stages |->
            [n[s] EXCEPT !.input = Higher(@, ComputeInput(output, s)), !.output = output[s]]]
        BY <2>1, Zenon DEF Refresh
    <2>4. Manager!Refresh(n) = [s \in Stages |->
            [n[s] EXCEPT !.input = Manager!Higher(@, Manager!ComputeInput(output, s)),
                         !.output = output[s]]]
        BY <2>2, Zenon DEF Manager!Refresh
    <2> QED BY <2>3, <2>4, Zenon
            DEF Higher, Manager!Higher, ComputeInput, IsSource, Producers, Min, Manager!Min,
                Manager!ComputeInput, Manager!IsSource, Manager!Producers
<1>2. Manager!EmptyHeld(m) = EmptyHeld(m) /\ Manager!ReleaseEmpty(m) = ReleaseEmpty(m)
    BY Zenon DEF EmptyHeld, ReleaseEmpty, Manager!EmptyHeld, Manager!ReleaseEmpty
<1>3. Manager!ReleaseEmptyInputHolds(m) = ReleaseEmptyInputHolds(m)
    BY <1>1, <1>2, Zenon DEF ReleaseEmptyInputHolds, Manager!ReleaseEmptyInputHolds
<1>4. Manager!NewManager = NewManager
    BY Zenon DEF NewManager, AddStage, IsSource, None, NoHolds, NoPartitions, Timestamps,
       Manager!NewManager, Manager!AddStage, Manager!IsSource, Manager!None, Manager!NoHolds,
       Manager!NoPartitions, Manager!Timestamps
<1> QED BY <1>1, <1>3, <1>4

\* A call that does not refresh is the same call of the instance.
LEMMA CallMaps ==
    ASSUME PlainCall, called = stages, called' = stages'
    PROVE  Manager!PlainCall
<1>1. ASSUME NEW s \in Stages, NEW q \in Partitions, NEW t \in Reports,
             ReportSourceWatermarkCall(s, q, t)
      PROVE  Manager!PlainCall
    <2>1. Manager!ReportSourceWatermarkCall(s, q, t)
        BY <1>1, SameState
           DEF ReportSourceWatermarkCall, Manager!ReportSourceWatermarkCall
    <2> QED BY <2>1, Zenon DEF Manager!PlainCall
<1>2. ASSUME NEW s \in Stages, NEW q \in Partitions, NEW idle \in IdleSettings,
             SetSourcePartitionIdleCall(s, q, idle)
      PROVE  Manager!PlainCall
    <2>1. Manager!SetSourcePartitionIdleCall(s, q, idle)
        BY <1>2, SameState
           DEF SetSourcePartitionIdleCall, Manager!SetSourcePartitionIdleCall
    <2> QED BY <2>1, Zenon DEF Manager!PlainCall
<1>3. ASSUME NEW s \in Stages, ReportSourceFinishedCall(s)
      PROVE  Manager!PlainCall
    <2>1. Manager!ReportSourceFinishedCall(s)
        BY <1>3, SameState DEF ReportSourceFinishedCall, Manager!ReportSourceFinishedCall
    <2> QED BY <2>1, Zenon DEF Manager!PlainCall
<1>4. ASSUME NEW s \in Stages, EnqueueBundlesCall(s)
      PROVE  Manager!PlainCall
    <2>1. Manager!EnqueueBundlesCall(s)
        BY <1>4, SameState DEF EnqueueBundlesCall, Manager!EnqueueBundlesCall
    <2> QED BY <2>1, Zenon DEF Manager!PlainCall
<1>5. ASSUME NEW s \in Stages, StartBundleCall(s)
      PROVE  Manager!PlainCall
    <2>1. Manager!StartBundleCall(s)
        BY <1>5, SameBundles DEF StartBundleCall, Manager!StartBundleCall
    <2> QED BY <2>1, Zenon DEF Manager!PlainCall
<1>6. ASSUME NEW s \in Stages, NEW mn \in OutputMins, NEW no_input \in BOOLEAN,
             CompleteBundleCall(s, mn, no_input)
      PROVE  Manager!PlainCall
    <2>1. Manager!CompleteBundleCall(s, mn, no_input)
        BY <1>6, SameBundles DEF CompleteBundleCall, Manager!CompleteBundleCall
    <2> QED BY <2>1, Zenon DEF Manager!PlainCall
<1>7. ASSUME NEW s \in TimerStages, NEW t \in HoldTimes, AddHoldCall(s, t) \/ ReleaseHoldCall(s, t)
      PROVE  Manager!PlainCall
    <2>1. Manager!AddHoldCall(s, t) \/ Manager!ReleaseHoldCall(s, t)
        BY <1>7, SameState DEF AddHoldCall, ReleaseHoldCall, Manager!AddHoldCall,
           Manager!ReleaseHoldCall
    <2> QED BY <2>1, Zenon DEF Manager!PlainCall
<1>8. ASSUME NEW s \in TimerStages, MarkRerunCall(s)
      PROVE  Manager!PlainCall
    <2>1. Manager!MarkRerunCall(s)
        BY <1>8, SameState DEF MarkRerunCall, Manager!MarkRerunCall
    <2> QED BY <2>1, Zenon DEF Manager!PlainCall
<1>9. ASSUME NEW holds \in TimerHoldMaps, SetEventTimeHoldsCall(holds)
      PROVE  Manager!PlainCall
    <2>1. Manager!SetEventTimeHoldsCall(holds)
        BY <1>9, SameState DEF SetEventTimeHoldsCall, Manager!SetEventTimeHoldsCall
    <2> QED BY <2>1, Zenon DEF Manager!PlainCall
<1>10. ASSUME NEW holds \in DeferredHoldMaps, SetResidualHoldsCall(holds)
       PROVE  Manager!PlainCall
    <2>1. Manager!SetResidualHoldsCall(holds)
        BY <1>10, SameState DEF SetResidualHoldsCall, Manager!SetResidualHoldsCall
    <2> QED BY <2>1, Zenon DEF Manager!PlainCall
<1> QED BY <1>1, <1>2, <1>3, <1>4, <1>5, <1>6, <1>7, <1>8, <1>9, <1>10, Zenon DEF PlainCall

\* The loop of refresh implements Refresh: with each call taken as one step, the
\* manager with the loop is WatermarkManager, for every graph, every order of the
\* ids and every sequence of calls.
THEOREM LoopImplementsManager == RefreshSpec => ImplementsManager
<1>1. RefreshInit => Manager!Init
    BY SameRefresh DEF RefreshInit, Init, Manager!Init
<1>2. LoopInv /\ [RefreshNext]_refreshVars => [Manager!Next]_called
    <2> SUFFICES ASSUME LoopInv, [RefreshNext]_refreshVars
                 PROVE  [Manager!Next]_called
        OBVIOUS
    <2>1. CASE Call
        <3>1. PlainCall /\ called = stages /\ called' = stages'
            BY <2>1 DEF Call, LoopInv
        <3> QED BY <3>1, CallMaps DEF Manager!Next
    <2>2. CASE RefreshEnters \/ ReleaseEnters \/ Visit
        BY <2>2 DEF RefreshEnters, ReleaseEnters, EnterLoop, Visit
    <2>3. CASE RoundEnds /\ changed
        BY <2>3 DEF RoundEnds, RoundIsLast
    <2>4. CASE RoundEnds /\ ~changed
        <3>1. called' = stages /\ next = Len(Order) + 1
            BY <2>4 DEF RoundEnds, RoundIsLast
        <3>2. called' = Refresh(Entered)
            BY <2>4, <3>1, LoopEnds
        <3>3. CASE ~releasing
            BY <3>2, <3>3, SameRefresh DEF Entered, Manager!Next, Manager!RefreshCall
        <3>4. CASE releasing
            <4>1. called' = ReleaseEmptyInputHolds(called)
                BY <3>2, <3>4 DEF Entered, LoopInv, ReleaseEmptyInputHolds
            <4> QED BY <4>1, SameRefresh DEF Manager!Next, Manager!ReleaseEmptyInputHoldsCall
        <3> QED BY <3>3, <3>4
    <2>5. CASE UNCHANGED refreshVars
        BY <2>5 DEF refreshVars
    <2> QED BY <2>1, <2>2, <2>3, <2>4, <2>5 DEF RefreshNext
<1> QED BY <1>1, <1>2, LoopInvariant, PTL DEF RefreshSpec, ImplementsManager, Manager!Spec
=============================================================================
