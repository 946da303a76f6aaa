----------------------- MODULE WatermarkManager_proofs ----------------------
(***************************************************************************)
(* Theorems about WatermarkManager, for every graph, every set of          *)
(* partitions and every sequence of calls.                                 *)
(***************************************************************************)
EXTENDS WatermarkManager, WatermarkState_proofs

-----------------------------------------------------------------------------
(* Steps of the manager.                                                   *)

\* A call that does not refresh moves no watermark.
LEMMA PlainCallKeeps ==
    ASSUME Inv(stages), PlainCall
    PROVE  Keeps(stages, stages')
<1>2. ASSUME NEW s \in Stages, NEW q \in Partitions, NEW t \in Reports,
             ReportSourceWatermarkCall(s, q, t)
      PROVE  Keeps(stages, stages')
    BY <1>2, ReportKeeps, CallAssumption DEF ReportSourceWatermarkCall
<1>3. ASSUME NEW s \in Stages, NEW q \in Partitions, NEW idle \in IdleSettings,
             SetSourcePartitionIdleCall(s, q, idle)
      PROVE  Keeps(stages, stages')
    <2>1. MinTs \in Timestamps /\ idle \in BOOLEAN
        BY TimestampRange, CallAssumption
    <2> QED BY <1>3, <2>1, ReportKeeps DEF SetSourcePartitionIdleCall
<1>4. ASSUME NEW s \in Stages,
             \/ ReportSourceFinishedCall(s) \/ EnqueueBundlesCall(s)
             \/ s \in TimerStages /\ MarkRerunCall(s)
      PROVE  Keeps(stages, stages')
    BY <1>4, FlagsKeep DEF ReportSourceFinishedCall, MarkRerunCall, EnqueueBundlesCall
<1>5. ASSUME NEW s \in Stages, NEW t \in HoldTimes, AddHoldCall(s, t) \/ ReleaseHoldCall(s, t)
      PROVE  Keeps(stages, stages')
    BY <1>5, HoldKeeps, CallAssumption DEF AddHoldCall, ReleaseHoldCall
<1>6. ASSUME NEW s \in Stages, StartBundleCall(s)
      PROVE  Keeps(stages, stages')
    BY <1>6, StartKeeps DEF StartBundleCall
<1>7. ASSUME NEW s \in Stages, NEW mn \in OutputMins, NEW no_input \in BOOLEAN,
             CompleteBundleCall(s, mn, no_input)
      PROVE  Keeps(stages, stages')
    BY <1>7, CompleteKeeps, CallAssumption DEF CompleteBundleCall
<1>8. ASSUME NEW holds \in TimerHoldMaps, SetEventTimeHoldsCall(holds)
      PROVE  Keeps(stages, stages')
    BY <1>8, HoldMapsKeep, CallAssumption DEF SetEventTimeHoldsCall
<1>9. ASSUME NEW holds \in DeferredHoldMaps, SetResidualHoldsCall(holds)
      PROVE  Keeps(stages, stages')
    BY <1>9, HoldMapsKeep, CallAssumption DEF SetResidualHoldsCall
<1>10. \A s \in TimerStages : s \in Stages
    BY CallAssumption
<1> QED BY <1>2, <1>3, <1>4, <1>5, <1>6, <1>7, <1>8, <1>9, <1>10, Zenon DEF PlainCall

LEMMA StepInv ==
    ASSUME Inv(stages), [Next]_stages
    PROVE  Inv(stages') /\ Moves(stages, stages')
<1>1. ASSUME Keeps(stages, stages') PROVE Inv(stages') /\ Moves(stages, stages')
    BY <1>1, KeepsInv, KeepsMoves
<1>2. ASSUME PlainCall PROVE Keeps(stages, stages')
    BY <1>2, PlainCallKeeps
<1>3. ASSUME ReleaseEmptyInputHoldsCall \/ RefreshCall
      PROVE  Inv(stages') /\ Moves(stages, stages')
    BY <1>3, ReleaseEmptyInv, RefreshInv DEF ReleaseEmptyInputHoldsCall, RefreshCall
<1>4. ASSUME UNCHANGED stages PROVE Keeps(stages, stages')
    BY <1>4, StageOf DEF Keeps, KeepsStage, Inv, Managers
<1> QED BY <1>1, <1>2, <1>3, <1>4, Zenon DEF Next

-----------------------------------------------------------------------------
(* Theorems.                                                               *)

IndInv == Inv(stages)

\* The inductive invariant holds in every reachable state: watermarks are
\* ordered along the graph and every bundle is behind its stage.
THEOREM Invariant == Spec => []IndInv
<1>1. Init => IndInv
    BY NewManagerInv DEF Init, IndInv
<1>2. IndInv /\ [Next]_stages => IndInv'
    BY StepInv DEF IndInv
<1> QED BY <1>1, <1>2, PTL DEF Spec

\* Whatever is called, every StageState keeps its shape; in particular refresh
\* finds a watermark for every stage of every acyclic graph.
THEOREM TypeCorrect == Spec => []TypeOK
<1>1. IndInv => TypeOK
    BY DEF IndInv, Inv, TypeOK
<1> QED BY <1>1, Invariant, PTL

\* The watermark a bundle is started with (start_bundle, bundle_input_watermark)
\* is never ahead of the input watermark of its stage.
THEOREM BundlesBehind == Spec => []BundleBehindInput
<1>1. IndInv => BundleBehindInput
    BY DEF IndInv, Inv, Ordered, BundleBehindInput
<1> QED BY <1>1, Invariant, PTL

\* A wave of bundles opens at stage s only behind the rows pending there.
OpensBehind(m, n) ==
    \A s \in Stages : (m[s].in_flight = 0 /\ n[s].in_flight > 0)
        => n[s].watermark_at_last_run <= m[s].pending_min

\* Every call but start_bundle leaves the bundles in flight alone or ends one.
LEMMA OnlyStartsOpen ==
    ASSUME Inv(stages), Next, ~ \E s \in Stages : StartBundleCall(s)
    PROVE  \A c \in Stages : stages'[c].in_flight <= stages[c].in_flight
<1> DEFINE Quiet == \A c \in Stages : stages'[c].in_flight <= stages[c].in_flight
<1>0. stages \in [Stages -> StageState] /\ \A c \in Stages : stages[c].in_flight \in Nat
    BY DEF Inv, Managers, StageState
<1>1. ASSUME NEW s \in Stages, NEW q, NEW part,
             stages' = [stages EXCEPT ![s].partitions[q] = part]
      PROVE  Quiet
    BY <1>0, <1>1 DEF StageState
<1>2. ASSUME NEW s \in Stages, NEW q, NEW t,
             ReportSourceWatermarkCall(s, q, t) \/ SetSourcePartitionIdleCall(s, q, t)
      PROVE  Quiet
    BY <1>1, <1>2, Zenon DEF ReportSourceWatermarkCall, SetSourcePartitionIdleCall,
        ReportSourcePartitionWatermark, SetSourcePartitionIdle
<1>3. ASSUME NEW s \in Stages, NEW v,
             \/ stages' = [stages EXCEPT ![s].finished = v]
             \/ stages' = [stages EXCEPT ![s].queued = v]
             \/ stages' = [stages EXCEPT ![s].rerun_pending = v]
      PROVE  Quiet
    <2>1. CASE stages' = [stages EXCEPT ![s].finished = v]
        BY <1>0, <2>1 DEF StageState
    <2>2. CASE stages' = [stages EXCEPT ![s].queued = v]
        BY <1>0, <2>2 DEF StageState
    <2>3. CASE stages' = [stages EXCEPT ![s].rerun_pending = v]
        BY <1>0, <2>3 DEF StageState
    <2> QED BY <1>3, <2>1, <2>2, <2>3
<1>4. ASSUME NEW s \in Stages, NEW t, NEW v,
             stages' = [stages EXCEPT ![s].watermark_holds[t] = v]
      PROVE  Quiet
    BY <1>0, <1>4 DEF StageState
<1>5. ASSUME NEW holds, SetEventTimeHoldsCall(holds) \/ SetResidualHoldsCall(holds)
      PROVE  Quiet
    BY <1>0, <1>5 DEF SetEventTimeHoldsCall, SetResidualHoldsCall, SetEventTimeHolds,
        SetResidualHolds, StageState
<1>6. ASSUME NEW s \in Stages, NEW mn, NEW no_input, CompleteBundleCall(s, mn, no_input)
      PROVE  Quiet
    <2> DEFINE finished == [stages EXCEPT ![s].in_flight = @ - 1, ![s].completed = TRUE]
               empty == stages[s].pending_empty # {} \/ (mn = None /\ no_input)
               min_ts == IF stages[s].pending_empty # {} THEN MinTs ELSE mn
    <2>1. ASSUME NEW c \in Stages
          PROVE  /\ DOMAIN finished[c] = DOMAIN stages[c]
                 /\ finished[c].in_flight <= stages[c].in_flight
        BY <1>0 DEF StageState
    <2>2. stages' = [c \in Stages |-> Produced(finished[c], c, s, empty, min_ts)]
        BY <1>6, Zenon DEF CompleteBundleCall, CompleteBundle
    <2> HIDE DEF finished, empty, min_ts
    <2>3. ASSUME NEW st, NEW c, "in_flight" \in DOMAIN st
          PROVE  Produced(st, c, s, empty, min_ts).in_flight = st.in_flight
        BY <2>3 DEF Produced
    <2>4. \A c \in Stages : "in_flight" \in DOMAIN finished[c]
        BY <1>0, <2>1 DEF StageState
    <2> QED BY <2>1, <2>2, <2>3, <2>4
<1>7. ASSUME NEW m, NEW c \in Stages, m[c] \in StageState
      PROVE  Refresh(m)[c].in_flight = m[c].in_flight
    <2> DEFINE out == SettledOutput(m)
               i == Higher(m[c].input, ComputeInput(out, c))
    <2>1. Refresh(m)[c] = [m[c] EXCEPT !.input = i, !.output = out[c]]
        BY Zenon DEF Refresh
    <2> HIDE DEF out, i
    <2> QED BY <1>7, <2>1 DEF StageState
<1>8. ASSUME ReleaseEmptyInputHoldsCall \/ RefreshCall PROVE Quiet
    <2>1. ASSUME NEW c \in Stages
          PROVE  /\ ReleaseEmpty(stages)[c] \in StageState
                 /\ ReleaseEmpty(stages)[c].in_flight = stages[c].in_flight
        <3>1. ReleaseEmpty(stages)[c] \in StageState
            BY ReleaseEmptyKeeps DEF Keeps, KeepsStage
        <3>2. ReleaseEmpty(stages)[c].in_flight = stages[c].in_flight
            <4> DEFINE us == stages[c].unproduced_side_inputs
                                \ (stages[c].pending_empty \cap SideInputs[c])
            <4>1. ReleaseEmpty(stages)[c] =
                    [stages[c] EXCEPT !.pending_empty = {}, !.unproduced_side_inputs = us]
                BY Zenon DEF ReleaseEmpty
            <4> HIDE DEF us
            <4> QED BY <1>0, <4>1 DEF StageState
        <3> QED BY <3>1, <3>2
    <2>2. \/ stages' = stages \/ stages' = Refresh(stages)
          \/ stages' = Refresh(ReleaseEmpty(stages))
        BY <1>8, Zenon DEF ReleaseEmptyInputHoldsCall, RefreshCall, ReleaseEmptyInputHolds
    <2>3. \A c \in Stages : stages'[c].in_flight = stages[c].in_flight
        BY <1>0, <1>7, <2>1, <2>2, Zenon
    <2> QED BY <1>0, <2>3
<1>9. TimerStages \subseteq Stages
    BY CallAssumption
<1> HIDE DEF Quiet
<1>10. Quiet
    BY <1>2, <1>3, <1>4, <1>5, <1>6, <1>8, <1>9, Zenon DEF Next, PlainCall,
        ReportSourceFinishedCall, EnqueueBundlesCall, MarkRerunCall, AddHoldCall,
        ReleaseHoldCall, ReportSourceFinished, EnqueueBundles, MarkRerun, AddHold, ReleaseHold
<1> QED BY <1>10 DEF Quiet

\* Neither start_bundle nor any other call opens a wave ahead of pending rows.
LEMMA StepOpensBehind ==
    ASSUME Inv(stages), [Next]_stages
    PROVE  OpensBehind(stages, stages')
<1>0. stages \in [Stages -> StageState] /\ \A c \in Stages : stages[c].in_flight \in Nat
    BY DEF Inv, Managers, StageState
<1>1. ASSUME NEW s \in Stages, StartBundleCall(s) PROVE OpensBehind(stages, stages')
    <2>1. \A c \in Stages : c # s => stages'[c] = stages[c]
        BY <1>0, <1>1 DEF StartBundleCall, StartBundle
    <2>2. stages[s].in_flight = 0 =>
            stages'[s].watermark_at_last_run = EffectiveInputWatermark(stages, s)
        BY <1>0, <1>1 DEF StartBundleCall, StartBundle, StageState
    <2>3. EffectiveInputWatermark(stages, s) <= stages[s].pending_min
        BY <1>0 DEF EffectiveInputWatermark, Lower, StageState, Timestamps
    <2> QED BY <1>0, <2>1, <2>2, <2>3 DEF OpensBehind
<1>2. CASE UNCHANGED stages
    BY <1>0, <1>2 DEF OpensBehind
<1>3. CASE Next /\ ~ \E s \in Stages : StartBundleCall(s)
    <2>1. \A c \in Stages : stages'[c].in_flight <= stages[c].in_flight
        BY <1>3, OnlyStartsOpen
    <2>2. \A c \in Stages : stages'[c].in_flight \in Nat
        BY StepInv DEF Inv, Managers, StageState
    <2> QED BY <1>0, <2>1, <2>2 DEF OpensBehind
<1> QED BY <1>1, <1>2, <1>3

\* The watermark handed to a wave of bundles is not ahead of the rows pending
\* when start_bundle opened it, although start_bundle clears their minimum.
THEOREM WavesBehindPending == Spec => WaveBehindPending
<1>1. IndInv /\ [Next]_stages => OpensBehind(stages, stages')
    BY StepOpensBehind DEF IndInv
<1>2. OpensBehind(stages, stages') =>
        [\A s \in Stages : (stages[s].in_flight = 0 /\ stages'[s].in_flight > 0)
            => stages'[s].watermark_at_last_run <= stages[s].pending_min]_stages
    BY DEF OpensBehind
<1> QED BY <1>1, <1>2, Invariant, PTL DEF Spec, WaveBehindPending

\* A step between ordered states that moves no watermark back or past a hold is
\* a step of the contract.
LEMMA ContractStep ==
    ASSUME Inv(stages'), Moves(stages, stages')
    PROVE  Contract!Next
<1> DEFINE ins == [s \in Stages |-> stages[s].input]
           outs == [s \in Stages |-> stages[s].output]
           helds == [s \in Stages |-> HeldAt(stages[s])]
<1>2. \A s \in Stages : stages'[s] \in StageState /\ HeldAt(stages'[s]) \in SUBSET Timestamps
    BY DEF Inv, Managers, HeldAt
<1>3. /\ ins' \in [Stages -> Timestamps]
      /\ outs' \in [Stages -> Timestamps]
      /\ helds' \in [Stages -> SUBSET Timestamps]
    BY <1>2 DEF StageState
<1>4. ASSUME NEW s \in Stages
      PROVE  /\ ins'[s] >= ins[s] /\ outs'[s] >= outs[s]
             /\ outs'[s] > outs[s] => \A h \in helds'[s] : outs'[s] <= h
    BY DEF Moves
<1>5. ASSUME NEW s \in Stages
      PROVE  /\ \A p \in MainInputs[s] : outs'[s] <= outs'[p]
             /\ MainInputs[s] # {} =>
                  \A p \in MainInputs[s] \cup SideInputs[s] : ins'[s] <= outs'[p]
    <2>1. MainInputs[s] \subseteq Stages /\ SideInputs[s] \subseteq Stages
        BY GraphAssumption
    <2>2. /\ \A p \in MainInputs[s] : stages'[s].output <= stages'[p].output
          /\ MainInputs[s] # {} => \A p \in MainInputs[s] \cup SideInputs[s] :
                stages'[s].input <= stages'[p].output
        BY DEF Inv, Ordered, IsSource, Producers
    <2> QED BY <2>1, <2>2
<1> QED BY <1>3, <1>4, <1>5
        DEF Contract!Next, Contract!NoRegress, Contract!BehindProducers,
            Contract!RespectsHolds, Contract!Timestamps, Timestamps

LEMMA ContractInit == Init => Contract!Init
<1> SUFFICES ASSUME Init PROVE Contract!Init
    OBVIOUS
<1>1. ASSUME NEW s \in Stages
      PROVE  /\ stages[s].output = MinTs
             /\ stages[s].input = IF MainInputs[s] = {} THEN MaxTs ELSE MinTs
             /\ stages[s].watermark_holds = NoHolds /\ stages[s].residual_holds = NoHolds
    BY DEF Init, NewManager, AddStage, IsSource
<1>2. ASSUME NEW s \in Stages PROVE HeldAt(stages[s]) = {}
    BY <1>1 DEF HeldAt, NoHolds
<1> QED BY <1>1, <1>2 DEF Contract!Init

\* The manager implements WatermarkContract for any sequence of calls: no
\* watermark moves back, passes a producer or moves past a hold.
THEOREM Refinement == Spec => ImplementsContract
<1>1. IndInv /\ [Next]_stages => [Contract!Next]_(Contract!vars)
    BY StepInv, ContractStep DEF IndInv
<1> QED BY <1>1, ContractInit, Invariant, PTL DEF Spec, ImplementsContract, Contract!Spec
=============================================================================
