---------------------- MODULE WatermarkRefresh_proofs -----------------------
(***************************************************************************)
(* The loop of refresh, for every graph and every order of the ids: it     *)
(* ends where nothing is left to advance, which is Refresh, and every      *)
(* assignment in it keeps the contract.                                    *)
(***************************************************************************)
EXTENDS WatermarkRefresh, WatermarkManager_proofs, WatermarkVisit_proofs

-----------------------------------------------------------------------------
(* The loop.                                                               *)

\* The manager state in which refresh was entered.
Entered == IF releasing THEN ReleaseEmpty(called) ELSE called

Differs(m, n, s) == n[s].input # m[s].input \/ n[s].output # m[s].output

\* A round that has changed nothing leaves the stages it visited settled; over
\* all rounds, the stages noted are those whose watermarks differ.
InLoop ==
    /\ Climbs(Entered, stages)
    /\ ~changed => \A i \in 1..(next - 1) : NothingToAdvance(stages, Order[i])
    /\ advanced = {s \in Stages : Differs(called, stages, s)}

LoopInv ==
    /\ Inv(called) /\ Inv(stages)
    /\ releasing \in BOOLEAN /\ changed \in BOOLEAN
    /\ next \in 0..(Len(Order) + 1)
    /\ next = 0 => called = stages /\ ~releasing
    /\ releasing => EmptyHeld(called) # {}
    /\ next # 0 => InLoop

LEMMA OrderFacts ==
    /\ Len(Order) \in Nat /\ DOMAIN Order = 1..Len(Order)
    /\ \A i \in 1..Len(Order) : Order[i] \in Stages
    /\ \A s \in Stages : \E i \in 1..Len(Order) : Order[i] = s
    BY OrderAssumption

\* refresh is entered with the watermarks of the call.
LEMMA EnteredInv ==
    ASSUME Inv(called)
    PROVE  /\ Inv(Entered) /\ Entered \in Managers
           /\ \A s \in Stages : /\ Entered[s].input = called[s].input
                                /\ Entered[s].output = called[s].output
<1>1. Keeps(called, ReleaseEmpty(called))
    BY ReleaseEmptyKeeps
<1>2. Inv(ReleaseEmpty(called))
    BY <1>1, KeepsInv
<1> QED BY <1>1, <1>2 DEF Entered, Keeps, KeepsStage, Inv

\* The step Visit in terms of Visited.
LEMMA VisitStep ==
    ASSUME LoopInv, Visit, NEW s, s = Order[next]
    PROVE  LET moves == \/ ComputeInput(OutputsOf(stages), s) > stages[s].input
                        \/ ComputeOutput(stages, OutputsOf(stages), s) > stages[s].output
           IN  /\ s \in Stages /\ next \in 1..Len(Order) /\ next' = next + 1
               /\ stages' = Visited(stages, s)
               /\ changed' = (changed \/ moves)
               /\ advanced' = IF moves THEN advanced \cup {s} ELSE advanced
               /\ called' = called /\ releasing' = releasing
<1> DEFINE i == ComputeInput(OutputsOf(stages), s)
           o == ComputeOutput(stages, OutputsOf(stages), s)
<1>1. next \in 1..Len(Order) /\ s \in Stages
    BY OrderFacts DEF Visit
<1>2. stages \in Managers
    BY DEF LoopInv, Inv
<1>3. i \in Timestamps /\ o \in Timestamps
    BY <1>1, <1>2, VisitedStage
<1>4. stages[s].input \in Int /\ stages[s].output \in Int /\ i \in Int /\ o \in Int
    BY <1>1, <1>2, <1>3, TimestampRange DEF Managers, StageState
<1>5. /\ stages' = [stages EXCEPT ![s].input = Assign(@, i), ![s].output = Assign(@, o)]
      /\ changed' = (changed \/ Advances(i, stages[s].input) \/ Advances(o, stages[s].output))
      /\ advanced' = Note(s, Advances(i, stages[s].input) \/ Advances(o, stages[s].output))
      /\ next' = next + 1 /\ called' = called /\ releasing' = releasing
    BY Zenon DEF Visit, OutputsOf
<1> HIDE DEF i, o
<1>6. /\ Assign(stages[s].input, i) = Higher(stages[s].input, i)
      /\ Assign(stages[s].output, o) = Higher(stages[s].output, o)
    BY <1>4 DEF Assign, Advances, Higher
<1> DEFINE hi == Higher(stages[s].input, i)
           ho == Higher(stages[s].output, o)
           ai == Assign(stages[s].input, i)
           ao == Assign(stages[s].output, o)
<1>7. stages' = [stages EXCEPT ![s] = [stages[s] EXCEPT !.input = hi, !.output = ho]]
    <2>1. stages \in [Stages -> StageState]
        BY <1>2 DEF Managers
    <2>2. stages' = [stages EXCEPT ![s].input = ai, ![s].output = Assign(@, o)]
        BY <1>5, Zenon
    <2>3. [stages EXCEPT ![s].input = ai][s].output = stages[s].output
        BY <2>1, <1>1 DEF StageState
    <2>4. stages' = [stages EXCEPT ![s].input = ai, ![s].output = ao]
        BY <2>2, <2>3
    <2> HIDE DEF hi, ho, ai, ao
    <2>5. [stages EXCEPT ![s].input = ai, ![s].output = ao]
            = [stages EXCEPT ![s] = [stages[s] EXCEPT !.input = ai, !.output = ao]]
        BY <2>1, <1>1
    <2>6. ai = hi /\ ao = ho
        BY <1>6 DEF hi, ho, ai, ao
    <2> QED BY <2>4, <2>5, <2>6
<1>8. Visited(stages, s) = [stages EXCEPT ![s] = [stages[s] EXCEPT !.input = hi, !.output = ho]]
    BY DEF Visited, i, o
<1> QED BY <1>1, <1>5, <1>7, <1>8, Zenon DEF Advances, Note, i, o

\* A visit that moves nothing changes nothing.
LEMMA NoMove ==
    ASSUME NEW m \in Managers, NEW s \in Stages
    PROVE  LET moves == \/ ComputeInput(OutputsOf(m), s) > m[s].input
                        \/ ComputeOutput(m, OutputsOf(m), s) > m[s].output
           IN  /\ ~moves => Visited(m, s) = m /\ NothingToAdvance(m, s)
               /\ moves => \/ Visited(m, s)[s].input > m[s].input
                           \/ Visited(m, s)[s].output > m[s].output
<1> DEFINE i == ComputeInput(OutputsOf(m), s)
           o == ComputeOutput(m, OutputsOf(m), s)
           v == Visited(m, s)
<1>1. /\ i \in Timestamps /\ o \in Timestamps /\ v \in Managers
      /\ SameButWatermarks(m[s], v[s])
      /\ v[s].input = Higher(m[s].input, i) /\ v[s].output = Higher(m[s].output, o)
      /\ \A c \in Stages : c # s => v[c] = m[c]
    BY VisitedStage
<1>2. m[s] \in StageState /\ m[s].input \in Int /\ m[s].output \in Int /\ i \in Int /\ o \in Int
    BY <1>1, TimestampRange DEF Managers, StageState
<1>3. NothingToAdvance(m, s) <=> i <= m[s].input /\ o <= m[s].output
    BY DEF NothingToAdvance, OutputsOf
<1> HIDE DEF i, o, v
<1>4. (i > m[s].input => v[s].input > m[s].input) /\ (o > m[s].output => v[s].output > m[s].output)
    BY <1>1, <1>2 DEF Higher
<1>5. ASSUME ~(i > m[s].input), ~(o > m[s].output)
      PROVE  v = m /\ NothingToAdvance(m, s)
    <2>1. v[s].input = m[s].input /\ v[s].output = m[s].output
        BY <1>1, <1>2, <1>5 DEF Higher
    <2>2. v[s] = m[s]
        <3>1. v[s] = [m[s] EXCEPT !.input = m[s].input, !.output = m[s].output]
            BY <1>1, <2>1, Zenon DEF SameButWatermarks
        <3> QED BY <3>1, <1>2 DEF StageState
    <2>3. v = m
        BY <1>1, <2>2 DEF Managers
    <2> QED BY <2>3, <1>2, <1>3, <1>5
<1> QED BY <1>4, <1>5 DEF i, o, v

LEMMA VisitKeepsLoop ==
    ASSUME LoopInv, Visit
    PROVE  LoopInv'
<1> DEFINE s == Order[next]
           moves == \/ ComputeInput(OutputsOf(stages), s) > stages[s].input
                    \/ ComputeOutput(stages, OutputsOf(stages), s) > stages[s].output
<1>1. /\ s \in Stages /\ next \in 1..Len(Order) /\ next' = next + 1
      /\ stages' = Visited(stages, s)
      /\ changed' = (changed \/ moves)
      /\ advanced' = IF moves THEN advanced \cup {s} ELSE advanced
      /\ called' = called /\ releasing' = releasing
    BY VisitStep
<1>2. InLoop /\ stages \in Managers /\ Inv(stages) /\ Inv(called)
    BY <1>1, OrderFacts DEF LoopInv, Inv
<1>3. /\ ~moves => stages' = stages /\ NothingToAdvance(stages, s)
      /\ moves => stages'[s].input > stages[s].input \/ stages'[s].output > stages[s].output
    BY <1>1, <1>2, NoMove
<1>4. Inv(stages') /\ Moves(stages, stages')
    BY <1>1, <1>2, VisitInv
<1>5. /\ Entered \in Managers
      /\ \A c \in Stages : Entered[c].input = called[c].input /\ Entered[c].output = called[c].output
    BY <1>2, EnteredInv
<1>6. Climbs(Entered, stages')
    BY <1>1, <1>2, <1>5, VisitClimbs DEF InLoop
<1>7. Entered' = Entered
    BY <1>1 DEF Entered
<1>8. ~changed' => \A k \in 1..(next' - 1) : NothingToAdvance(stages', Order[k])
    <2>1. ASSUME ~changed', NEW k \in 1..(next' - 1)
          PROVE  NothingToAdvance(stages', Order[k])
        <3>1. ~changed /\ ~moves
            BY <1>1, <2>1, Zenon
        <3>2. k \in 1..(next - 1) \/ k = next
            BY <1>1, <2>1
        <3>3. stages' = stages
            BY <3>1, <1>3
        <3>4. NothingToAdvance(stages, Order[k])
            BY <3>1, <3>2, <1>2, <1>3 DEF InLoop
        <3> QED BY <3>3, <3>4
    <2> QED BY <2>1
<1>9. advanced' = {c \in Stages : Differs(called, stages', c)}
    <2>1. ASSUME NEW c \in Stages
          PROVE  Differs(called, stages', c) <=> Differs(called, stages, c) \/ (moves /\ c = s)
        <3>1. /\ called[c].input \in Int /\ called[c].output \in Int
              /\ stages[c].input \in Int /\ stages[c].output \in Int
              /\ stages'[c].input \in Int /\ stages'[c].output \in Int
            BY <1>2, <1>4, TimestampRange DEF Inv, Managers, StageState
        <3>2. called[c].input <= stages[c].input /\ called[c].output <= stages[c].output
            BY <1>2, <1>5 DEF InLoop, Climbs
        <3>3. stages[c].input <= stages'[c].input /\ stages[c].output <= stages'[c].output
            BY <1>4, <3>1 DEF Moves
        <3>4. c # s => stages'[c] = stages[c]
            BY <1>1, <1>2, VisitedStage
        <3>5. CASE moves /\ c = s
            <4>1. stages'[c].input > stages[c].input \/ stages'[c].output > stages[c].output
                BY <1>3, <3>5
            <4>2. Differs(called, stages', c)
                BY <4>1, <3>1, <3>2, <3>3 DEF Differs
            <4> QED BY <4>2, <3>5, Zenon
        <3>6. CASE ~(moves /\ c = s)
            <4>1. stages'[c] = stages[c]
                BY <1>3, <3>4, <3>6
            <4> QED BY <4>1, <3>6 DEF Differs
        <3> QED BY <3>5, <3>6
    <2>2. advanced = {c \in Stages : Differs(called, stages, c)}
        BY <1>2 DEF InLoop
    <2>3. advanced' = {c \in Stages : c \in advanced \/ (moves /\ c = s)}
        BY <1>1, <2>2
    <2> HIDE DEF moves, s
    <2> QED BY <2>1, <2>2, <2>3
<1>10. InLoop'
    BY <1>1, <1>6, <1>7, <1>8, <1>9 DEF InLoop
<1>11. /\ next' \in 0..(Len(Order) + 1) /\ next' # 0 /\ changed' \in BOOLEAN
    BY <1>1, OrderFacts DEF LoopInv
<1> QED BY <1>1, <1>2, <1>4, <1>10, <1>11 DEF LoopInv

\* The loop ends where nothing is left to advance, and that is Refresh.
LEMMA LoopEnds ==
    ASSUME LoopInv, next = Len(Order) + 1, ~changed
    PROVE  /\ \A s \in Stages : NothingToAdvance(stages, s)
           /\ stages = Refresh(Entered)
<1>1. InLoop
    BY OrderFacts DEF LoopInv
<1>2. \A i \in 1..Len(Order) : NothingToAdvance(stages, Order[i])
    BY <1>1, OrderFacts DEF InLoop
<1>3. \A s \in Stages : NothingToAdvance(stages, s)
    BY <1>2, OrderFacts
<1>4. Entered \in Managers
    BY EnteredInv DEF LoopInv
<1> QED BY <1>1, <1>3, <1>4, StuckIsRefresh DEF InLoop

LEMMA EnterKeepsLoop ==
    ASSUME LoopInv, RefreshEnters \/ ReleaseEnters
    PROVE  LoopInv' /\ Keeps(stages, stages')
<1>0. next = 0 /\ called = stages /\ Inv(called)
    BY DEF LoopInv, RefreshEnters, ReleaseEnters
<1>1. /\ next' = 1 /\ changed' = FALSE /\ advanced' = {} /\ called' = called
      /\ releasing' \in BOOLEAN
      /\ stages' = IF releasing' THEN ReleaseEmpty(called) ELSE called
      /\ releasing' => EmptyHeld(called) # {}
    BY <1>0 DEF RefreshEnters, ReleaseEnters, EnterLoop
<1>2. Keeps(called, called)
    BY <1>0, StageOf DEF Keeps, KeepsStage, Inv, Managers
<1>3. Keeps(called, stages')
    BY <1>0, <1>1, <1>2, ReleaseEmptyKeeps
<1>4. Inv(stages')
    BY <1>0, <1>3, KeepsInv
<1>5. Entered' = stages'
    BY <1>1 DEF Entered
<1>6. Climbs(Entered', stages')
    BY <1>4, <1>5, ClimbStarts DEF Inv
<1>7. \A s \in Stages : ~Differs(called', stages', s)
    BY <1>1, <1>3 DEF Differs, Keeps, KeepsStage
<1>8. InLoop'
    BY <1>1, <1>6, <1>7 DEF InLoop
<1>9. next' \in 0..(Len(Order) + 1) /\ next' # 0
    BY <1>1, OrderFacts
<1>10. changed' \in BOOLEAN
    BY <1>1, Zenon
<1> QED BY <1>0, <1>1, <1>3, <1>4, <1>8, <1>9, <1>10 DEF LoopInv

LEMMA RoundKeepsLoop ==
    ASSUME LoopInv, RoundEnds
    PROVE  LoopInv' /\ stages' = stages
<1>1. /\ next = Len(Order) + 1 /\ changed' = FALSE /\ stages' = stages /\ advanced' = advanced
    BY DEF RoundEnds
<1>2. InLoop /\ Inv(stages) /\ Inv(called)
    BY <1>1, OrderFacts DEF LoopInv
<1>3. CASE changed
    <2>1. next' = 1 /\ called' = called /\ releasing' = releasing
        BY <1>3 DEF RoundEnds, RoundIsLast
    <2>2. Entered' = Entered
        BY <2>1 DEF Entered
    <2>3. InLoop'
        BY <1>1, <1>2, <2>1, <2>2 DEF InLoop, Differs
    <2>4. next' \in 0..(Len(Order) + 1) /\ next' # 0
        BY <2>1, OrderFacts
    <2>5. changed' \in BOOLEAN
        BY <1>1, Zenon
    <2> QED BY <1>1, <1>2, <2>1, <2>3, <2>4, <2>5 DEF LoopInv
<1>4. CASE ~changed
    <2>1. next' = 0 /\ called' = stages /\ releasing' = FALSE
        BY <1>4 DEF RoundEnds, RoundIsLast
    <2>2. next' \in 0..(Len(Order) + 1)
        BY <2>1, OrderFacts
    <2> QED BY <1>1, <1>2, <2>1, <2>2 DEF LoopInv
<1> QED BY <1>3, <1>4

LEMMA LoopStep ==
    ASSUME LoopInv, [RefreshNext]_refreshVars
    PROVE  LoopInv' /\ Moves(stages, stages')
<1>1. CASE Call
    <2>1. /\ called' = stages' /\ next = 0 /\ next' = 0 /\ releasing' = releasing
          /\ changed' = changed
        BY <1>1 DEF Call, loopVars
    <2>2. Inv(stages) /\ called = stages
        BY <2>1 DEF LoopInv
    <2>3. Keeps(stages, stages')
        BY <1>1, <2>2, PlainCallKeeps DEF Call
    <2>4. Inv(stages') /\ Moves(stages, stages')
        BY <2>2, <2>3, KeepsInv, KeepsMoves
    <2>5. ~releasing
        BY <2>1 DEF LoopInv
    <2> QED BY <2>1, <2>4, <2>5 DEF LoopInv
<1>2. CASE RefreshEnters \/ ReleaseEnters
    BY <1>2, EnterKeepsLoop, KeepsMoves DEF LoopInv
<1>3. CASE Visit
    <2>1. PICK s : s = Order[next]
        OBVIOUS
    <2>2. s \in Stages /\ stages' = Visited(stages, s) /\ Inv(stages)
        BY <1>3, <2>1, VisitStep DEF LoopInv
    <2> QED BY <1>3, <2>2, VisitInv, VisitKeepsLoop
<1>4. Moves(stages, stages)
    <2>1. Keeps(stages, stages) /\ Inv(stages)
        BY StageOf DEF Keeps, KeepsStage, LoopInv, Inv, Managers
    <2> QED BY <2>1, KeepsMoves
<1>5. CASE RoundEnds
    BY <1>4, <1>5, RoundKeepsLoop
<1>6. CASE UNCHANGED refreshVars
    BY <1>4, <1>6 DEF refreshVars, loopVars, LoopInv, InLoop, Entered, Differs
<1> QED BY <1>1, <1>2, <1>3, <1>5, <1>6 DEF RefreshNext

-----------------------------------------------------------------------------
(* Theorems.                                                               *)

\* Throughout the loop of refresh the manager is between the state in which the
\* loop was entered and the settled one, and a round that has changed nothing
\* has left nothing to advance behind it.
THEOREM LoopInvariant == RefreshSpec => []LoopInv
<1>1. RefreshInit => LoopInv
    <2> SUFFICES ASSUME RefreshInit PROVE LoopInv
        OBVIOUS
    <2>1. /\ stages = NewManager /\ called = stages
          /\ ~releasing /\ releasing \in BOOLEAN /\ changed \in BOOLEAN
        BY Zenon DEF RefreshInit, Init
    <2>2. next = 0 /\ 0 \in 0..(Len(Order) + 1)
        BY OrderFacts DEF RefreshInit
    <2> QED BY <2>1, <2>2, NewManagerInv, Zenon DEF LoopInv
<1>2. LoopInv /\ [RefreshNext]_refreshVars => LoopInv'
    BY LoopStep
<1> QED BY <1>1, <1>2, PTL DEF RefreshSpec

\* When refresh returns, no stage is left to advance, for every graph and every
\* order in which the ids are visited.
THEOREM RefreshReachesFixpoint == RefreshSpec => RefreshSettles
<1>1. ASSUME LoopInv, [RefreshNext]_refreshVars, Returns
      PROVE  \A s \in Stages : NothingToAdvance(stages', s)
    <2>1. RoundEnds /\ ~changed
        BY <1>1 DEF Returns, RefreshNext, Call, RefreshEnters, ReleaseEnters, EnterLoop,
                    Visit, RoundEnds, RoundIsLast, refreshVars, loopVars, LoopInv
    <2>2. next = Len(Order) + 1 /\ stages' = stages
        BY <2>1 DEF RoundEnds
    <2>3. \A s \in Stages : NothingToAdvance(stages, s)
        BY <1>1, <2>1, <2>2, LoopEnds
    <2> QED BY <2>2, <2>3
<1>2. LoopInv /\ [RefreshNext]_refreshVars =>
        [Returns => \A s \in Stages : NothingToAdvance(stages', s)]_refreshVars
    BY <1>1
<1> QED BY <1>2, LoopInvariant, PTL DEF RefreshSpec, RefreshSettles

\* refresh returns exactly the stages whose watermarks differ from those before
\* the call.
THEOREM ReportsMoves == RefreshSpec => AdvancedReported
<1>1. ASSUME LoopInv, [RefreshNext]_refreshVars, Returns
      PROVE  advanced' = {s \in Stages : Moved(s)}
    <2>1. RoundEnds /\ ~changed
        BY <1>1 DEF Returns, RefreshNext, Call, RefreshEnters, ReleaseEnters, EnterLoop,
                    Visit, RoundEnds, RoundIsLast, refreshVars, loopVars, LoopInv
    <2>2. next = Len(Order) + 1 /\ stages' = stages /\ advanced' = advanced
        BY <2>1 DEF RoundEnds
    <2>3. InLoop
        BY <1>1, <2>2, OrderFacts DEF LoopInv
    <2> QED BY <2>2, <2>3 DEF InLoop, Moved, Differs
<1>2. LoopInv /\ [RefreshNext]_refreshVars =>
        [Returns => advanced' = {s \in Stages : Moved(s)}]_refreshVars
    BY <1>1
<1> QED BY <1>2, LoopInvariant, PTL DEF RefreshSpec, AdvancedReported

\* The contract holds at every single assignment of the loop, not only for the
\* call as a whole: no watermark moves back, passes a producer or moves past a
\* hold between two visits.
THEOREM LoopRefinement == RefreshSpec => ImplementsContract
<1>1. LoopInv /\ [RefreshNext]_refreshVars => [Contract!Next]_(Contract!vars)
    BY LoopStep, ContractStep DEF LoopInv
<1>2. RefreshInit => Contract!Init
    BY ContractInit DEF RefreshInit
<1> QED BY <1>1, <1>2, LoopInvariant, PTL DEF RefreshSpec, ImplementsContract, Contract!Spec
=============================================================================
