----------------------- MODULE WatermarkVisit_proofs ------------------------
(***************************************************************************)
(* One visit of the loop of refresh, as a step of the manager state: what  *)
(* it computes, and that visits climb to Refresh and stop nowhere else.    *)
(***************************************************************************)
EXTENDS WatermarkState_proofs

OutputsOf(m) == [s \in Stages |-> m[s].output]

\* What a visit of stage s makes of the manager.
Visited(m, s) ==
    [m EXCEPT ![s] =
        [m[s] EXCEPT !.input = Higher(m[s].input, ComputeInput(OutputsOf(m), s)),
                     !.output = Higher(m[s].output, ComputeOutput(m, OutputsOf(m), s))]]

-----------------------------------------------------------------------------
(* compute_input and compute_output.                                       *)

LEMMA OutputsOfType ==
    ASSUME NEW m \in Managers
    PROVE  OutputsOf(m) \in Outputs
    BY DEF OutputsOf, Outputs, Managers, StageState

LEMMA ComputeOutputReached ==
    ASSUME NEW m \in Managers, NEW output \in Outputs, NEW s \in Stages
    PROVE  /\ ComputeOutput(m, output, s) \in Limits(m, output, s)
           /\ Limits(m, output, s) \in SUBSET (Timestamps \cup {None})
<1> DEFINE L == Limits(m, output, s)
<1>0. m[s] \in StageState /\ MainInputs[s] \in SUBSET Stages
    BY GraphAssumption DEF Managers
<1>1. OwnLimits(m[s]) \in SUBSET (Timestamps \cup {None})
    BY <1>0, HoldBounds, TimestampRange DEF OwnLimits, OutstandingBundle, StageState
<1>2. L \in SUBSET (Timestamps \cup {None})
    BY <1>0, <1>1, SourceOutputType DEF Limits, StageState, Outputs
<1>3. L # {}
    BY DEF Limits, OwnLimits
<1>4. Min(L) \in L
    BY <1>2, <1>3, MinLeast
<1>5. ComputeOutput(m, output, s) = Min(L)
    BY DEF ComputeOutput, Limits
<1> QED BY <1>2, <1>4, <1>5

LEMMA ComputeInputIsMin ==
    ASSUME NEW output \in Outputs, NEW s \in Stages
    PROVE  /\ ComputeInput(output, s) \in Timestamps
           /\ ComputeInput(output, s) <= MaxTs
           /\ ~IsSource(s) =>
                /\ \A p \in Producers(s) : ComputeInput(output, s) <= output[p]
                /\ ComputeInput(output, s) \in {output[p] : p \in Producers(s)} \cup {MaxTs}
<1> DEFINE I == {output[p] : p \in Producers(s)} \cup {MaxTs}
<1>1. Producers(s) \subseteq Stages /\ MaxTs \in Timestamps
    BY GraphAssumption, TimestampRange DEF Producers
<1>2. I \in SUBSET Timestamps /\ I \in SUBSET (Timestamps \cup {None}) /\ I # {}
    BY <1>1 DEF Outputs
<1>3. Min(I) \in I /\ \A t \in I : Min(I) <= t
    BY <1>2, MinLeast
<1>4. /\ Min(I) \in Timestamps /\ Min(I) <= MaxTs
      /\ \A p \in Producers(s) : Min(I) <= output[p]
    BY <1>2, <1>3
<1>5. ~IsSource(s) => ComputeInput(output, s) = Min(I)
    BY DEF ComputeInput
<1>6. IsSource(s) => ComputeInput(output, s) = MaxTs
    BY DEF ComputeInput
<1> HIDE DEF I
<1>7. MaxTs <= MaxTs
    BY TimestampRange
<1>8. ~IsSource(s) => ComputeInput(output, s) \in I
    BY <1>3, <1>5
<1> QED BY <1>1, <1>4, <1>5, <1>6, <1>7, <1>8 DEF I

\* Higher outputs upstream never lower what a stage computes.
LEMMA ComputeMonotone ==
    ASSUME NEW m \in Managers, NEW f \in Outputs, NEW g \in Outputs, NEW s \in Stages,
           \A p \in Stages : f[p] <= g[p]
    PROVE  /\ ComputeOutput(m, f, s) <= ComputeOutput(m, g, s)
           /\ ComputeInput(f, s) <= ComputeInput(g, s)
<1>1. MainInputs[s] \subseteq Stages /\ Producers(s) \subseteq Stages
    BY GraphAssumption DEF Producers
<1>2. \A p \in Stages : f[p] \in Int /\ g[p] \in Int
    BY TimestampRange DEF Outputs
<1>3. ComputeOutput(m, f, s) <= ComputeOutput(m, g, s)
    <2>1. /\ ComputeOutput(m, f, s) \in Int
          /\ \A l \in Limits(m, f, s) : ComputeOutput(m, f, s) <= l
        BY ComputeOutputIsMin, TimestampRange
    <2>2. ComputeOutput(m, g, s) \in Limits(m, g, s)
        BY ComputeOutputReached
    <2>3. CASE ComputeOutput(m, g, s) \in Limits(m, f, s)
        BY <2>1, <2>3
    <2>4. CASE ComputeOutput(m, g, s) \notin Limits(m, f, s)
        <3>1. ~IsSource(s) /\ ComputeOutput(m, g, s) \in {g[p] : p \in MainInputs[s]}
            BY <2>2, <2>4, Zenon DEF Limits
        <3>2. PICK p \in MainInputs[s] : ComputeOutput(m, g, s) = g[p]
            BY <3>1
        <3>3. f[p] \in Limits(m, f, s)
            BY <3>1 DEF Limits
        <3>4. ComputeOutput(m, f, s) <= f[p] /\ f[p] <= g[p] /\ f[p] \in Int /\ g[p] \in Int
            BY <3>3, <2>1, <1>1, <1>2
        <3> QED BY <3>2, <3>4, <2>1
    <2> QED BY <2>3, <2>4
<1>4. ComputeInput(f, s) <= ComputeInput(g, s)
    <2>1. ComputeInput(f, s) \in Int /\ ComputeInput(g, s) \in Int /\ ComputeInput(f, s) <= MaxTs
        BY ComputeInputIsMin, TimestampRange
    <2>2. CASE IsSource(s)
        BY <2>1, <2>2 DEF ComputeInput
    <2>3. CASE ~IsSource(s)
        <3>1. /\ \A p \in Producers(s) : ComputeInput(f, s) <= f[p]
              /\ ComputeInput(g, s) \in {g[p] : p \in Producers(s)} \cup {MaxTs}
            BY <2>3, ComputeInputIsMin
        <3>2. CASE ComputeInput(g, s) = MaxTs
            BY <3>2, <2>1
        <3>3. CASE ComputeInput(g, s) # MaxTs
            <4>1. PICK p \in Producers(s) : ComputeInput(g, s) = g[p]
                BY <3>1, <3>3
            <4>2. ComputeInput(f, s) <= f[p] /\ f[p] <= g[p] /\ f[p] \in Int /\ g[p] \in Int
                BY <3>1, <1>1, <1>2
            <4> QED BY <4>1, <4>2, <2>1
        <3> QED BY <3>2, <3>3
    <2> QED BY <2>2, <2>3
<1> QED BY <1>3, <1>4

-----------------------------------------------------------------------------
(* Between the entry of the loop in state e and its end.                   *)

\* The loop touches watermarks only, and leaves the rest of a stage alone.
SameButWatermarks(st, new) ==
    new = [st EXCEPT !.input = new.input, !.output = new.output]

\* n is on the way from e to Refresh(e).
Climbs(e, n) ==
    /\ n \in Managers
    /\ \A s \in Stages :
        /\ SameButWatermarks(e[s], n[s])
        /\ e[s].output <= n[s].output /\ n[s].output <= SettledOutput(e)[s]
        /\ e[s].input <= n[s].input
        /\ n[s].input <= Higher(e[s].input, ComputeInput(SettledOutput(e), s))

\* compute_output does not read the stage's own watermarks.
LEMMA SameCompute ==
    ASSUME NEW e \in Managers, NEW n \in Managers, NEW output, NEW s \in Stages,
           SameButWatermarks(e[s], n[s])
    PROVE  /\ ComputeOutput(n, output, s) = ComputeOutput(e, output, s)
           /\ HeldAt(n[s]) = HeldAt(e[s])
           /\ n[s].watermark_at_last_run = e[s].watermark_at_last_run
<1> DEFINE st == e[s]
           new == n[s]
           i == n[s].input
           o == n[s].output
<1>1. st \in StageState /\ new = [st EXCEPT !.input = i, !.output = o]
    BY DEF Managers, SameButWatermarks
<1> HIDE DEF st, new, i, o
<1>2. /\ new.completed = st.completed /\ new.in_flight = st.in_flight
      /\ new.queued = st.queued /\ new.pending_empty = st.pending_empty
      /\ new.watermark_at_last_run = st.watermark_at_last_run
      /\ new.watermark_holds = st.watermark_holds
      /\ new.residual_holds = st.residual_holds
      /\ new.partitions = st.partitions /\ new.finished = st.finished
      /\ new.pending_min = st.pending_min
    BY <1>1 DEF StageState
<1>3. HeldAt(new) = HeldAt(st)
    BY <1>2 DEF HeldAt
<1>4. OwnLimits(new) = OwnLimits(st)
    BY <1>2, <1>3 DEF OwnLimits, OutstandingBundle, MinHold
<1>5. SourceOutput(new) = SourceOutput(st)
    BY <1>2, Zenon DEF SourceOutput
<1> QED BY <1>2, <1>3, <1>4, <1>5 DEF ComputeOutput, st, new

\* The loop starts on its way.
LEMMA ClimbStarts ==
    ASSUME NEW e \in Managers
    PROVE  Climbs(e, e)
<1> DEFINE out == SettledOutput(e)
<1>1. out \in Outputs /\ \A s \in Stages : out[s] = Advanced(e, out, s)
    BY SettledOutputSolves
<1> HIDE DEF out
<1>2. ASSUME NEW s \in Stages
      PROVE  /\ SameButWatermarks(e[s], e[s])
             /\ e[s].output <= e[s].output /\ e[s].output <= out[s]
             /\ e[s].input <= e[s].input
             /\ e[s].input <= Higher(e[s].input, ComputeInput(out, s))
    <2>1. e[s] \in StageState
        BY DEF Managers
    <2>2. e[s].input \in Int /\ e[s].output \in Int
        BY <2>1, TimestampRange DEF StageState
    <2>3. ComputeInput(out, s) \in Int /\ ComputeOutput(e, out, s) \in Int
        BY <1>1, ComputeInputIsMin, ComputeOutputIsMin, TimestampRange
    <2>4. SameButWatermarks(e[s], e[s])
        BY <2>1 DEF SameButWatermarks, StageState
    <2>5. out[s] = Higher(e[s].output, ComputeOutput(e, out, s))
        BY <1>1 DEF Advanced
    <2> QED BY <2>2, <2>3, <2>4, <2>5 DEF Higher
<1> QED BY <1>2 DEF Climbs, out

\* What a visit computes is typed, and what it does to the stage and the others.
LEMMA VisitedStage ==
    ASSUME NEW m \in Managers, NEW s \in Stages
    PROVE  LET i == ComputeInput(OutputsOf(m), s)
               o == ComputeOutput(m, OutputsOf(m), s)
           IN  /\ i \in Timestamps /\ o \in Timestamps
               /\ Visited(m, s) \in Managers
               /\ SameButWatermarks(m[s], Visited(m, s)[s])
               /\ Visited(m, s)[s].input = Higher(m[s].input, i)
               /\ Visited(m, s)[s].output = Higher(m[s].output, o)
               /\ \A c \in Stages : c # s => Visited(m, s)[c] = m[c]
<1> DEFINE i == ComputeInput(OutputsOf(m), s)
           o == ComputeOutput(m, OutputsOf(m), s)
           st == m[s]
           hi == Higher(st.input, i)
           ho == Higher(st.output, o)
           new == [st EXCEPT !.input = hi, !.output = ho]
<1>1. i \in Timestamps /\ o \in Timestamps
    BY OutputsOfType, ComputeInputIsMin, ComputeOutputIsMin
<1>2. st \in StageState
    BY DEF Managers
<1>3. Visited(m, s) = [m EXCEPT ![s] = new]
    BY Zenon DEF Visited
<1> HIDE DEF i, o
<1>4. hi \in Timestamps /\ ho \in Timestamps
    BY <1>1, <1>2 DEF Higher, StageState
<1> HIDE DEF st, hi, ho
<1>5. /\ new \in StageState /\ new.input = hi /\ new.output = ho
      /\ new = [st EXCEPT !.input = new.input, !.output = new.output]
    BY <1>2, <1>4 DEF StageState
<1> HIDE DEF new
<1>6. m \in [Stages -> StageState]
    BY DEF Managers
<1>7. /\ Visited(m, s) \in [Stages -> StageState] /\ Visited(m, s)[s] = new
      /\ \A c \in Stages : c # s => Visited(m, s)[c] = m[c]
    BY <1>3, <1>5, <1>6
<1> QED BY <1>1, <1>5, <1>7 DEF SameButWatermarks, Managers, i, o, st, hi, ho

LEMMA SameTransitive ==
    ASSUME NEW a \in StageState, NEW b \in StageState, NEW c \in StageState,
           SameButWatermarks(a, b), SameButWatermarks(b, c)
    PROVE  SameButWatermarks(a, c)
<1> DEFINE i == b.input
           o == b.output
           j == c.input
           p == c.output
<1>1. b = [a EXCEPT !.input = i, !.output = o] /\ c = [b EXCEPT !.input = j, !.output = p]
    BY DEF SameButWatermarks
<1> HIDE DEF i, o, j, p
<1>2. c = [a EXCEPT !.input = j, !.output = p]
    BY <1>1 DEF StageState
<1> QED BY <1>2 DEF SameButWatermarks, j, p

\* A visit stays on the way: what it computes from outputs below the settled
\* ones is not above what the settled ones give.
LEMMA VisitClimbs ==
    ASSUME NEW e \in Managers, NEW n, Climbs(e, n), NEW s \in Stages
    PROVE  Climbs(e, Visited(n, s))
<1> DEFINE out == SettledOutput(e)
           v == Visited(n, s)
           i == ComputeInput(OutputsOf(n), s)
           o == ComputeOutput(n, OutputsOf(n), s)
           ti == ComputeInput(out, s)
           to == ComputeOutput(e, out, s)
<1>1. n \in Managers
    BY DEF Climbs
<1>2. out \in Outputs /\ out[s] = Higher(e[s].output, to)
    BY SettledOutputSolves DEF Advanced
<1>3. /\ i \in Timestamps /\ o \in Timestamps /\ v \in Managers
      /\ SameButWatermarks(n[s], v[s])
      /\ v[s].input = Higher(n[s].input, i) /\ v[s].output = Higher(n[s].output, o)
      /\ \A c \in Stages : c # s => v[c] = n[c]
    BY <1>1, VisitedStage
<1>4. ti \in Timestamps /\ to \in Timestamps
    BY <1>2, ComputeInputIsMin, ComputeOutputIsMin
<1>5. o <= to /\ i <= ti
    <2>1. OutputsOf(n) \in Outputs
        BY <1>1, OutputsOfType
    <2>2. \A p \in Stages : OutputsOf(n)[p] <= out[p]
        BY DEF OutputsOf, Climbs
    <2>3. ComputeOutput(e, OutputsOf(n), s) <= to /\ i <= ti
        BY <1>2, <2>1, <2>2, ComputeMonotone
    <2>4. o = ComputeOutput(e, OutputsOf(n), s)
        BY <1>1, SameCompute DEF Climbs
    <2> QED BY <2>3, <2>4
<1>6. /\ e[s].output <= n[s].output /\ n[s].output <= out[s]
      /\ e[s].input <= n[s].input /\ n[s].input <= Higher(e[s].input, ti)
      /\ SameButWatermarks(e[s], n[s])
      /\ e[s] \in StageState /\ n[s] \in StageState /\ v[s] \in StageState
    BY <1>1, <1>3 DEF Climbs, Managers
<1>7. SameButWatermarks(e[s], v[s])
    BY <1>3, <1>6, SameTransitive
<1>8. /\ e[s].input \in Int /\ e[s].output \in Int /\ n[s].input \in Int /\ n[s].output \in Int
      /\ i \in Int /\ o \in Int /\ ti \in Int /\ to \in Int
    BY <1>3, <1>4, <1>6, TimestampRange DEF StageState
<1> HIDE DEF v, i, o, ti, to, out
<1>9. /\ e[s].output <= v[s].output /\ v[s].output <= out[s]
      /\ e[s].input <= v[s].input /\ v[s].input <= Higher(e[s].input, ti)
    BY <1>2, <1>3, <1>5, <1>6, <1>8 DEF Higher
<1>10. ASSUME NEW c \in Stages
       PROVE  /\ SameButWatermarks(e[c], v[c])
              /\ e[c].output <= v[c].output /\ v[c].output <= out[c]
              /\ e[c].input <= v[c].input
              /\ v[c].input <= Higher(e[c].input, ComputeInput(out, c))
    <2>1. CASE c = s
        BY <2>1, <1>7, <1>9 DEF ti
    <2>2. CASE c # s
        BY <2>2, <1>3 DEF Climbs, out
    <2> QED BY <2>1, <2>2
<1> QED BY <1>3, <1>10 DEF Climbs, v, out

\* Where no visit finds anything to advance, the way is at its end: at a stage
\* of least rank below its settled output, the producers have settled already.
LEMMA StuckIsSettled ==
    ASSUME NEW e \in Managers, NEW n, Climbs(e, n),
           \A s \in Stages : NothingToAdvance(n, s)
    PROVE  \A s \in Stages : n[s].output = SettledOutput(e)[s]
<1> DEFINE out == SettledOutput(e)
           cur == OutputsOf(n)
<1>1. n \in Managers /\ out \in Outputs /\ cur \in Outputs
    BY SettledOutputSolves, OutputsOfType DEF Climbs
<1>2. ASSUME NEW s \in Stages
      PROVE  /\ cur[s] \in Int /\ out[s] \in Int /\ e[s].output \in Int
             /\ cur[s] = n[s].output
             /\ e[s].output <= cur[s] /\ cur[s] <= out[s]
             /\ ComputeOutput(e, cur, s) <= cur[s] /\ ComputeOutput(e, cur, s) \in Int
             /\ out[s] = Advanced(e, out, s)
    <2>1. cur[s] = n[s].output /\ e[s].output <= cur[s] /\ cur[s] <= out[s]
        BY DEF Climbs, OutputsOf
    <2>2. ComputeOutput(n, cur, s) <= cur[s]
        BY <2>1 DEF NothingToAdvance, OutputsOf
    <2>3. ComputeOutput(n, cur, s) = ComputeOutput(e, cur, s)
        BY <1>1, SameCompute DEF Climbs
    <2>4. ComputeOutput(e, cur, s) \in Timestamps
        BY <1>1, ComputeOutputIsMin
    <2>5. out[s] = Advanced(e, out, s)
        BY SettledOutputSolves
    <2>6. cur[s] \in Timestamps /\ out[s] \in Timestamps /\ e[s].output \in Timestamps
        BY <1>1 DEF Outputs, Managers, StageState
    <2> HIDE DEF cur, out
    <2> QED BY <2>1, <2>2, <2>3, <2>4, <2>5, <2>6, TimestampRange
<1> HIDE DEF cur, out
<1>3. PICK rank \in [Stages -> 0..Cardinality(Stages)] :
        \A s \in Stages : \A p \in Producers(s) : rank[p] < rank[s]
    BY AcyclicAssumption
<1>4. \A s \in Stages : rank[s] \in Nat
    BY <1>3
<1> DEFINE Behind == {s \in Stages : cur[s] # out[s]}
           Ranks == {rank[s] : s \in Behind}
<1>5. Behind = {}
    <2>1. SUFFICES ASSUME Behind # {} PROVE FALSE
        OBVIOUS
    <2>2. Ranks \in SUBSET Nat /\ Ranks # {}
        BY <2>1, <1>4
    <2>3. PICK r \in Ranks : \A k \in Ranks : r <= k
        BY <2>2, LeastNatural
    <2>4. PICK s \in Behind : rank[s] = r
        BY <2>3
    <2>5. \A p \in MainInputs[s] : p \in Stages /\ rank[p] < r
        BY <1>3, <2>4, GraphAssumption DEF Producers
    <2>6. ASSUME NEW p \in MainInputs[s] PROVE cur[p] = out[p]
        <3>1. p \in Stages /\ rank[p] \in Nat /\ r \in Nat /\ ~(r <= rank[p])
            BY <1>4, <2>2, <2>3, <2>5
        <3>2. p \notin Behind
            BY <2>3, <3>1
        <3> QED BY <3>1, <3>2
    <2>7. Advanced(e, cur, s) = Advanced(e, out, s)
        BY <2>6, AdvancedDepends
    <2>8. s \in Stages /\ cur[s] # out[s]
        BY <2>4
    <2>9. Higher(e[s].output, ComputeOutput(e, cur, s)) <= cur[s]
        BY <1>2, <2>8 DEF Higher
    <2>10. out[s] <= cur[s]
        BY <1>2, <2>7, <2>8, <2>9 DEF Advanced
    <2> QED BY <1>2, <2>8, <2>10
<1> QED BY <1>2, <1>5 DEF out

\* So the loop that changes nothing any more has computed Refresh(e).
LEMMA StuckIsRefresh ==
    ASSUME NEW e \in Managers, NEW n, Climbs(e, n),
           \A s \in Stages : NothingToAdvance(n, s)
    PROVE  n = Refresh(e)
<1> DEFINE out == SettledOutput(e)
           want(s) == Higher(e[s].input, ComputeInput(out, s))
<1>1. n \in Managers /\ out \in Outputs
    BY SettledOutputSolves DEF Climbs
<1>2. \A s \in Stages : n[s].output = out[s]
    BY StuckIsSettled
<1>3. [p \in Stages |-> n[p].output] = out
    BY <1>1, <1>2 DEF Outputs
<1> HIDE DEF out
<1>4. ASSUME NEW s \in Stages PROVE n[s].input = want(s)
    <2>1. ComputeInput(out, s) <= n[s].input
        BY <1>3 DEF NothingToAdvance
    <2>2. e[s].input <= n[s].input /\ n[s].input <= want(s)
        BY DEF Climbs, out
    <2>3. ComputeInput(out, s) \in Int /\ n[s].input \in Int /\ e[s].input \in Int
        BY <1>1, ComputeInputIsMin, TimestampRange DEF Managers, StageState
    <2> QED BY <2>1, <2>2, <2>3 DEF Higher
<1>5. ASSUME NEW s \in Stages
      PROVE  n[s] = [e[s] EXCEPT !.input = want(s), !.output = out[s]]
    <2>1. n[s] = [e[s] EXCEPT !.input = n[s].input, !.output = n[s].output]
        BY DEF Climbs, SameButWatermarks
    <2>2. n[s].input = want(s) /\ n[s].output = out[s]
        BY <1>2, <1>4
    <2> QED BY <2>1, <2>2, Zenon
<1>6. n = [s \in Stages |-> n[s]]
    BY <1>1 DEF Managers
<1>7. Refresh(e) = [s \in Stages |-> [e[s] EXCEPT !.input = want(s), !.output = out[s]]]
    BY DEF Refresh, out
<1> HIDE DEF want
<1> QED BY <1>5, <1>6, <1>7, Zenon

\* Every assignment of the loop keeps the order of the watermarks and moves
\* none back or past a hold, not only the loop as a whole.
LEMMA VisitInv ==
    ASSUME NEW m, Inv(m), NEW s \in Stages
    PROVE  Inv(Visited(m, s)) /\ Moves(m, Visited(m, s))
<1> DEFINE v == Visited(m, s)
           out == OutputsOf(m)
           i == ComputeInput(out, s)
           o == ComputeOutput(m, out, s)
<1>1. m \in Managers /\ out \in Outputs
    BY OutputsOfType DEF Inv
<1>2. /\ i \in Timestamps /\ o \in Timestamps /\ v \in Managers
      /\ SameButWatermarks(m[s], v[s])
      /\ v[s].input = Higher(m[s].input, i) /\ v[s].output = Higher(m[s].output, o)
      /\ \A c \in Stages : c # s => v[c] = m[c]
    BY <1>1, VisitedStage
<1>3. HeldAt(v[s]) = HeldAt(m[s]) /\ v[s].watermark_at_last_run = m[s].watermark_at_last_run
    BY <1>1, <1>2, SameCompute
<1>4. \A l \in Limits(m, out, s) : o <= l
    BY <1>1, ComputeOutputIsMin
<1>5. ~IsSource(s) => \A p \in Producers(s) : i <= out[p]
    BY <1>1, ComputeInputIsMin
<1>6. \A p \in Stages : out[p] = m[p].output
    BY DEF OutputsOf
<1> HIDE DEF v, out, i, o
<1>7. ASSUME NEW c \in Stages
      PROVE  /\ m[c].input \in Int /\ m[c].output \in Int /\ m[c].watermark_at_last_run \in Int
             /\ v[c].input \in Int /\ v[c].output \in Int
             /\ MainInputs[c] \subseteq Stages /\ Producers(c) \subseteq Stages
    BY <1>1, <1>2, TimestampRange, GraphAssumption DEF Managers, StageState, Producers
<1>8. i \in Int /\ o \in Int
    BY <1>2, TimestampRange
<1>9. \A c \in Stages : m[c].input <= v[c].input /\ m[c].output <= v[c].output
    BY <1>2, <1>7, <1>8 DEF Higher
<1>10. ASSUME NEW c \in Stages
       PROVE  v[c].watermark_at_last_run = m[c].watermark_at_last_run /\ HeldAt(v[c]) = HeldAt(m[c])
    BY <1>2, <1>3
<1>11. ASSUME NEW c \in Stages, NEW p \in MainInputs[c] PROVE v[c].output <= v[p].output
    <2>1. p \in Stages /\ m[c].output <= m[p].output /\ m[p].output <= v[p].output
        BY <1>7, <1>9 DEF Inv, Ordered
    <2>2. CASE c = s
        <3>1. out[p] \in Limits(m, out, s)
            BY <2>2 DEF Limits, IsSource
        <3>2. o <= m[p].output
            BY <3>1, <1>4, <1>6, <2>1
        <3> QED BY <2>1, <2>2, <3>2, <1>2, <1>7, <1>8 DEF Higher
    <2>3. CASE c # s
        BY <2>1, <2>3, <1>2, <1>7
    <2> QED BY <2>2, <2>3
<1>12. ASSUME NEW c \in Stages, ~IsSource(c), NEW p \in Producers(c)
       PROVE  v[c].input <= v[p].output
    <2>1. p \in Stages /\ m[c].input <= m[p].output /\ m[p].output <= v[p].output
        BY <1>7, <1>9, <1>12 DEF Inv, Ordered
    <2>2. CASE c = s
        <3>1. i <= m[p].output
            BY <1>5, <1>6, <1>12, <2>1, <2>2
        <3> QED BY <2>1, <2>2, <3>1, <1>2, <1>7, <1>8 DEF Higher
    <2>3. CASE c # s
        BY <2>1, <2>3, <1>2, <1>7
    <2> QED BY <2>2, <2>3
<1>13. ASSUME NEW c \in Stages PROVE v[c].watermark_at_last_run <= v[c].input
    <2>1. m[c].watermark_at_last_run <= m[c].input
        BY DEF Inv, Ordered
    <2> QED BY <2>1, <1>7, <1>9, <1>10
<1>14. ASSUME NEW c \in Stages, v[c].output > m[c].output, NEW h \in HeldAt(v[c])
       PROVE  v[c].output <= h
    <2>1. c = s
        BY <1>2, <1>7, <1>14
    <2>2. v[s].output = o
        BY <2>1, <1>2, <1>7, <1>8, <1>14 DEF Higher
    <2>3. m[s] \in StageState
        BY <1>1 DEF Managers
    <2>4. /\ MinHold(m[s]) \in Timestamps \cup {None} /\ MinHold(m[s]) <= h
          /\ HeldAt(m[s]) \in SUBSET Timestamps /\ h \in HeldAt(m[s])
        BY <2>1, <2>3, <1>10, HoldBounds
    <2>5. o <= MinHold(m[s])
        BY <1>4 DEF Limits, OwnLimits
    <2>6. MinHold(m[s]) \in Int /\ h \in Int
        BY <2>4, TimestampRange
    <2> QED BY <2>1, <2>2, <2>4, <2>5, <2>6, <1>8
<1>15. Ordered(v)
    BY <1>11, <1>12, <1>13 DEF Ordered
<1>16. Moves(m, v)
    BY <1>7, <1>9, <1>14 DEF Moves
<1> QED BY <1>2, <1>15, <1>16 DEF Inv, v
=============================================================================
