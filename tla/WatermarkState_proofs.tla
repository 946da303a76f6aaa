------------------------ MODULE WatermarkState_proofs -----------------------
(***************************************************************************)
(* Lemmas about the operations of the watermark manager, for every graph   *)
(* and every set of partitions: what refresh computes, and that each       *)
(* operation keeps the invariant Inv.                                      *)
(***************************************************************************)
EXTENDS WatermarkState, TLAPS, FiniteSetTheorems, WellFoundedInduction

-----------------------------------------------------------------------------
(* Minima of sets of timestamps.                                           *)

\* A nonempty set of naturals has a least element.
LEMMA LeastNatural ==
    ASSUME NEW T \in SUBSET Nat, T # {}
    PROVE  \E x \in T : \A y \in T : x <= y
<1>1. PICK x \in T : \A y \in T : ~ (<<y, x>> \in OpToRel(<, Nat))
    BY NatLessThanWellFounded, WFMin, Zenon
<1>2. ASSUME NEW y \in T PROVE x <= y
    <2>1. ~(y < x)
        BY <1>1 DEF OpToRel
    <2> QED BY <2>1
<1> QED BY <1>2

\* Timestamps and None are an interval of integers.
LEMMA TimestampRange ==
    /\ MinTs \in Int /\ MaxTs \in Int /\ None \in Int
    /\ MinTs < MaxTs /\ None = MaxTs + 1
    /\ Timestamps \cup {None} \subseteq Int
    /\ \A t : t \in Timestamps <=> t \in Int /\ MinTs <= t /\ t <= MaxTs
    /\ \A t \in Timestamps \cup {None} : MinTs <= t /\ t <= None
    BY TimestampAssumption DEF Timestamps, None

\* Min of a nonempty set of timestamps (or None) is its least element.
LEMMA MinLeast ==
    ASSUME NEW S \in SUBSET (Timestamps \cup {None}), S # {}
    PROVE  /\ Min(S) \in S
           /\ \A t \in S : Min(S) <= t
<1> DEFINE T == {t - MinTs : t \in S}
<1>1. \A t \in S : t \in Int /\ MinTs <= t
    BY TimestampRange
<1>2. T \in SUBSET Nat /\ T # {}
    BY <1>1, TimestampRange
<1>3. PICK x \in T : \A y \in T : x <= y
    BY <1>2, LeastNatural
<1>4. PICK u \in S : x = u - MinTs
    BY <1>3
<1>5. \A t \in S : u <= t
    <2>1. ASSUME NEW t \in S PROVE u <= t
        <3>1. x <= t - MinTs
            BY <1>3
        <3> QED BY <3>1, <1>4, <1>1, TimestampRange
    <2> QED BY <2>1
<1>6. \E v \in S : \A t \in S : v =< t
    BY <1>5
<1> QED BY <1>6, Zenon DEF Min

-----------------------------------------------------------------------------
(* Watermark propagation.                                                  *)

Outputs == [Stages -> Timestamps]

\* What refresh makes of the output watermark of one stage.
Advanced(m, output, s) == Higher(m[s].output, ComputeOutput(m, output, s))
Settles(m, output) == output = [s \in Stages |-> Advanced(m, output, s)]

LEMMA HoldBounds ==
    ASSUME NEW st \in StageState
    PROVE  /\ HeldAt(st) \in SUBSET Timestamps
           /\ MinHold(st) \in Timestamps \cup {None}
           /\ \A h \in HeldAt(st) : MinHold(st) <= h
<1>1. HeldAt(st) \in SUBSET Timestamps
    BY DEF HeldAt
<1> DEFINE H == HeldAt(st) \cup {None}
<1>2. H \in SUBSET (Timestamps \cup {None}) /\ H # {}
    BY <1>1
<1>3. Min(H) \in H /\ \A t \in H : Min(H) <= t
    BY <1>2, MinLeast
<1> QED BY <1>1, <1>3 DEF MinHold

LEMMA SourceOutputType ==
    ASSUME NEW st \in StageState
    PROVE  SourceOutput(st) \in Timestamps
<1> DEFINE reported == {q \in Partitions : st.partitions[q].watermark # None}
           active == {q \in reported : ~st.partitions[q].idle}
           W == {st.partitions[q].watermark : q \in active} \cup {MaxTs}
<1>1. MinTs \in Timestamps /\ MaxTs \in Timestamps
    BY TimestampRange
<1>2. \A q \in reported : st.partitions[q].watermark \in Timestamps
    BY DEF StageState
<1>3. W \in SUBSET Timestamps /\ W # {}
    BY <1>1, <1>2
<1>4. Min(W) \in Timestamps
    <2>1. W \in SUBSET (Timestamps \cup {None})
        BY <1>3
    <2>2. Min(W) \in W
        BY <2>1, <1>3, MinLeast
    <2> QED BY <2>2, <1>3
<1> QED BY <1>1, <1>4 DEF SourceOutput

\* The set whose minimum compute_output takes.
Limits(m, output, s) ==
    OwnLimits(m[s]) \cup
        (IF IsSource(s) THEN {SourceOutput(m[s])}
         ELSE {output[p] : p \in MainInputs[s]} \cup {m[s].pending_min})

LEMMA ComputeOutputIsMin ==
    ASSUME NEW m \in Managers, NEW output \in Outputs, NEW s \in Stages
    PROVE  /\ ComputeOutput(m, output, s) \in Timestamps
           /\ \A l \in Limits(m, output, s) : ComputeOutput(m, output, s) <= l
<1> DEFINE L == Limits(m, output, s)
<1>0. m[s] \in StageState /\ MainInputs[s] \in SUBSET Stages
    BY GraphAssumption DEF Managers
<1>1. OwnLimits(m[s]) \in SUBSET (Timestamps \cup {None})
    BY <1>0, HoldBounds, TimestampRange DEF OwnLimits, OutstandingBundle, StageState
<1>2. \E t \in L : t \in Timestamps
    BY <1>0, SourceOutputType DEF Limits, StageState
<1>3. L \in SUBSET (Timestamps \cup {None})
    BY <1>0, <1>1, SourceOutputType DEF Limits, StageState, Outputs
<1>4. Min(L) \in L /\ \A t \in L : Min(L) <= t
    BY <1>2, <1>3, MinLeast
<1>5. Min(L) \in Timestamps
    BY <1>2, <1>3, <1>4, TimestampRange
<1>6. ComputeOutput(m, output, s) = Min(L)
    BY DEF ComputeOutput, Limits
<1> QED BY <1>4, <1>5, <1>6

LEMMA AdvancedType ==
    ASSUME NEW m \in Managers, NEW output \in Outputs, NEW s \in Stages
    PROVE  Advanced(m, output, s) \in Timestamps
    BY ComputeOutputIsMin DEF Advanced, Higher, Managers, StageState

\* compute_output reads the outputs of main producers only.
LEMMA AdvancedDepends ==
    ASSUME NEW m, NEW f, NEW g, NEW s \in Stages,
           \A p \in MainInputs[s] : f[p] = g[p]
    PROVE  Advanced(m, f, s) = Advanced(m, g, s)
<1>1. {f[p] : p \in MainInputs[s]} = {g[p] : p \in MainInputs[s]}
    OBVIOUS
<1> QED BY <1>1 DEF Advanced, ComputeOutput

\* Following the ranks of the graph, an output for every stage can be found.
LEMMA SettledExists ==
    ASSUME NEW m \in Managers
    PROVE  \E output \in Outputs : Settles(m, output)
<1>1. PICK rank \in [Stages -> 0..Cardinality(Stages)] :
        \A s \in Stages : \A p \in Producers(s) : rank[p] < rank[s]
    BY AcyclicAssumption
<1>2. Cardinality(Stages) \in Nat
    BY GraphAssumption, FS_CardinalityType
<1>3. \A s \in Stages : rank[s] \in Nat /\ rank[s] < Cardinality(Stages) + 1
    BY <1>1, <1>2
<1>4. \A s \in Stages : \A p \in MainInputs[s] : p \in Stages /\ rank[p] < rank[s]
    BY <1>1, GraphAssumption DEF Producers
<1> DEFINE SolvedBelow(g, n) ==
        \A s \in Stages : rank[s] < n => g[s] = Advanced(m, g, s)
    Unsolved == {n \in Nat : ~ \E g \in Outputs : SolvedBelow(g, n)}
<1>5. Unsolved = {}
    <2>1. SUFFICES ASSUME Unsolved # {} PROVE FALSE
        OBVIOUS
    <2>2. Unsolved \in SUBSET Nat
        OBVIOUS
    <2>3. PICK n \in Unsolved : \A k \in Unsolved : n <= k
        BY <2>1, <2>2, LeastNatural
    <2>4. n # 0
        <3>1. [s \in Stages |-> MinTs] \in Outputs
            BY TimestampRange DEF Outputs
        <3>2. SolvedBelow([s \in Stages |-> MinTs], 0)
            BY <1>3
        <3> QED BY <3>1, <3>2
    <2>5. n \in Nat /\ n - 1 \in Nat /\ n - 1 \notin Unsolved
        BY <2>3, <2>4
    <2>6. PICK g \in Outputs : SolvedBelow(g, n - 1)
        BY <2>5
    <2> DEFINE h == [s \in Stages |-> IF rank[s] = n - 1 THEN Advanced(m, g, s) ELSE g[s]]
    <2>7. h \in Outputs
        BY AdvancedType DEF Outputs
    <2>8. SolvedBelow(h, n)
        <3>1. SUFFICES ASSUME NEW s \in Stages, rank[s] < n
                       PROVE  h[s] = Advanced(m, h, s)
            OBVIOUS
        <3>2. \A p \in MainInputs[s] : h[p] = g[p]
            BY <3>1, <1>3, <1>4, <2>5
        <3> HIDE DEF h
        <3>3. Advanced(m, h, s) = Advanced(m, g, s)
            BY <3>2, AdvancedDepends
        <3>4. h[s] = Advanced(m, g, s)
            <4>1. CASE rank[s] = n - 1
                BY <4>1 DEF h
            <4>2. CASE rank[s] # n - 1
                <5>1. rank[s] < n - 1
                    BY <4>2, <3>1, <1>3, <2>5
                <5> QED BY <5>1, <4>2, <2>6 DEF h
            <4> QED BY <4>1, <4>2
        <3> QED BY <3>3, <3>4
    <2> HIDE DEF SolvedBelow, h
    <2> QED BY <2>3, <2>5, <2>7, <2>8
<1>6. PICK g \in Outputs : SolvedBelow(g, Cardinality(Stages) + 1)
    BY <1>2, <1>5
<1>7. \A s \in Stages : g[s] = Advanced(m, g, s)
    BY <1>3, <1>6
<1>8. g = [s \in Stages |-> Advanced(m, g, s)]
    BY <1>7 DEF Outputs
<1> QED BY <1>8 DEF Settles

\* At a stage of least rank two solutions cannot differ: they agree upstream.
LEMMA SettledUnique ==
    ASSUME NEW m, NEW f, NEW g, Settles(m, f), Settles(m, g)
    PROVE  f = g
<1>1. PICK rank \in [Stages -> 0..Cardinality(Stages)] :
        \A s \in Stages : \A p \in Producers(s) : rank[p] < rank[s]
    BY AcyclicAssumption
<1>2. \A s \in Stages : rank[s] \in Nat
    BY <1>1
<1>3. \A s \in Stages : f[s] = Advanced(m, f, s) /\ g[s] = Advanced(m, g, s)
    BY DEF Settles
<1> DEFINE Differ == {s \in Stages : f[s] # g[s]}
           Ranks == {rank[s] : s \in Differ}
<1>4. Differ = {}
    <2>1. SUFFICES ASSUME Differ # {} PROVE FALSE
        OBVIOUS
    <2>2. Ranks \in SUBSET Nat /\ Ranks # {}
        BY <2>1, <1>2
    <2>3. PICK r \in Ranks : \A k \in Ranks : r <= k
        BY <2>2, LeastNatural
    <2>4. PICK s \in Differ : rank[s] = r
        BY <2>3
    <2>5. \A p \in MainInputs[s] : p \in Stages /\ rank[p] < r
        BY <1>1, <2>4, GraphAssumption DEF Producers
    <2>6. ASSUME NEW p \in MainInputs[s] PROVE f[p] = g[p]
        <3>1. p \in Stages /\ rank[p] \in Nat /\ r \in Nat /\ ~(r <= rank[p])
            BY <1>2, <2>2, <2>3, <2>5
        <3>2. p \notin Differ
            BY <2>3, <3>1
        <3> QED BY <3>1, <3>2
    <2>7. Advanced(m, f, s) = Advanced(m, g, s)
        BY <2>6, AdvancedDepends
    <2> QED BY <2>4, <2>7, <1>3
<1>5. f = [s \in Stages |-> f[s]] /\ g = [s \in Stages |-> g[s]]
    BY Zenon DEF Settles
<1> QED BY <1>4, <1>5

LEMMA SettledOutputSolves ==
    ASSUME NEW m \in Managers
    PROVE  /\ SettledOutput(m) \in Outputs
           /\ \A s \in Stages : SettledOutput(m)[s] = Advanced(m, SettledOutput(m), s)
<1>1. PICK g \in Outputs : Settles(m, g)
    BY SettledExists
<1>2. SettledOutput(m) = CHOOSE output : Settles(m, output)
    BY DEF SettledOutput, Settles, Advanced
<1>3. Settles(m, SettledOutput(m))
    BY <1>1, <1>2
<1>4. SettledOutput(m) = g
    BY <1>1, <1>3, SettledUnique
<1>5. \A s \in Stages : SettledOutput(m)[s] = Advanced(m, SettledOutput(m), s)
    BY <1>3 DEF Settles
<1> QED BY <1>1, <1>4, <1>5

\* What a refresh does to a well-typed manager.
LEMMA RefreshMoves ==
    ASSUME NEW m \in Managers
    PROVE  /\ Refresh(m) \in Managers
           /\ \A s \in Stages :
                /\ Refresh(m)[s].output = Advanced(m, SettledOutput(m), s)
                /\ Refresh(m)[s].output = SettledOutput(m)[s]
                /\ Refresh(m)[s].input =
                     Higher(m[s].input, ComputeInput(SettledOutput(m), s))
                /\ ComputeInput(SettledOutput(m), s) \in Timestamps
                /\ ~IsSource(s) => \A p \in Producers(s) :
                     ComputeInput(SettledOutput(m), s) <= SettledOutput(m)[p]
                /\ HeldAt(Refresh(m)[s]) = HeldAt(m[s])
                /\ Refresh(m)[s].watermark_at_last_run = m[s].watermark_at_last_run
<1> DEFINE out == SettledOutput(m)
<1>1. out \in Outputs /\ \A s \in Stages : out[s] = Advanced(m, out, s)
    BY SettledOutputSolves
<1>2. ASSUME NEW s \in Stages
      PROVE  /\ ComputeInput(out, s) \in Timestamps
             /\ ~IsSource(s) => \A p \in Producers(s) : ComputeInput(out, s) <= out[p]
    <2> DEFINE I == {out[p] : p \in Producers(s)} \cup {MaxTs}
    <2>1. Producers(s) \subseteq Stages /\ MaxTs \in Timestamps
        BY GraphAssumption, TimestampRange DEF Producers
    <2>2. I \in SUBSET Timestamps /\ I \in SUBSET (Timestamps \cup {None}) /\ I # {}
        BY <2>1, <1>1 DEF Outputs
    <2>3. Min(I) \in I /\ \A t \in I : Min(I) <= t
        BY <2>2, MinLeast
    <2>4. Min(I) \in Timestamps /\ \A p \in Producers(s) : Min(I) <= out[p]
        BY <2>2, <2>3
    <2> QED BY <2>1, <2>4 DEF ComputeInput
<1> HIDE DEF out
<1>3. ASSUME NEW s \in Stages
      PROVE  Higher(m[s].input, ComputeInput(out, s)) \in Timestamps /\ out[s] \in Timestamps
    BY <1>1, <1>2 DEF Higher, Managers, StageState, Outputs
<1>4. Refresh(m) = [s \in Stages |->
        [m[s] EXCEPT !.input = Higher(m[s].input, ComputeInput(out, s)), !.output = out[s]]]
    BY DEF Refresh, out
<1>5. ASSUME NEW s \in Stages
      PROVE  /\ Refresh(m)[s] \in StageState
             /\ Refresh(m)[s].output = out[s]
             /\ Refresh(m)[s].input = Higher(m[s].input, ComputeInput(out, s))
             /\ Refresh(m)[s].watermark_at_last_run = m[s].watermark_at_last_run
             /\ Refresh(m)[s].watermark_holds = m[s].watermark_holds
             /\ Refresh(m)[s].residual_holds = m[s].residual_holds
    <2> DEFINE st == m[s]
               i == Higher(st.input, ComputeInput(out, s))
               o == out[s]
               n == Refresh(m)[s]
    <2>1. n = [st EXCEPT !.input = i, !.output = o]
        BY <1>4, Zenon
    <2>2. st \in StageState /\ i \in Timestamps /\ o \in Timestamps
        BY <1>3 DEF Managers
    <2> HIDE DEF st, i, o, n
    <2>3. /\ n \in StageState
          /\ n.input = i /\ n.output = o
          /\ n.watermark_at_last_run = st.watermark_at_last_run
          /\ n.watermark_holds = st.watermark_holds
          /\ n.residual_holds = st.residual_holds
        BY <2>1, <2>2 DEF StageState
    <2> QED BY <2>3 DEF st, i, o, n
<1>6. Refresh(m) \in Managers
    BY <1>4, <1>5, Zenon DEF Managers
<1>7. ASSUME NEW s \in Stages PROVE HeldAt(Refresh(m)[s]) = HeldAt(m[s])
    BY <1>5 DEF HeldAt
<1> QED BY <1>1, <1>2, <1>5, <1>6, <1>7 DEF out

-----------------------------------------------------------------------------
(* The inductive invariant and what each operation does to it.             *)

\* Watermarks in the order of the graph, and bundles behind their stage.
Ordered(m) ==
    \A s \in Stages :
        /\ m[s].watermark_at_last_run <= m[s].input
        /\ \A p \in MainInputs[s] : m[s].output <= m[p].output
        /\ ~IsSource(s) => \A p \in Producers(s) : m[s].input <= m[p].output

Inv(m) == m \in Managers /\ Ordered(m)

\* Of the operations, only refresh moves a watermark.
KeepsStage(st, new) ==
    /\ new \in StageState
    /\ new.input = st.input /\ new.output = st.output
    /\ new.watermark_at_last_run <= new.input
Keeps(m, n) ==
    /\ n = [s \in Stages |-> n[s]]
    /\ \A s \in Stages : KeepsStage(m[s], n[s])

LEMMA KeepsInv ==
    ASSUME NEW m, NEW n, Inv(m), Keeps(m, n)
    PROVE  Inv(n)
<1>1. \A s \in Stages : MainInputs[s] \subseteq Stages /\ Producers(s) \subseteq Stages
    BY GraphAssumption DEF Producers
<1>2. n \in Managers
    BY DEF Keeps, KeepsStage, Managers
<1>3. Ordered(n)
    BY <1>1 DEF Inv, Keeps, KeepsStage, Ordered
<1> QED BY <1>2, <1>3 DEF Inv

\* It is enough to look at the one stage an operation changes.
LEMMA OneStageKeeps ==
    ASSUME NEW m, Inv(m), NEW s \in Stages, NEW new, KeepsStage(m[s], new)
    PROVE  Keeps(m, [m EXCEPT ![s] = new])
<1> DEFINE n == [m EXCEPT ![s] = new]
<1>1. m \in [Stages -> StageState] /\ Ordered(m)
    BY DEF Inv, Managers
<1>2. n = [c \in Stages |-> n[c]]
    BY <1>1
<1>3. \A c \in Stages : KeepsStage(m[c], m[c])
    BY <1>1 DEF KeepsStage, Ordered
<1>4. \A c \in Stages : n[c] = IF c = s THEN new ELSE m[c]
    BY <1>1
<1> QED BY <1>2, <1>3, <1>4 DEF Keeps

LEMMA StageOf ==
    ASSUME NEW m, Inv(m), NEW s \in Stages
    PROVE  m[s] \in StageState /\ m[s].watermark_at_last_run <= m[s].input
    BY DEF Inv, Managers, Ordered

LEMMA PartitionKeeps ==
    ASSUME NEW m, Inv(m), NEW s \in Stages, NEW q \in Partitions,
           NEW part \in [watermark : Timestamps \cup {None}, idle : BOOLEAN]
    PROVE  Keeps(m, [m EXCEPT ![s].partitions[q] = part])
<1> DEFINE st == m[s]
           parts == [st.partitions EXCEPT ![q] = part]
           new == [st EXCEPT !.partitions = parts]
<1>1. st \in StageState /\ st.watermark_at_last_run <= st.input
    BY StageOf
<1>2. [m EXCEPT ![s].partitions[q] = part] = [m EXCEPT ![s] = new]
    OBVIOUS
<1> HIDE DEF st
<1>3. parts \in [Partitions -> [watermark : Timestamps \cup {None}, idle : BOOLEAN]]
    BY <1>1 DEF StageState
<1> HIDE DEF parts
<1>4. KeepsStage(st, new)
    BY <1>1, <1>3 DEF KeepsStage, StageState
<1> HIDE DEF new
<1>5. Keeps(m, [m EXCEPT ![s] = new])
    BY <1>4, OneStageKeeps DEF st
<1> QED BY <1>2, <1>5, Zenon

LEMMA ReportKeeps ==
    ASSUME NEW m, Inv(m), NEW s \in Stages, NEW q \in Partitions,
           NEW t \in Timestamps, NEW idle \in BOOLEAN
    PROVE  /\ Keeps(m, ReportSourcePartitionWatermark(m, s, q, t))
           /\ Keeps(m, SetSourcePartitionIdle(m, s, q, idle))
<1> DEFINE w == PartitionWatermark(m[s].partitions[q])
<1>1. m[s].partitions[q].watermark \in Timestamps \cup {None}
    BY StageOf DEF StageState
<1>2. w \in Timestamps
    BY <1>1, TimestampAssumption DEF PartitionWatermark, Timestamps
<1>3. Higher(w, t) \in Timestamps
    BY <1>2 DEF Higher
<1>4. ReportSourcePartitionWatermark(m, s, q, t) =
        [m EXCEPT ![s].partitions[q] = [watermark |-> Higher(w, t), idle |-> FALSE]]
    BY Zenon DEF ReportSourcePartitionWatermark
<1>5. SetSourcePartitionIdle(m, s, q, idle) =
        [m EXCEPT ![s].partitions[q] = [watermark |-> w, idle |-> idle]]
    BY Zenon DEF SetSourcePartitionIdle
<1> HIDE DEF w
<1> DEFINE p1 == [watermark |-> Higher(w, t), idle |-> FALSE]
           p2 == [watermark |-> w, idle |-> idle]
<1>6. /\ p1 \in [watermark : Timestamps \cup {None}, idle : BOOLEAN]
      /\ p2 \in [watermark : Timestamps \cup {None}, idle : BOOLEAN]
    BY <1>2, <1>3
<1> HIDE DEF p1, p2
<1>7. /\ Keeps(m, [m EXCEPT ![s].partitions[q] = p1])
      /\ Keeps(m, [m EXCEPT ![s].partitions[q] = p2])
    BY <1>6, PartitionKeeps, Zenon
<1> QED BY <1>4, <1>5, <1>7, Zenon DEF p1, p2

LEMMA FlagsKeep ==
    ASSUME NEW m, Inv(m), NEW s \in Stages, NEW k \in Nat
    PROVE  /\ Keeps(m, ReportSourceFinished(m, s))
           /\ Keeps(m, MarkRerun(m, s))
           /\ Keeps(m, EnqueueBundles(m, s, k))
<1> DEFINE st == m[s]
           finished == [st EXCEPT !.finished = TRUE]
           rerun == [st EXCEPT !.rerun_pending = TRUE]
           queued == [st EXCEPT !.queued = st.queued + k]
<1>1. st \in StageState /\ st.watermark_at_last_run <= st.input
    BY StageOf
<1>2. /\ ReportSourceFinished(m, s) = [m EXCEPT ![s] = finished]
      /\ MarkRerun(m, s) = [m EXCEPT ![s] = rerun]
      /\ EnqueueBundles(m, s, k) = [m EXCEPT ![s] = queued]
    BY DEF ReportSourceFinished, MarkRerun, EnqueueBundles
<1> HIDE DEF st
<1>3. KeepsStage(st, finished)
    BY <1>1 DEF KeepsStage, StageState
<1>4. KeepsStage(st, rerun)
    BY <1>1 DEF KeepsStage, StageState
<1>5. KeepsStage(st, queued)
    BY <1>1 DEF KeepsStage, StageState
<1> HIDE DEF finished, rerun, queued
<1>6. /\ Keeps(m, [m EXCEPT ![s] = finished])
      /\ Keeps(m, [m EXCEPT ![s] = rerun])
      /\ Keeps(m, [m EXCEPT ![s] = queued])
    BY <1>3, <1>4, <1>5, OneStageKeeps DEF st
<1> QED BY <1>2, <1>6, Zenon

LEMMA HoldKeeps ==
    ASSUME NEW m, Inv(m), NEW s \in Stages, NEW t \in Timestamps
    PROVE  /\ Keeps(m, AddHold(m, s, t))
           /\ Keeps(m, ReleaseHold(m, s, t))
<1> DEFINE st == m[s]
           held == st.watermark_holds
           more == [held EXCEPT ![t] = held[t] + 1]
           less == [held EXCEPT ![t] = IF held[t] > 0 THEN held[t] - 1 ELSE 0]
           added == [st EXCEPT !.watermark_holds = more]
           released == [st EXCEPT !.watermark_holds = less]
<1>1. st \in StageState /\ st.watermark_at_last_run <= st.input
    BY StageOf
<1>2. /\ AddHold(m, s, t) = [m EXCEPT ![s] = added]
      /\ ReleaseHold(m, s, t) = [m EXCEPT ![s] = released]
    BY DEF AddHold, ReleaseHold
<1> HIDE DEF st
<1>3. held \in [Timestamps -> Nat]
    BY <1>1 DEF StageState, Holds
<1> HIDE DEF held
<1>4. more \in Holds /\ less \in Holds
    BY <1>3 DEF Holds
<1> HIDE DEF more, less
<1>5. KeepsStage(st, added)
    BY <1>1, <1>4 DEF KeepsStage, StageState
<1>6. KeepsStage(st, released)
    BY <1>1, <1>4 DEF KeepsStage, StageState
<1> HIDE DEF added, released
<1>7. /\ Keeps(m, [m EXCEPT ![s] = added])
      /\ Keeps(m, [m EXCEPT ![s] = released])
    BY <1>5, <1>6, OneStageKeeps DEF st
<1> QED BY <1>2, <1>7, Zenon

LEMMA HoldMapsKeep ==
    ASSUME NEW m, Inv(m), NEW holds \in [Stages -> Holds]
    PROVE  /\ Keeps(m, SetEventTimeHolds(m, holds))
           /\ Keeps(m, SetResidualHolds(m, holds))
<1>1. ASSUME NEW st \in StageState, st.watermark_at_last_run <= st.input, NEW h \in Holds
      PROVE  /\ KeepsStage(st, [st EXCEPT !.watermark_holds = h])
             /\ KeepsStage(st, [st EXCEPT !.residual_holds = h])
    <2>1. KeepsStage(st, [st EXCEPT !.watermark_holds = h])
        BY <1>1 DEF KeepsStage, StageState
    <2>2. KeepsStage(st, [st EXCEPT !.residual_holds = h])
        BY <1>1 DEF KeepsStage, StageState
    <2> QED BY <2>1, <2>2
<1>2. \A s \in Stages : /\ m[s] \in StageState /\ holds[s] \in Holds
                        /\ m[s].watermark_at_last_run <= m[s].input
    BY StageOf
<1>3. \A s \in Stages : /\ KeepsStage(m[s], [m[s] EXCEPT !.watermark_holds = holds[s]])
                        /\ KeepsStage(m[s], [m[s] EXCEPT !.residual_holds = holds[s]])
    BY <1>1, <1>2, Zenon
<1> QED BY <1>3, Zenon DEF Keeps, SetEventTimeHolds, SetResidualHolds

LEMMA StartKeeps ==
    ASSUME NEW m, Inv(m), NEW s \in Stages
    PROVE  Keeps(m, StartBundle(m, s))
<1> DEFINE st == m[s]
           q == TakeQueued(st.queued)
           c == st.time_sorted_input_closed
                  \/ (Kind[s] = "TimeSorted" /\ st.input >= RequiredWatermark[s])
           w == EffectiveInputWatermark(m, s)
           f == st.in_flight + 1
           no == FALSE
           started == [st EXCEPT !.in_flight = f, !.queued = q,
                                 !.rerun_pending = no, !.time_sorted_input_closed = c]
           fresh == [started EXCEPT !.pending = {}, !.pending_min = MaxTs,
                                    !.watermark_at_last_run = w]
           new == IF st.in_flight # 0 THEN started ELSE fresh
<1>1. st \in StageState /\ st.watermark_at_last_run <= st.input
    BY StageOf
<1>2. w \in Timestamps /\ w <= st.input
    BY <1>1 DEF EffectiveInputWatermark, Lower, StageState, Timestamps
<1>3. StartBundle(m, s) = [m EXCEPT ![s] = new]
    BY Zenon DEF StartBundle
<1>4. q \in Nat /\ f \in Nat /\ c \in BOOLEAN /\ no \in BOOLEAN /\ MaxTs \in Timestamps
    BY <1>1, TimestampRange DEF StageState, TakeQueued
<1> HIDE DEF st, f, no, q, c, w
<1>5. KeepsStage(st, started)
    BY <1>1, <1>4 DEF KeepsStage, StageState
<1>6. started \in StageState /\ started.input = st.input /\ started.output = st.output
    BY <1>5 DEF KeepsStage
<1> HIDE DEF started
<1>7. KeepsStage(st, fresh)
    BY <1>1, <1>2, <1>4, <1>6 DEF KeepsStage, StageState
<1>8. KeepsStage(st, new)
    BY <1>5, <1>7
<1> HIDE DEF new
<1>9. Keeps(m, [m EXCEPT ![s] = new])
    BY <1>8, OneStageKeeps DEF st
<1> QED BY <1>3, <1>9, Zenon

LEMMA ProducedKeeps ==
    ASSUME NEW st \in StageState, st.watermark_at_last_run <= st.input,
           NEW c \in Stages, NEW p \in Stages, NEW empty \in BOOLEAN,
           NEW min_ts \in Timestamps \cup {None}
    PROVE  KeepsStage(st, Produced(st, c, p, empty, min_ts))
<1> DEFINE main == p \in MainInputs[c]
           side == p \in SideInputs[c]
           open == AcceptsInput(st, c, p)
           u == IF main THEN st.unproduced \ {p} ELSE st.unproduced
           pe == IF open THEN st.pending \cup {p} ELSE st.pending
           pm == IF open THEN Lower(st.pending_min, min_ts) ELSE st.pending_min
           em == IF ~(open \/ side) THEN st.pending_empty
                 ELSE IF empty THEN st.pending_empty \cup {p} ELSE st.pending_empty \ {p}
           us == IF side /\ ~empty THEN st.unproduced_side_inputs \ {p}
                 ELSE st.unproduced_side_inputs
<1>1. u \in SUBSET Stages /\ pe \in SUBSET Stages /\ em \in SUBSET Stages /\ us \in SUBSET Stages
    BY DEF StageState
<1>2. pm \in Timestamps
    BY TimestampRange DEF StageState, Lower
<1>3. Produced(st, c, p, empty, min_ts) =
        [st EXCEPT !.unproduced = u, !.pending = pe, !.pending_min = pm,
                   !.pending_empty = em, !.unproduced_side_inputs = us]
    BY Zenon DEF Produced, SideIsProduced
<1> HIDE DEF u, pe, pm, em, us
<1>4. KeepsStage(st, [st EXCEPT !.unproduced = u, !.pending = pe, !.pending_min = pm,
                   !.pending_empty = em, !.unproduced_side_inputs = us])
    BY <1>1, <1>2 DEF KeepsStage, StageState
<1> QED BY <1>3, <1>4, Zenon

LEMMA CompleteKeeps ==
    ASSUME NEW m, Inv(m), NEW s \in Stages, m[s].in_flight > 0,
           NEW output_min \in Timestamps \cup {None}, NEW no_input \in BOOLEAN
    PROVE  Keeps(m, CompleteBundle(m, s, output_min, no_input))
<1> DEFINE st == m[s]
           f == st.in_flight - 1
           yes == TRUE
           done == [st EXCEPT !.in_flight = f, !.completed = yes]
           marked == [m EXCEPT ![s].in_flight = f, ![s].completed = yes]
           finished == [m EXCEPT ![s] = done]
           empty == st.pending_empty # {} \/ (output_min = None /\ no_input)
           min_ts == IF st.pending_empty # {} THEN MinTs ELSE output_min
           n == CompleteBundle(m, s, output_min, no_input)
<1>1. st \in StageState /\ st.watermark_at_last_run <= st.input /\ st.in_flight > 0
    BY StageOf
<1>2. marked = finished
    <2>1. m \in [Stages -> StageState]
        BY DEF Inv, Managers
    <2> QED BY <2>1
<1>3. n = [c \in Stages |-> Produced(finished[c], c, s, empty, min_ts)]
    <2>1. n = [c \in Stages |-> Produced(marked[c], c, s, empty, min_ts)]
        BY Zenon DEF CompleteBundle
    <2> HIDE DEF n, marked, finished
    <2> QED BY <2>1, <1>2
<1>4. empty \in BOOLEAN /\ min_ts \in Timestamps \cup {None} /\ f \in Nat /\ yes \in BOOLEAN
    BY <1>1, TimestampRange DEF StageState
<1> HIDE DEF st, f, yes, empty, min_ts
<1>5. KeepsStage(st, done)
    BY <1>1, <1>4 DEF KeepsStage, StageState
<1> HIDE DEF done
<1>6. Keeps(m, finished)
    BY <1>5, OneStageKeeps DEF st
<1> HIDE DEF finished
<1>7. ASSUME NEW c \in Stages
      PROVE  KeepsStage(m[c], Produced(finished[c], c, s, empty, min_ts))
    <2>1. KeepsStage(m[c], finished[c])
        BY <1>6 DEF Keeps
    <2>2. KeepsStage(finished[c], Produced(finished[c], c, s, empty, min_ts))
        <3>1. /\ finished[c] \in StageState
              /\ finished[c].watermark_at_last_run <= finished[c].input
            BY <2>1 DEF KeepsStage
        <3> QED BY <3>1, <1>4, ProducedKeeps
    <2> QED BY <2>1, <2>2 DEF KeepsStage
<1> QED BY <1>3, <1>7, Zenon DEF Keeps

-----------------------------------------------------------------------------
(* Steps of the manager.                                                   *)

\* No watermark moves back, and one that moves stays behind every hold.
Moves(m, n) ==
    \A s \in Stages :
        /\ n[s].input >= m[s].input /\ n[s].output >= m[s].output
        /\ n[s].output > m[s].output => \A h \in HeldAt(n[s]) : n[s].output <= h

LEMMA KeepsMoves ==
    ASSUME NEW m, NEW n, Inv(m), Keeps(m, n)
    PROVE  Moves(m, n)
<1> SUFFICES ASSUME NEW s \in Stages
             PROVE  /\ n[s].input >= m[s].input /\ n[s].output >= m[s].output
                    /\ ~(n[s].output > m[s].output)
    BY DEF Moves
<1>1. m[s].input \in Int /\ m[s].output \in Int
    BY StageOf, TimestampRange DEF StageState
<1>2. n[s].input = m[s].input /\ n[s].output = m[s].output
    BY DEF Keeps, KeepsStage
<1> QED BY <1>1, <1>2

LEMMA RefreshInv ==
    ASSUME NEW m, Inv(m)
    PROVE  Inv(Refresh(m)) /\ Moves(m, Refresh(m))
<1> DEFINE n == Refresh(m)
           out == SettledOutput(m)
<1>0. m \in Managers
    BY DEF Inv
<1>1. /\ n \in Managers
      /\ \A s \in Stages :
            /\ n[s].output = Advanced(m, out, s) /\ n[s].output = out[s]
            /\ n[s].input = Higher(m[s].input, ComputeInput(out, s))
            /\ ComputeInput(out, s) \in Timestamps
            /\ ~IsSource(s) => \A p \in Producers(s) : ComputeInput(out, s) <= out[p]
            /\ HeldAt(n[s]) = HeldAt(m[s])
            /\ n[s].watermark_at_last_run = m[s].watermark_at_last_run
    BY <1>0, RefreshMoves
<1>2. out \in Outputs
    BY <1>0, SettledOutputSolves
<1> HIDE DEF n, out
<1>3. ASSUME NEW s \in Stages
      PROVE  /\ m[s].input \in Int /\ m[s].output \in Int /\ m[s] \in StageState
             /\ m[s].watermark_at_last_run \in Int
             /\ m[s].watermark_at_last_run <= m[s].input
             /\ out[s] \in Int /\ ComputeInput(out, s) \in Int
             /\ ComputeOutput(m, out, s) \in Int
             /\ \A l \in Limits(m, out, s) : ComputeOutput(m, out, s) <= l
             /\ \A p \in MainInputs[s] : p \in Stages /\ m[s].output <= m[p].output
             /\ Producers(s) \subseteq Stages
             /\ ~IsSource(s) => \A p \in Producers(s) : m[s].input <= m[p].output
    <2>1. m[s] \in StageState /\ m[s].watermark_at_last_run <= m[s].input
        BY StageOf
    <2>2. /\ ComputeOutput(m, out, s) \in Timestamps
          /\ \A l \in Limits(m, out, s) : ComputeOutput(m, out, s) <= l
        BY <1>0, <1>2, ComputeOutputIsMin
    <2>3. MainInputs[s] \subseteq Stages /\ Producers(s) \subseteq Stages
        BY GraphAssumption DEF Producers
    <2> QED BY <1>1, <1>2, <2>1, <2>2, <2>3, TimestampRange
            DEF StageState, Inv, Ordered, Outputs
<1>4. \A s \in Stages : out[s] = Higher(m[s].output, ComputeOutput(m, out, s))
    BY <1>1 DEF Advanced
<1>5. \A s \in Stages : n[s].input >= m[s].input /\ n[s].output >= m[s].output
    BY <1>1, <1>3, <1>4 DEF Higher
<1>6. ASSUME NEW s \in Stages, NEW p \in MainInputs[s] PROVE n[s].output <= n[p].output
    <2>1. ComputeOutput(m, out, s) <= out[p]
        <3>1. out[p] \in Limits(m, out, s)
            BY DEF Limits, IsSource
        <3> QED BY <3>1, <1>3
    <2>2. m[s].output <= m[p].output /\ p \in Stages /\ m[p].output <= out[p]
        BY <1>1, <1>3, <1>5
    <2>3. m[s].output <= out[p]
        BY <2>2, <1>3
    <2>4. out[s] <= out[p]
        BY <2>1, <2>3, <1>4 DEF Higher
    <2> QED BY <1>1, <2>2, <2>4
<1>7. ASSUME NEW s \in Stages, ~IsSource(s), NEW p \in Producers(s)
      PROVE  n[s].input <= n[p].output
    <2>1. m[s].input <= m[p].output /\ p \in Stages /\ m[p].output <= out[p]
        BY <1>1, <1>3, <1>5, <1>7
    <2>2. m[s].input <= out[p]
        BY <2>1, <1>3
    <2>3. ComputeInput(out, s) <= out[p]
        BY <1>1, <1>7
    <2> QED BY <1>1, <2>1, <2>2, <2>3 DEF Higher
<1>8. ASSUME NEW s \in Stages PROVE n[s].watermark_at_last_run <= n[s].input
    <2>1. m[s].watermark_at_last_run <= m[s].input /\ m[s].input <= n[s].input
        BY <1>3, <1>5, <1>1 DEF Higher
    <2>2. n[s].input \in Int
        BY <1>1, <1>3 DEF Higher
    <2> QED BY <2>1, <2>2, <1>1, <1>3
<1>9. ASSUME NEW s \in Stages, n[s].output > m[s].output, NEW h \in HeldAt(n[s])
      PROVE  n[s].output <= h
    <2>1. n[s].output = ComputeOutput(m, out, s)
        BY <1>1, <1>3, <1>4, <1>9 DEF Higher
    <2>2. /\ MinHold(m[s]) \in Timestamps \cup {None} /\ MinHold(m[s]) <= h
          /\ HeldAt(m[s]) \in SUBSET Timestamps /\ h \in HeldAt(m[s])
        BY <1>1, <1>3, HoldBounds
    <2>3. MinHold(m[s]) \in Limits(m, out, s)
        BY DEF Limits, OwnLimits
    <2>4. ComputeOutput(m, out, s) <= MinHold(m[s])
        BY <2>3, <1>3
    <2>5. MinHold(m[s]) \in Int /\ h \in Int
        BY <2>2, TimestampRange
    <2> QED BY <2>1, <2>2, <2>4, <2>5, <1>3
<1>10. Ordered(n)
    BY <1>6, <1>7, <1>8 DEF Ordered
<1>11. Moves(m, n)
    BY <1>5, <1>9 DEF Moves
<1> QED BY <1>1, <1>10, <1>11 DEF Inv, n

LEMMA ReleaseEmptyKeeps ==
    ASSUME NEW m, Inv(m)
    PROVE  Keeps(m, ReleaseEmpty(m))
<1> DEFINE left(s) == m[s].unproduced_side_inputs \ (m[s].pending_empty \cap SideInputs[s])
           n == [s \in Stages |-> [m[s] EXCEPT !.pending_empty = {},
                                               !.unproduced_side_inputs = left(s)]]
<1>1. ASSUME NEW s \in Stages PROVE KeepsStage(m[s], n[s])
    <2> DEFINE st == m[s]
               us == left(s)
               new == [st EXCEPT !.pending_empty = {}, !.unproduced_side_inputs = us]
    <2>1. st \in StageState /\ st.watermark_at_last_run <= st.input
        BY StageOf
    <2>2. us \in SUBSET Stages
        BY <2>1 DEF StageState
    <2>3. n[s] = new
        BY Zenon
    <2> HIDE DEF st, us
    <2>4. KeepsStage(st, new)
        BY <2>1, <2>2 DEF KeepsStage, StageState
    <2> HIDE DEF new, n
    <2> QED BY <2>3, <2>4 DEF st
<1>2. ReleaseEmpty(m) = n
    BY Zenon DEF ReleaseEmpty
<1> QED BY <1>1, <1>2, Zenon DEF Keeps

LEMMA ReleaseEmptyInv ==
    ASSUME NEW m, Inv(m)
    PROVE  Inv(ReleaseEmptyInputHolds(m)) /\ Moves(m, ReleaseEmptyInputHolds(m))
<1> DEFINE n == ReleaseEmpty(m)
<1>1. Keeps(m, n)
    BY ReleaseEmptyKeeps
<1>2. ReleaseEmptyInputHolds(m) = IF EmptyHeld(m) = {} THEN m ELSE Refresh(n)
    BY Zenon DEF ReleaseEmptyInputHolds
<1> HIDE DEF n
<1>3. Inv(Refresh(n)) /\ Moves(n, Refresh(n))
    BY <1>1, KeepsInv, RefreshInv
<1>4. Moves(m, Refresh(n))
    BY <1>1, <1>3 DEF Moves, Keeps, KeepsStage
<1>5. Moves(m, m)
    <2>1. Keeps(m, m)
        BY StageOf DEF Keeps, KeepsStage, Inv, Managers
    <2> QED BY <2>1, KeepsMoves
<1> QED BY <1>2, <1>3, <1>4, <1>5

LEMMA NewManagerInv == Inv(NewManager)
<1>1. ASSUME NEW s \in Stages PROVE AddStage(s) \in StageState
    <2>1. NoHolds \in Holds
        BY DEF NoHolds, Holds
    <2>2. NoPartitions \in [Partitions -> [watermark : Timestamps \cup {None}, idle : BOOLEAN]]
        BY DEF NoPartitions
    <2>3. MainInputs[s] \in SUBSET Stages /\ SideInputs[s] \in SUBSET Stages
        BY GraphAssumption
    <2> QED BY <2>1, <2>2, <2>3, TimestampRange DEF AddStage, StageState
<1>2. NewManager \in Managers
    BY <1>1 DEF NewManager, Managers
<1>3. ASSUME NEW s \in Stages
      PROVE  /\ NewManager[s].output = MinTs /\ NewManager[s].watermark_at_last_run = MinTs
             /\ NewManager[s].input = IF IsSource(s) THEN MaxTs ELSE MinTs
    BY DEF NewManager, AddStage
<1>4. \A s \in Stages : MainInputs[s] \subseteq Stages /\ Producers(s) \subseteq Stages
    BY GraphAssumption DEF Producers
<1>5. Ordered(NewManager)
    BY <1>3, <1>4, TimestampRange DEF Ordered
<1> QED BY <1>2, <1>5 DEF Inv
=============================================================================
