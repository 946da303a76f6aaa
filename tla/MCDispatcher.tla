---------------------------- MODULE MCDispatcher ----------------------------
(***************************************************************************)
(* Small pipelines for Dispatcher.  The stages are named by their part:    *)
(*   S  an Impulse, or a TestStream when it is in TestStreams              *)
(*   A  a worker stage reading S                                           *)
(*   B  a worker stage reading A                                           *)
(*   D  a worker stage reading S, with the side input A                    *)
(*   X  a splittable stage reading S                                       *)
(*   C  a worker stage reading B                                           *)
(*   G  an aggregation over the stage before it, gated at the end of time  *)
(***************************************************************************)
EXTENDS Dispatcher

CONSTANTS S, A, B, C, D, X, G

MCMinTs == -1

ChainStages == {S, A, B, G}
WorkerStages == {S, A, B, C}
PairStages == {S, A, B}
SourceStages == {S, A, G}
SplitStages == {S, X, G}
SideStages == {S, A, D, G}

\* What G reads.
LastStages ==
    CASE B \in Stages -> {B}
      [] D \in Stages -> {D}
      [] X \in Stages -> {X}
      [] OTHER -> {A}

MCMainInputs ==
    [s \in Stages |->
        CASE s = A -> {S}
          [] s = X -> {S}
          [] s = D -> {S}
          [] s = B -> {A}
          [] s = C -> {B}
          [] s = G -> LastStages
          [] OTHER -> {}]
MCSideInputs == [s \in Stages |-> IF s = D THEN {A} ELSE {}]
MCKind == [s \in Stages |-> IF s = G THEN "WatermarkGated" ELSE "Ordinary"]
MCRequired == [s \in Stages |-> IF s = G THEN MaxTs ELSE MinTs]
MCMaxInFlight == [s \in Stages |-> IF s = X THEN 2 ELSE 1]
MCWorkers == Stages \cap {A, B, C, D}
MCSplittables == Stages \cap {X}

MCMaxCommits == [s \in Stages |-> IF s = S THEN 3 ELSE IF s = G THEN 1 ELSE 2]

Timer(fire, hold) == [fire |-> fire, hold |-> hold]
OneSetting == {Timer(1, 0)}
OwnerByName == [k \in TimerKeys |-> IF k = "b" THEN B ELSE IF k = "c" THEN C ELSE A]
AllEvent == [k \in TimerKeys |-> "event"]
MixedDomains == [k \in TimerKeys |-> IF k = "p" THEN "processing" ELSE "event"]
FromTheStart == {MinTs, 0}
Event(type, at) == [type |-> type, at |-> at]
MCScript ==
    [s \in TestStreams |->
        <<Event("element", 0), Event("watermark", 1), Event("element", 1), Event("time", 1)>>]
SideScript ==
    [s \in TestStreams |-> <<Event("watermark", 0), Event("element", 0), Event("element", 1)>>]
NoScript == [s \in TestStreams |-> <<>>]
=============================================================================
