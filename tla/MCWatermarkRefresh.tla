------------------------- MODULE MCWatermarkRefresh -------------------------
(***************************************************************************)
(* WatermarkRefresh on a chain: the source S feeds B, which feeds A.  The  *)
(* ids sort against the data flow, so a round moves a watermark by one     *)
(* stage only.                                                             *)
(***************************************************************************)
EXTENDS WatermarkCalls

MCMinTs == -1

ChainStages == {"A", "B", "S"}
SortedIds == <<"A", "B", "S">>

MCMainInputs ==
    [s \in Stages |-> CASE s = "A" -> {"B"} [] s = "B" -> {"S"} [] OTHER -> {}]
MCSideInputs == [s \in Stages |-> {}]
MCKind == [s \in Stages |-> "Ordinary"]
MCRequired == [s \in Stages |-> MinTs]
MCMaxInFlight == [s \in Stages |-> 1]
MCMaxQueued == [s \in Stages |-> 0]

\* The maps of holds that hold nothing, or A once, at the epoch.
MCHoldMaps == {[s \in Stages |-> [t \in Timestamps |->
    IF h /\ s = "A" /\ t = 0 THEN 1 ELSE 0]] : h \in BOOLEAN}
=============================================================================
