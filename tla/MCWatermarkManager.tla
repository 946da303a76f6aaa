------------------------- MODULE MCWatermarkManager -------------------------
(***************************************************************************)
(* WatermarkManager on a fork: the source S feeds A, the source T is a     *)
(* side input of A.                                                        *)
(***************************************************************************)
EXTENDS WatermarkManager

MCMinTs == -1

ForkStages == {"S", "T", "A"}

MCMainInputs == [s \in Stages |-> IF s = "A" THEN {"S"} ELSE {}]
MCSideInputs == [s \in Stages |-> IF s = "A" THEN {"T"} ELSE {}]
MCKind == [s \in Stages |-> IF s = "A" THEN "TimeSorted" ELSE "Ordinary"]
MCRequired == [s \in Stages |-> IF s = "A" THEN MaxTs ELSE MinTs]
MCMaxInFlight == [s \in Stages |-> IF s = "A" THEN 2 ELSE 1]
MCMaxQueued == [s \in Stages |-> IF s = "A" THEN 1 ELSE 0]
=============================================================================
