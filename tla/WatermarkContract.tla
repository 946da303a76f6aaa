------------------------- MODULE WatermarkContract --------------------------
(***************************************************************************)
(* What the watermark manager promises to whoever schedules by it: an      *)
(* abstract frontier per stage.  Watermarks never move back, no stage is   *)
(* told more than its producers have published, and an output watermark    *)
(* never moves past a hold that is in place.  How and when watermarks      *)
(* advance is left open.                                                   *)
(***************************************************************************)
EXTENDS Integers

CONSTANTS Stages, MainInputs, SideInputs, MinTs, MaxTs

VARIABLES
    input,      \* stage -> input watermark
    output,     \* stage -> output watermark
    held        \* stage -> the timestamps at which its output is held

vars == <<input, output, held>>

Timestamps == MinTs..MaxTs

Init ==
    /\ input = [s \in Stages |-> IF MainInputs[s] = {} THEN MaxTs ELSE MinTs]
    /\ output = [s \in Stages |-> MinTs]
    /\ held = [s \in Stages |-> {}]

\* Watermarks only move up.
NoRegress(s) == input'[s] >= input[s] /\ output'[s] >= output[s]

\* A stage is never ahead of a producer it reads from; side inputs limit what
\* a stage is told, not what it publishes.
BehindProducers(s) ==
    /\ \A p \in MainInputs[s] : output'[s] <= output'[p]
    /\ MainInputs[s] # {} =>
         \A p \in MainInputs[s] \cup SideInputs[s] : input'[s] <= output'[p]

\* An output watermark that moves stays at or below every hold in place.
RespectsHolds(s) ==
    output'[s] > output[s] => \A h \in held'[s] : output'[s] <= h

Next ==
    /\ input' \in [Stages -> Timestamps]
    /\ output' \in [Stages -> Timestamps]
    /\ held' \in [Stages -> SUBSET Timestamps]
    /\ \A s \in Stages : NoRegress(s) /\ BehindProducers(s) /\ RespectsHolds(s)

Spec == Init /\ [][Next]_vars
=============================================================================
