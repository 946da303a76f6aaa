-------------------------- MODULE WatermarkRefresh --------------------------
(***************************************************************************)
(* The WatermarkManager with the loop of refresh as the code runs it: in   *)
(* rounds over the stages in the order of their ids, each visit computing  *)
(* one stage from the watermarks as they are and assigning those that are  *)
(* higher, until a round has changed nothing.                              *)
(*                                                                         *)
(* The methods take &mut self, so no other call comes while the loop runs. *)
(* called keeps the manager state as it was before the call in progress;   *)
(* seen through it a call is one step, the step of WatermarkManager.       *)
(***************************************************************************)
EXTENDS WatermarkManager, Sequences

CONSTANT Order      \* the stages in the order of their ids, as stages() lists them

ASSUME OrderAssumption ==
    /\ Order \in Seq(Stages)
    /\ \A s \in Stages : \E i \in DOMAIN Order : Order[i] = s

VARIABLES
    called,         \* the manager state before the call in progress
    releasing,      \* whether release_empty_input_holds called refresh
    next,           \* position of the next visit in Order, 0 outside refresh
    changed,        \* whether this round has changed a watermark
    advanced        \* the stages whose watermarks have moved

loopVars == <<releasing, next, changed, advanced>>
refreshVars == <<stages, called, loopVars>>

RefreshInit ==
    /\ Init /\ called = stages
    /\ releasing = FALSE /\ next = 0 /\ changed = FALSE /\ advanced = {}

Call ==
    /\ next = 0 /\ PlainCall
    /\ called' = stages' /\ UNCHANGED loopVars

EnterLoop == next' = 1 /\ changed' = FALSE /\ advanced' = {} /\ UNCHANGED called

RefreshEnters ==
    /\ next = 0
    /\ EnterLoop /\ releasing' = FALSE /\ UNCHANGED stages

ReleaseEnters ==
    /\ next = 0 /\ EmptyHeld(stages) # {}
    /\ stages' = ReleaseEmpty(stages)
    /\ EnterLoop /\ releasing' = TRUE

Advances_NotLess(new, old) == new >= old

Advances(new, old) == new > old

Assign_Always(old, new) == new

\* The assignment of a computed watermark to a field of the stage.
Assign(old, new) == IF Advances(new, old) THEN new ELSE old

Note_Latest(s, moves) == IF moves THEN {s} ELSE advanced

\* advanced.insert(id), when one of its watermarks moves.
Note(s, moves) == IF moves THEN advanced \cup {s} ELSE advanced

Visit ==
    /\ next \in DOMAIN Order
    /\ LET s      == Order[next]
           output == [p \in Stages |-> stages[p].output]
           new_input  == ComputeInput(output, s)
           new_output == ComputeOutput(stages, output, s)
           moves  == Advances(new_input, stages[s].input)
                       \/ Advances(new_output, stages[s].output)
       IN  /\ stages' = [stages EXCEPT ![s].input = Assign(@, new_input),
                                       ![s].output = Assign(@, new_output)]
           /\ changed' = (changed \/ moves)
           /\ advanced' = Note(s, moves)
    /\ next' = next + 1
    /\ UNCHANGED <<called, releasing>>

RoundIsLast_Always(c) == TRUE

RoundIsLast(c) == ~c

RoundEnds ==
    /\ next = Len(Order) + 1
    /\ IF RoundIsLast(changed)
       THEN next' = 0 /\ called' = stages /\ releasing' = FALSE
       ELSE next' = 1 /\ UNCHANGED <<called, releasing>>
    /\ changed' = FALSE
    /\ UNCHANGED <<stages, advanced>>

RefreshNext == Call \/ RefreshEnters \/ ReleaseEnters \/ Visit \/ RoundEnds

\* The loop is straight-line code of the caller's thread.
RefreshSpec ==
    RefreshInit /\ [][RefreshNext]_refreshVars /\ WF_refreshVars(Visit \/ RoundEnds)

-----------------------------------------------------------------------------
Returns == next # 0 /\ next' = 0

\* When refresh returns no stage is left behind: computed from the watermarks
\* as they are then, none would advance ("Advance every watermark to a
\* fixpoint"), however the order of the ids runs against the data flow.
RefreshSettles ==
    [][Returns => \A s \in Stages : NothingToAdvance(stages', s)]_refreshVars

Moved(s) ==
    stages'[s].input # called[s].input \/ stages'[s].output # called[s].output

\* refresh returns exactly the stages whose input or output watermark differs
\* from what it was before the call, over all rounds.
AdvancedReported ==
    [][Returns => advanced' = {s \in Stages : Moved(s)}]_refreshVars

\* The loop of refresh ends.
RefreshReturns == next # 0 ~> next = 0
=============================================================================
