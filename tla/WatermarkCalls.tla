--------------------------- MODULE WatermarkCalls ---------------------------
(***************************************************************************)
(* The manager with the loop of refresh, seen call by call.                *)
(***************************************************************************)
EXTENDS WatermarkRefresh

Manager == INSTANCE WatermarkManager WITH stages <- called

\* With a call taken as one step, the manager with the loop is WatermarkManager:
\* the loop computes Refresh whatever the order of the ids.
ImplementsManager == Manager!Spec
=============================================================================
