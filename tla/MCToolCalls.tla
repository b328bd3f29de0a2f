---------------------------- MODULE MCToolCalls ----------------------------
(* One run with a call of each interesting class. *)
EXTENDS ToolCallsProperties, TLC

Alike == Permutations(Executions)
=============================================================================
