---------------------------- MODULE MC_TaskInit ----------------------------
(* Model-checking instance of TaskInit: three declared tasks in a table   *)
(* of three metadata cells (four runtime cells with idle).                *)
EXTENDS TaskInit

MC_NumTasks == 3
MC_MaxTasks == 3
MC_Ids == {1, 2}
=============================================================================
