---------------------------- MODULE MCPoolStages ----------------------------
(* PoolStages for TLC: the tasks are the pairs of a command and an index. *)
EXTENDS PoolStages

CONSTANTS CommandBound, TaskBound

MCCommands == 1 .. CommandBound
MCTasks == MCCommands \X (1 .. TaskBound)
=============================================================================
