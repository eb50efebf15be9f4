---------------------------- MODULE MCSwapStages ----------------------------
(* SwapStages for TLC: how often each signal is sent. *)
EXTENDS SwapStages

CONSTANTS Swaps, Prints

MCBudget == [s \in Signals |-> CASE s = "USR1" -> Swaps [] s = "USR2" -> Prints [] s = "INT" -> 1]
=============================================================================
