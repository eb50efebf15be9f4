---------------------------- MODULE MCArraySwap ----------------------------
(* ArraySwap for TLC: how often each signal is sent. *)
EXTENDS ArraySwap, TLC

CONSTANTS Swaps, Prints

MCBudget == [s \in Signals |-> CASE s = "USR1" -> Swaps [] s = "USR2" -> Prints [] s = "INT" -> 1]

\* Threads are interchangeable.
Symmetry == Permutations(Swappers) \cup Permutations(Printers)
=============================================================================
