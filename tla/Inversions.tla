----------------------------- MODULE Inversions -----------------------------
(***************************************************************************)
(* What the array swapper of Lab3/Task2 promises to whoever sends it       *)
(* signals: to invert a piece of the array is to swap its ends, then the   *)
(* next two cells, and so on inwards; each swap is one step, also where    *)
(* pieces overlap; and a line that is printed is the array at one moment.  *)
(* Nothing here says how: no mutex, no temp, no cell that is read alone.   *)
(***************************************************************************)
EXTENDS Integers

CONSTANTS N, Swappers, Printers

VARIABLES
    array,
    rest,         \* what each swapper has still to invert: <<l, r>>, or <<>>
    line          \* the line each printer has, <<>> if none

vars == <<array, rest, line>>

Indices == 0 .. N - 1

\* The piece from l to r, as long as it has two ends.
Piece(l, r) == IF l < r THEN <<l, r>> ELSE <<>>

Init ==
    /\ array = [i \in Indices |-> i]
    /\ rest = [t \in Swappers |-> <<>>]
    /\ line = [p \in Printers |-> <<>>]

Begin(t) ==
    /\ rest[t] = <<>>
    /\ \E a, b \in Indices : a < b /\ rest' = [rest EXCEPT ![t] = <<a, b>>]
    /\ UNCHANGED <<array, line>>

\* The two ends change places, and the piece shrinks.
Swap(t) ==
    \E l, r \in Indices :
        /\ l < r
        /\ rest[t] = <<l, r>>
        /\ array' = [array EXCEPT ![l] = array[r], ![r] = array[l]]
        /\ rest' = [rest EXCEPT ![t] = Piece(l + 1, r - 1)]
        /\ UNCHANGED line

PrintLine(p) == line' = [line EXCEPT ![p] = array] /\ UNCHANGED <<array, rest>>
Forget(p) == line' = [line EXCEPT ![p] = <<>>] /\ UNCHANGED <<array, rest>>

Next ==
    \/ \E t \in Swappers : Begin(t) \/ Swap(t)
    \/ \E p \in Printers : PrintLine(p) \/ Forget(p)

Spec == Init /\ [][Next]_vars
=============================================================================
