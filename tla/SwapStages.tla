----------------------------- MODULE SwapStages -----------------------------
(***************************************************************************)
(* The four stages of the array swapper in Lab3/Task2, put together from   *)
(* the actions of ArraySwap:                                               *)
(*   1  task2_1.c   main inverts a piece of the array itself;              *)
(*   2  task2_2.c   SIGUSR2 starts detached printers;                      *)
(*   3  task2_3.c   SIGUSR1 starts at most P counted swappers;             *)
(*   4  task2_4.c   SIGINT waits for the swappers and cleans up.           *)
(* A behaviour is one run of stage 1, 2 or 4; stage 4 without a SIGINT is  *)
(* stage 3, and is put together from it. Where main inverts itself, one    *)
(* member of Swappers stands for main inside perform_inversion. SIGINT     *)
(* ends the stages that do not handle it on the spot, and has no action.   *)
(***************************************************************************)
EXTENDS ArraySwap

\* In the stages 1 and 2 main itself swaps.
ASSUME SwappersAssumption == Swappers # {}

VARIABLE stage

stagevars == <<vars, stage>>

\* perform_inversion, and the threads that run it or print, stage by stage.
Inversion1(t) == LockStep(t) \/ Move(t) \/ Put(t) \/ UnlockRight(t) \/ UnlockLeft(t)
Inversion2(t) == Inversion1(t)
Inversion3(t) == Inversion1(t)
Swapping3(t) == Inversion3(t) \/ Finish(t)
Printing2(p) == LockCells(p) \/ PrintCells(p) \/ UnlockCells(p)
Printing3(p) == Printing2(p)

\* The main thread inside perform_inversion.
MainThread == CHOOSE t \in Swappers : TRUE

\* Two random indices: equal ones are ignored ("continue" skips what follows),
\* others are inverted, the smaller one first.
Invert ==
    /\ mpc = "admit"
    /\ \/ mpc' = "pause" /\ UNCHANGED swapping
       \/ \E a, b \in Indices :
              /\ a < b
              /\ spc' = [spc EXCEPT ![MainThread] = "lock_left"]
              /\ left' = [left EXCEPT ![MainThread] = a]
              /\ right' = [right EXCEPT ![MainThread] = b]
              /\ mpc' = "invert"
              /\ UNCHANGED temp
    /\ UNCHANGED <<shared, received, freed, printing, sent>>

\* perform_inversion runs in main, and returns to the loop.
InvertStep(l) ==
    \/ /\ mpc = "invert"
       /\ IF stage = 1 THEN Inversion1(MainThread) ELSE Inversion2(MainThread)
    \/ /\ spc[MainThread] = "stats"
       /\ SGoto(MainThread, "idle")
       /\ left' = [left EXCEPT ![MainThread] = 0]
       /\ right' = [right EXCEPT ![MainThread] = 0]
       /\ temp' = [temp EXCEPT ![MainThread] = 0]
       /\ mpc' = l
       /\ UNCHANGED <<shared, received, freed, printing, sent>>

\* Without a request, stage 1 goes back to pause; there is no other request.
BackToPause ==
    /\ mpc = "sig2"
    /\ mpc' = "pause"
    /\ UNCHANGED <<shared, received, freed, swapping, printing, sent>>

Main1 == CheckInterrupt \/ CheckSwap \/ Invert \/ InvertStep("pause") \/ BackToPause
Main2 == CheckInterrupt \/ CheckSwap \/ Invert \/ InvertStep("sig2") \/ CheckPrint
Main3 ==
    CheckInterrupt \/ CheckSwap \/ Admit \/ CreateSwapper \/ CreateFails \/ CheckPrint

\* What SIGINT adds to stage 3.
Ending4 == WaitForThreads \/ CleanUp \/ Exit

\* main before its loop. Stage 4 starts as stage 3 does.
Start1 == stage = 1 /\ Init
Start2 == stage = 2 /\ Init
Start3 == Init
Start4 == stage = 4 /\ Start3

Handled(s) ==
    CASE s = "USR1" -> TRUE
      [] s = "USR2" -> stage >= 2
      [] s = "INT" -> stage = 4

StageMain ==
    /\ \/ stage = 1 /\ Main1
       \/ stage = 2 /\ Main2
       \/ stage = 4 /\ (Main3 \/ Ending4)
    /\ UNCHANGED stage

StageSwapper(t) ==
    /\ stage = 4 /\ Alive
    /\ Swapping3(t)
    /\ UNCHANGED stage

StagePrinter(p) ==
    /\ \/ stage = 2 /\ Printing2(p)
       \/ stage = 4 /\ Alive /\ Printing3(p)
       \/ stage = 4 /\ UseFreed(p)
    /\ UNCHANGED stage

StagesInit == Start1 \/ Start2 \/ Start4

StagesNext ==
    \/ \E s \in Signals : Handled(s) /\ Signal(s) /\ UNCHANGED stage
    \/ StageMain
    \/ \E t \in Swappers : StageSwapper(t)
    \/ \E p \in Printers : StagePrinter(p)
    \/ Quiet /\ UNCHANGED stage

\* As in ArraySwap: threads that can run are scheduled, signals need not come.
StagesSpec ==
    /\ StagesInit
    /\ [][StagesNext]_stagevars
    /\ WF_stagevars(StageMain)
    /\ \A t \in Swappers : WF_stagevars(StageSwapper(t))
    /\ \A p \in Printers : WF_stagevars(StagePrinter(p))

-----------------------------------------------------------------------------
(* Every stage implements Inversions *)

\* What a swapper has still to invert: its two cells count as swapped from the
\* moment it has moved the first of the two numbers.
rest ==
    [t \in Swappers |->
        CASE spc[t] \in {"lock_left", "lock_right", "move"} -> <<left[t], right[t]>>
          [] spc[t] \in {"put", "unlock_right", "unlock_left"} ->
                 IF left[t] + 1 < right[t] - 1 THEN <<left[t] + 1, right[t] - 1>> ELSE <<>>
          [] OTHER -> <<>>]

\* A printer has its line when it has read the last cell.
line == [p \in Printers |-> IF ppc[p] = "unlock" THEN printed[p] ELSE <<>>]

AI == INSTANCE Inversions WITH array <- Restored

-----------------------------------------------------------------------------
(* Properties *)

\* "All threads busy" of the stages that count their swappers.
StagesCountIsExact == stage = 4 => CountIsExact

\* Deadlock freedom of the lock order in every stage: whoever locks cells - main
\* itself, the swappers, a printer that locks them all - gets out again, so the
\* threads that signals have started are always gone in the end, and with them
\* the wait loop of stage 4.
LockingEnds ==
    []<>(\/ mpc = "exit"
         \/ /\ mpc = "pause"
            /\ \A t \in Swappers : spc[t] = "idle"
            /\ \A p \in Printers : ppc[p] = "idle")

\* Refinement: with a mutex for each cell, the threads together do what one
\* thread would that swaps two cells in one step and prints the array in one.
\* So a line never shows a swap half done, nor one piece before and another
\* after the moment it is taken, and no swap of overlapping pieces is lost.
ImplementsInversions == AI!Spec
=============================================================================
