------------------------------ MODULE SqrtTasks ------------------------------
(***************************************************************************)
(* The square roots of Lab3/Task1. stage 4 is task1_4.c: N threads pick    *)
(* cells at random, compute those not done, each under the cell's mutex,   *)
(* and count tasks_left down under mx_main until none is left. stage 3 is  *)
(* tasl1_3.c: each thread computes one random cell under one mutex.        *)
(*                                                                         *)
(* A thread holds mx_main alone for as long as it reads or writes          *)
(* tasks_left: an action that uses tasks_left is a critical section.       *)
(***************************************************************************)
EXTENDS Naturals, FiniteSets

CONSTANTS N, K

VARIABLES stage, pc,
    main,             \* "join" or "printed"
    index,            \* the cell each thread has picked
    mx_cells,         \* the owner of each cell's mutex, 0 if free
    is_done,          \* the cells that are computed
    tasks_left

Threads == 1 .. N
Cells == 1 .. K
Free == 0

\* main: the arrays are filled, the threads created.
Arrays ==
    /\ main = "join"
    /\ pc = [t \in Threads |-> IF stage = 4 THEN "check" ELSE "pick"]
    /\ index = [t \in Threads |-> 1]
    /\ mx_cells = [c \in Cells |-> Free]
    /\ is_done = {}
    /\ tasks_left = K

\* main of tasl1_3.c and of task1_4.c up to the joins
Init3 == stage = 3 /\ Arrays
Init4 == stage = 4 /\ Arrays
Init == Init3 \/ Init4

Goto(t, l) == pc' = [pc EXCEPT ![t] = l]

\* Under mx_main: nothing left, the thread ends.
CheckLeft(t) ==
    /\ pc[t] = "check"
    /\ Goto(t, IF tasks_left <= 0 THEN "done" ELSE "pick")
    /\ UNCHANGED <<stage, main, index, mx_cells, is_done, tasks_left>>

\* rand_r(&arg->seed) % arg->k
Pick(t) ==
    /\ pc[t] = "pick"
    /\ \E c \in Cells : index' = [index EXCEPT ![t] = c]
    /\ Goto(t, "lock")
    /\ UNCHANGED <<stage, main, mx_cells, is_done, tasks_left>>

\* Mutant: the cell is not locked.
LockNothing(t) ==
    /\ pc[t] = "lock"
    /\ Goto(t, IF index[t] \in is_done THEN "unlock" ELSE "work")
    /\ UNCHANGED <<stage, main, index, mx_cells, is_done, tasks_left>>

\* Lock the cell and test is_done. Stage 3 locks one mutex for all (cell 1's here).
Lock(t) ==
    LET m == IF stage = 4 THEN index[t] ELSE 1
    IN  /\ pc[t] = "lock"
        /\ mx_cells[m] = Free
        /\ mx_cells' = [mx_cells EXCEPT ![m] = t]
        /\ Goto(t, IF stage = 4 /\ index[t] \in is_done THEN "unlock" ELSE "work")
        /\ UNCHANGED <<stage, main, index, is_done, tasks_left>>

\* results[index] and is_done[index]
Work(t) ==
    /\ pc[t] = "work"
    /\ is_done' = is_done \cup {index[t]}
    /\ Goto(t, IF stage = 4 THEN "count" ELSE "unlock")
    /\ UNCHANGED <<stage, main, index, mx_cells, tasks_left>>

\* Under mx_main, with the cell still locked.
CountDown(t) ==
    /\ pc[t] = "count"
    /\ tasks_left' = tasks_left - 1
    /\ Goto(t, "unlock")
    /\ UNCHANGED <<stage, main, index, mx_cells, is_done>>

Unlock(t) ==
    /\ pc[t] = "unlock"
    /\ mx_cells' = [c \in Cells |-> IF mx_cells[c] = t THEN Free ELSE mx_cells[c]]
    /\ Goto(t, IF stage = 4 THEN "check" ELSE "done")
    /\ UNCHANGED <<stage, main, index, is_done, tasks_left>>

\* main has joined all threads and prints the arrays.
PrintArrays ==
    /\ main = "join"
    /\ \A t \in Threads : pc[t] = "done"
    /\ main' = "printed"
    /\ UNCHANGED <<stage, pc, index, mx_cells, is_done, tasks_left>>

\* The joins and what follows them in main of tasl1_3.c and of task1_4.c
Join3 == stage = 3 /\ PrintArrays
Join4 == stage = 4 /\ PrintArrays
Main == Join3 \/ Join4

\* thread_func of task1_4.c and of tasl1_3.c
Thread4(t) ==
    stage = 4 /\ (CheckLeft(t) \/ Pick(t) \/ Lock(t) \/ Work(t) \/ CountDown(t) \/ Unlock(t))
Thread3(t) == stage = 3 /\ (Pick(t) \/ Lock(t) \/ Work(t) \/ Unlock(t))

Step(t) == Thread3(t) \/ Thread4(t)
Next == Main \/ \E t \in Threads : Step(t)

\* Every cell is counted once: tasks_left is the number of cells not done and of
\* threads that still have to count theirs, so no thread ends (and main prints no
\* array) while a cell is open or half done.
CellsCountedOnce ==
    stage = 4 =>
        /\ tasks_left = Cardinality(Cells \ is_done)
                        + Cardinality({t \in Threads : pc[t] = "count"})
        /\ (\E t \in Threads : pc[t] = "done") => is_done = Cells
=============================================================================
