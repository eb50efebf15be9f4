------------------------------ MODULE ArraySwap ------------------------------
(***************************************************************************)
(* The array swapper of Lab3/Task2 (task2_4.c, its last stage). Main       *)
(* sleeps in pause; SIGUSR1 asks for a thread that inverts a piece of the  *)
(* array, SIGUSR2 for one that prints it, SIGINT for the end. Every cell   *)
(* has a mutex; the threads are detached, and main knows of them only      *)
(* through active_threads.                                                 *)
(*                                                                         *)
(* The sections of mx_stats block nowhere and are one action each.         *)
(***************************************************************************)
EXTENDS Integers, FiniteSets, Functions

CONSTANTS
    N,                \* the number of cells
    P,                \* the most swappers at a time
    Swappers,         \* the swapper threads
    Printers,         \* the printer threads
    Nobody,
    Budget            \* bound: how often each signal may be sent

ASSUME SizeAssumption == N \in Nat /\ N >= 2 /\ P \in Nat \ {0}
ASSUME ThreadsAssumption ==
    /\ IsFiniteSet(Swappers) /\ IsFiniteSet(Printers)
    /\ Swappers \cap Printers = {}
    /\ Nobody \notin Swappers \cup Printers

Signals == {"USR1", "USR2", "INT"}
ASSUME BudgetAssumption == Budget \in [Signals -> Nat]

Indices == 0 .. N - 1

VARIABLES
    array,
    mx_array,         \* the owner of each cell's mutex, or Nobody
    active_threads,
    received,         \* sig1_received, sig2_received and sigint_received
    mpc,              \* where main is
    spc,              \* where each swapper is
    left, right,      \* its local variables
    temp,
    ppc,              \* where each printer is
    next,             \* the i of its current loop
    printed,          \* the line it prints
    freed,            \* the array and the mutexes are freed
    sent              \* how often each signal was sent

swapping == <<spc, left, right, temp>>
printing == <<ppc, next, printed>>
shared == <<array, mx_array, active_threads>>
main == <<mpc, received, freed>>
vars == <<shared, main, swapping, printing, sent>>

SwapperPCs == {"idle", "lock_left", "lock_right", "move", "put", "unlock_right",
               "unlock_left", "stats"}
PrinterPCs == {"idle", "lock", "print", "unlock", "undefined"}
MainPCs == {"pause", "sigint", "wait", "sig1", "admit", "create", "invert", "sig2",
            "clean", "exit"}

TypeOK ==
    /\ array \in [Indices -> Indices]
    /\ mx_array \in [Indices -> Swappers \cup Printers \cup {Nobody}]
    /\ active_threads \in 0 .. P
    /\ received \in [Signals -> BOOLEAN]
    /\ mpc \in MainPCs
    /\ spc \in [Swappers -> SwapperPCs]
    /\ left \in [Swappers -> Indices]
    /\ right \in [Swappers -> Indices]
    /\ temp \in [Swappers -> Indices]
    /\ ppc \in [Printers -> PrinterPCs]
    /\ next \in [Printers -> Indices]
    /\ printed \in [Printers -> [Indices -> Indices]]
    /\ freed \in BOOLEAN
    /\ sent \in [Signals -> Nat]

Init ==
    /\ array = [i \in Indices |-> i]
    /\ mx_array = [i \in Indices |-> Nobody]
    /\ active_threads = 0
    /\ received = [s \in Signals |-> FALSE]
    /\ mpc = "pause"
    /\ spc = [t \in Swappers |-> "idle"]
    /\ left = [t \in Swappers |-> 0]
    /\ right = [t \in Swappers |-> 0]
    /\ temp = [t \in Swappers |-> 0]
    /\ ppc = [p \in Printers |-> "idle"]
    /\ next = [p \in Printers |-> 0]
    /\ printed = [p \in Printers |-> [i \in Indices |-> 0]]
    /\ freed = FALSE
    /\ sent = [s \in Signals |-> 0]

-----------------------------------------------------------------------------
(* sig_handler *)

\* A signal arrives. Linux runs the handler in the main thread, and pause
\* returns if main is in it; a flag that is already set stays set.
Signal(s) ==
    /\ mpc # "exit"
    /\ sent[s] < Budget[s]
    /\ sent' = [sent EXCEPT ![s] = @ + 1]
    /\ received' = [received EXCEPT ![s] = TRUE]
    /\ mpc' = IF mpc = "pause" THEN "sigint" ELSE mpc
    /\ UNCHANGED <<shared, swapping, printing, freed>>

-----------------------------------------------------------------------------
(* main *)

\* if (sigint_received)
CheckInterrupt ==
    /\ mpc = "sigint"
    /\ mpc' = IF received["INT"] THEN "wait" ELSE "sig1"
    /\ UNCHANGED <<shared, received, freed, swapping, printing, sent>>

\* Mutant: main leaves the wait loop when one thread is left.
WaitForMost ==
    /\ mpc = "wait"
    /\ active_threads <= 1
    /\ mpc' = "clean"
    /\ UNCHANGED <<shared, received, freed, swapping, printing, sent>>

\* The wait loop polls active_threads until it is 0.
WaitForThreads ==
    /\ mpc = "wait"
    /\ active_threads = 0
    /\ mpc' = "clean"
    /\ UNCHANGED <<shared, received, freed, swapping, printing, sent>>

\* if (sig1_received): the request is taken and the flag reset. A handler that
\* ran between the two would have the effect of one that ran before.
CheckSwap ==
    /\ mpc = "sig1"
    /\ received' = [received EXCEPT !["USR1"] = FALSE]
    /\ mpc' = IF received["USR1"] THEN "admit" ELSE "sig2"
    /\ UNCHANGED <<shared, freed, swapping, printing, sent>>

\* Mutant: active_threads > P.
BusyLate == active_threads > P

\* active_threads >= P
Busy == active_threads >= P

\* The new thread is counted, or the request dropped; "continue" then skips
\* the printer's request.
Admit ==
    /\ mpc = "admit"
    /\ mpc' = IF Busy THEN "pause" ELSE "create"
    /\ active_threads' = active_threads + (IF Busy THEN 0 ELSE 1)
    /\ UNCHANGED <<array, mx_array, received, freed, swapping, printing, sent>>

\* pthread_create with two different random indices, the smaller one first.
CreateSwapper ==
    /\ mpc = "create"
    /\ \E t \in Swappers, a, b \in Indices :
          /\ spc[t] = "idle"
          /\ a < b
          /\ spc' = [spc EXCEPT ![t] = "lock_left"]
          /\ left' = [left EXCEPT ![t] = a]
          /\ right' = [right EXCEPT ![t] = b]
    /\ mpc' = "sig2"
    /\ UNCHANGED <<shared, received, freed, temp, printing, sent>>

\* pthread_create fails: the count is corrected and ERR ends the process.
CreateFails ==
    /\ mpc = "create"
    /\ active_threads' = active_threads - 1
    /\ mpc' = "exit"
    /\ UNCHANGED <<array, mx_array, received, freed, swapping, printing, sent>>

\* if (sig2_received): the flag is reset and a printer created.
CheckPrint ==
    /\ mpc = "sig2"
    /\ mpc' = "pause"
    /\ received' = [received EXCEPT !["USR2"] = FALSE]
    /\ IF received["USR2"]
       THEN \E p \in Printers :
                /\ ppc[p] = "idle"
                /\ ppc' = [ppc EXCEPT ![p] = "lock"]
                /\ next' = [next EXCEPT ![p] = 0]
       ELSE UNCHANGED <<ppc, next>>
    /\ UNCHANGED <<shared, freed, swapping, printed, sent>>

\* The mutexes are destroyed and the memory freed.
CleanUp ==
    /\ mpc = "clean"
    /\ ~ freed
    /\ freed' = TRUE
    /\ UNCHANGED <<shared, mpc, received, swapping, printing, sent>>

\* main returns, and the process ends with every thread still in it.
Exit ==
    /\ mpc = "clean"
    /\ freed
    /\ mpc' = "exit"
    /\ UNCHANGED <<shared, received, freed, swapping, printing, sent>>

MainStep ==
    CheckInterrupt \/ WaitForThreads \/ CheckSwap \/ Admit \/ CreateSwapper
        \/ CreateFails \/ CheckPrint \/ CleanUp \/ Exit

-----------------------------------------------------------------------------
(* swapper_thread and perform_inversion *)

Lock(i, t) == mx_array[i] = Nobody /\ mx_array' = [mx_array EXCEPT ![i] = t]
Unlock(i) == mx_array' = [mx_array EXCEPT ![i] = Nobody]

SGoto(t, l) == spc' = [spc EXCEPT ![t] = l]

\* Mutant: the larger index is locked first.
LockRightFirst(t) ==
    \/ spc[t] = "lock_left" /\ Lock(right[t], t) /\ SGoto(t, "lock_right")
    \/ spc[t] = "lock_right" /\ Lock(left[t], t) /\ SGoto(t, "move")

\* Mutant: the cell on the right is not locked.
LockLeftOnly(t) ==
    spc[t] = "lock_left" /\ Lock(left[t], t) /\ SGoto(t, "move")

\* The mutexes of the two cells, the smaller index first.
LockPair(t) ==
    \/ spc[t] = "lock_left" /\ Lock(left[t], t) /\ SGoto(t, "lock_right")
    \/ spc[t] = "lock_right" /\ Lock(right[t], t) /\ SGoto(t, "move")

LockStep(t) ==
    LockPair(t) /\ UNCHANGED <<array, active_threads, main, left, right, temp, printing, sent>>

\* temp = array[left]; array[left] = array[right]
Move(t) ==
    /\ spc[t] = "move"
    /\ temp' = [temp EXCEPT ![t] = array[left[t]]]
    /\ array' = [array EXCEPT ![left[t]] = array[right[t]]]
    /\ SGoto(t, "put")
    /\ UNCHANGED <<mx_array, active_threads, main, left, right, printing, sent>>

\* array[right] = temp
Put(t) ==
    /\ spc[t] = "put"
    /\ array' = [array EXCEPT ![right[t]] = temp[t]]
    /\ SGoto(t, "unlock_right")
    /\ UNCHANGED <<mx_array, active_threads, main, left, right, temp, printing, sent>>

UnlockRight(t) ==
    /\ spc[t] = "unlock_right"
    /\ Unlock(right[t])
    /\ SGoto(t, "unlock_left")
    /\ UNCHANGED <<array, active_threads, main, left, right, temp, printing, sent>>

\* The second unlock; left++, right--, and the loop's test.
UnlockLeft(t) ==
    /\ spc[t] = "unlock_left"
    /\ Unlock(left[t])
    /\ left' = [left EXCEPT ![t] = @ + 1]
    /\ right' = [right EXCEPT ![t] = @ - 1]
    /\ SGoto(t, IF left[t] + 1 < right[t] - 1 THEN "lock_left" ELSE "stats")
    /\ UNCHANGED <<array, active_threads, main, temp, printing, sent>>

\* active_threads-- under mx_stats; the thread then touches nothing shared and
\* its local variables are gone.
Finish(t) ==
    /\ spc[t] = "stats"
    /\ active_threads' = active_threads - 1
    /\ SGoto(t, "idle")
    /\ left' = [left EXCEPT ![t] = 0]
    /\ right' = [right EXCEPT ![t] = 0]
    /\ temp' = [temp EXCEPT ![t] = 0]
    /\ UNCHANGED <<array, mx_array, main, printing, sent>>

\* The process is there, and so are the array and the mutexes.
Alive == mpc # "exit" /\ ~ freed

SwapperStep(t) ==
    /\ Alive
    /\ LockStep(t) \/ Move(t) \/ Put(t) \/ UnlockRight(t) \/ UnlockLeft(t) \/ Finish(t)

-----------------------------------------------------------------------------
(* printer_thread *)

\* The end of an iteration of the loop at l: on to the next cell, or to what follows.
PNext(p, l, follow) ==
    IF next[p] < N - 1
    THEN ppc' = [ppc EXCEPT ![p] = l] /\ next' = [next EXCEPT ![p] = @ + 1]
    ELSE ppc' = [ppc EXCEPT ![p] = follow] /\ next' = [next EXCEPT ![p] = 0]

\* Mutant: a cell's mutex is given back before the next one is taken.
LockCellsBriefly(p) ==
    /\ ppc[p] = "lock"
    /\ mx_array[next[p]] = Nobody
    /\ PNext(p, "lock", "print")
    /\ UNCHANGED <<shared, main, swapping, printed, sent>>

\* The first loop locks cell after cell.
LockCells(p) ==
    /\ ppc[p] = "lock"
    /\ Lock(next[p], p)
    /\ PNext(p, "lock", "print")
    /\ UNCHANGED <<array, active_threads, main, swapping, printed, sent>>

\* The second loop reads cell after cell.
PrintCells(p) ==
    /\ ppc[p] = "print"
    /\ printed' = [printed EXCEPT ![p][next[p]] = array[next[p]]]
    /\ PNext(p, "print", "unlock")
    /\ UNCHANGED <<shared, main, swapping, sent>>

\* The third loop unlocks cell after cell.
UnlockCells(p) ==
    /\ ppc[p] = "unlock"
    /\ Unlock(next[p])
    /\ PNext(p, "unlock", "idle")
    /\ UNCHANGED <<array, active_threads, main, swapping, printed, sent>>

\* A printer that main has freed the array under: what it does is undefined.
UseFreed(p) ==
    /\ mpc # "exit" /\ freed
    /\ ppc[p] \in {"lock", "print", "unlock"}
    /\ ppc' = [ppc EXCEPT ![p] = "undefined"]
    /\ UNCHANGED <<shared, main, swapping, next, printed, sent>>

PrinterStep(p) ==
    \/ Alive /\ (LockCells(p) \/ PrintCells(p) \/ UnlockCells(p))
    \/ UseFreed(p)

-----------------------------------------------------------------------------

\* The process has ended, or main sleeps and no thread is left.
Quiet ==
    /\ \/ mpc = "exit"
       \/ /\ mpc = "pause"
          /\ \A t \in Swappers : spc[t] = "idle"
          /\ \A p \in Printers : ppc[p] = "idle"
    /\ UNCHANGED vars

Next ==
    \/ \E s \in Signals : Signal(s)
    \/ MainStep
    \/ \E t \in Swappers : SwapperStep(t)
    \/ \E p \in Printers : PrinterStep(p)
    \/ Quiet

Spec == Init /\ [][Next]_vars

\* Every thread that can run is scheduled, and one that waits for a mutex gets
\* it in the end. Nobody has to send a signal.
FairSpec ==
    /\ Spec
    /\ WF_vars(MainStep)
    /\ \A t \in Swappers : WF_vars(SwapperStep(t))
    /\ \A p \in Printers : WF_vars(PrinterStep(p))

-----------------------------------------------------------------------------
(* Properties *)

\* The array with what swappers hold in temp put back in place.
Restored ==
    [i \in Indices |->
        IF \E t \in Swappers : spc[t] = "put" /\ right[t] = i
        THEN temp[CHOOSE t \in Swappers : spc[t] = "put" /\ right[t] = i]
        ELSE array[i]]

\* perform_inversion: however the swappers overlap, no number of the array is
\* lost or doubled; only the half-done swap of a thread is out of place.
NothingLost == IsInjective(Restored)

\* printer_thread: a printed line never shows a number twice, so it never catches
\* both cells of a swapper between the two assignments of a swap.
LineIsPermutation == \A p \in Printers : ppc[p] = "unlock" => IsInjective(printed[p])

\* main's "All threads busy": active_threads is the number of swappers that run,
\* including the one main is about to create, and never exceeds P.
CountIsExact ==
    /\ active_threads <= P
    /\ active_threads =
         Cardinality({t \in Swappers : spc[t] # "idle"}) + (IF mpc = "create" THEN 1 ELSE 0)

\* The wait loop: no swapper runs when main destroys the mutexes and frees the array.
NoSwapperAfterCleanup == freed => \A t \in Swappers : spc[t] = "idle"

\* "All threads finished. Cleaning up." is only said when no thread uses the
\* array any more. (The code counts swappers only: a printer may go on.)
NoUseAfterFree == \A p \in Printers : ppc[p] # "undefined"

=============================================================================
