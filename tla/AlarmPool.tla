------------------------------ MODULE AlarmPool ------------------------------
(***************************************************************************)
(* The alarms of Lab4/Tutorials/task1_1.c: do_work reads a number of       *)
(* seconds, takes one of FS_NUM slots of a semaphore that lives on its     *)
(* stack, and starts a detached thread that sleeps and posts.              *)
(*                                                                         *)
(* A line that is no positive number, an interrupted fgets and the end of  *)
(* the input (whose errno the condition errno = EINTR overwrites) all go   *)
(* back to the loop's test and change nothing.                             *)
(***************************************************************************)
EXTENDS Naturals, FiniteSets

CONSTANT FS_NUM

VARIABLES pc,         \* of the alarm threads: "none", "sleep"
    main,             \* where do_work or main is
    work,
    semaphore

Alarms == 1 .. FS_NUM + 1   \* one more thread than there are slots

Init ==
    /\ pc = [a \in Alarms |-> "none"]
    /\ main = "input"
    /\ work = 1
    /\ semaphore = FS_NUM

Interrupt ==
    /\ work = 1 /\ main # "exit"
    /\ work' = 0
    /\ UNCHANGED <<pc, main, semaphore>>

\* fgets returns a positive time.
Input ==
    /\ main = "input" /\ work = 1
    /\ main' = "trywait"
    /\ UNCHANGED <<pc, work, semaphore>>

\* Mutant: EAGAIN is reported and the alarm set all the same.
TryWaitAnyway ==
    /\ main = "trywait"
    /\ semaphore' = IF semaphore > 0 THEN semaphore - 1 ELSE 0
    /\ main' = "create"
    /\ UNCHANGED <<pc, work>>

\* sem_trywait; EAGAIN goes back to the loop.
TryWait ==
    /\ main = "trywait"
    /\ IF semaphore > 0
       THEN semaphore' = semaphore - 1 /\ main' = "create"
       ELSE main' = "input" /\ UNCHANGED semaphore
    /\ UNCHANGED <<pc, work>>

\* pthread_create, pthread_detach
Create ==
    /\ main = "create"
    /\ \E a \in Alarms : pc[a] = "none" /\ pc' = [pc EXCEPT ![a] = "sleep"]
    /\ main' = "input"
    /\ UNCHANGED <<work, semaphore>>

\* thread_func: the sleep is over, sem_post. After do_work has returned, the
\* semaphore is not there any more; what the post then writes is not modelled.
WakeUp(a) ==
    /\ pc[a] = "sleep"
    /\ main # "exit"
    /\ pc' = [pc EXCEPT ![a] = "none"]
    /\ semaphore' = IF main = "returned" THEN semaphore ELSE semaphore + 1
    /\ UNCHANGED <<main, work>>

\* do_work returns, main returns: sleeping alarms are cut off.
Return ==
    /\ main = "input" /\ work = 0
    /\ main' = "returned"
    /\ UNCHANGED <<pc, work, semaphore>>

Exit ==
    /\ main = "returned"
    /\ main' = "exit"
    /\ UNCHANGED <<pc, work, semaphore>>

DoWork == Input \/ TryWait \/ Create \/ Return \/ Exit
Next == Interrupt \/ DoWork \/ \E a \in Alarms : WakeUp(a)

\* Slots are conserved while do_work runs: those free, those of sleeping alarms
\* and the one do_work has taken for the next are FS_NUM, so that many alarms at
\* most sleep.
SlotsBalance ==
    LET sleeping == Cardinality({a \in Alarms : pc[a] = "sleep"})
    IN  /\ sleeping <= FS_NUM
        /\ main \notin {"returned", "exit"} =>
              semaphore + sleeping + (IF main = "create" THEN 1 ELSE 0) = FS_NUM
=============================================================================
