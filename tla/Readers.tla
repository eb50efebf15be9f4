------------------------------- MODULE Readers -------------------------------
(***************************************************************************)
(* The thread pool of Lab4/Tutorials/task1_2.c: each line of input sets    *)
(* condition and signals one idle reader; SIGINT clears work and ends all. *)
(*                                                                         *)
(* main sets condition, signals and broadcasts without the mutex, so what  *)
(* a reader does with the mutex is not atomic to it: the test of the       *)
(* condition and the wait are two steps. idlethreads is read and written   *)
(* under the mutex only.                                                   *)
(***************************************************************************)
EXTENDS Naturals, FiniteSets

CONSTANTS
    N,                \* THREAD_NUM
    MaxRequests       \* bound: how many requests do_work hands over

VARIABLES pc,         \* of the readers
    main,             \* where do_work or main is
    work, condition, idlethreads,
    mutex,            \* its owner, 0 if free
    requests,         \* how many times do_work has set condition
    reads,            \* how many times a reader has gone to work
    missed            \* a reader was about to wait when main broadcast

Threads == 1 .. N
Free == 0
DoWork == N + 1       \* do_work as an owner of the mutex

Init ==
    /\ pc = [t \in Threads |-> "lock"]
    /\ main = "input"
    /\ work = 1
    /\ condition = 0
    /\ idlethreads = 0
    /\ mutex = Free
    /\ requests = 0
    /\ reads = 0
    /\ missed = FALSE

Goto(t, l) == pc' = [pc EXCEPT ![t] = l]

\* Lock, and one more idle reader.
Idle(t) ==
    /\ pc[t] = "lock"
    /\ mutex = Free
    /\ mutex' = t
    /\ idlethreads' = idlethreads + 1
    /\ Goto(t, "test")
    /\ UNCHANGED <<main, work, condition, requests, reads, missed>>

\* while(!*condition && work)
Test(t) ==
    /\ pc[t] = "test"
    /\ Goto(t, IF condition = 0 /\ work = 1 THEN "enter" ELSE "take")
    /\ UNCHANGED <<main, work, condition, idlethreads, mutex, requests, reads, missed>>

\* pthread_cond_wait begins: the mutex is free and the reader can be signalled.
Wait(t) ==
    /\ pc[t] = "enter"
    /\ Goto(t, "asleep")
    /\ mutex' = Free
    /\ UNCHANGED <<main, work, condition, idlethreads, requests, reads, missed>>

\* pthread_cond_wait may return without a signal.
Spurious(t) ==
    /\ pc[t] = "asleep"
    /\ Goto(t, "relock")
    /\ UNCHANGED <<main, work, condition, idlethreads, mutex, requests, reads, missed>>

Relock(t) ==
    /\ pc[t] = "relock"
    /\ mutex = Free
    /\ mutex' = t
    /\ Goto(t, "test")
    /\ UNCHANGED <<main, work, condition, idlethreads, requests, reads, missed>>

\* Mutant: the condition is left set.
KeepCondition(c) == c

\* *targ.condition = 0
ClearCondition(c) == 0

\* Out of the loop: without work the reader exits and its cleanup handler unlocks;
\* otherwise it is idle no more and unlocks.
TakeRequest(t) ==
    /\ pc[t] = "take"
    /\ condition' = ClearCondition(condition)
    /\ mutex' = Free
    /\ IF work = 0
       THEN Goto(t, "exit") /\ UNCHANGED <<idlethreads, reads>>
       ELSE Goto(t, "read") /\ idlethreads' = idlethreads - 1 /\ reads' = reads + 1
    /\ UNCHANGED <<main, work, requests, missed>>

\* read_random returns.
ReadDone(t) ==
    /\ pc[t] = "read"
    /\ Goto(t, "lock")
    /\ UNCHANGED <<main, work, condition, idlethreads, mutex, requests, reads, missed>>

\* while(work): do_work goes on to read a line.
TestWork ==
    /\ main = "input" /\ work = 1
    /\ main' = "fgets"
    /\ UNCHANGED <<pc, work, condition, idlethreads, mutex, requests, reads, missed>>

\* SIGINT interrupts fgets (EINTR). One that came just before fgets does not: then a
\* line of input may end the wait, and is still a request.
Interrupted ==
    /\ main = "fgets" /\ work = 0
    /\ main' = "input"
    /\ UNCHANGED <<pc, work, condition, idlethreads, mutex, requests, reads, missed>>

\* A line of input: lock, are there idle readers?
Request ==
    /\ main = "fgets"
    /\ requests < MaxRequests
    /\ mutex = Free
    /\ mutex' = DoWork
    /\ main' = IF idlethreads = 0 THEN "none" ELSE "unlock"
    /\ UNCHANGED <<pc, work, condition, idlethreads, requests, reads, missed>>

\* Unlock; "No threads available" goes back to the input.
UnlockPool ==
    /\ main \in {"none", "unlock"}
    /\ mutex' = Free
    /\ main' = IF main = "none" THEN "input" ELSE "set"
    /\ UNCHANGED <<pc, work, condition, idlethreads, requests, reads, missed>>

\* *condition = 1, without the mutex.
SetCondition ==
    /\ main = "set"
    /\ condition' = 1
    /\ requests' = requests + 1
    /\ main' = "signal"
    /\ UNCHANGED <<pc, work, idlethreads, mutex, reads, missed>>

Asleep == {t \in Threads : pc[t] = "asleep"}

\* pthread_cond_signal: one of those that wait, if any does.
Signal ==
    /\ main = "signal"
    /\ IF Asleep = {} THEN UNCHANGED pc ELSE \E t \in Asleep : Goto(t, "relock")
    /\ main' = "input"
    /\ UNCHANGED <<work, condition, idlethreads, mutex, requests, reads, missed>>

Interrupt ==
    /\ work = 1
    /\ work' = 0
    /\ UNCHANGED <<pc, main, condition, idlethreads, mutex, requests, reads, missed>>

\* Mutant: one reader is told of the end.
SignalEnd ==
    /\ main = "input" /\ work = 0
    /\ IF Asleep = {} THEN UNCHANGED pc ELSE \E t \in Asleep : Goto(t, "relock")
    /\ main' = "join"
    /\ missed' = (\E t \in Threads : pc[t] = "enter")
    /\ UNCHANGED <<work, condition, idlethreads, mutex, requests, reads>>

\* do_work has returned: pthread_cond_broadcast, without the mutex. A reader
\* between its test and its wait does not hear it.
Broadcast ==
    /\ main = "input" /\ work = 0
    /\ pc' = [t \in Threads |-> IF t \in Asleep THEN "relock" ELSE pc[t]]
    /\ main' = "join"
    /\ missed' = (\E t \in Threads : pc[t] = "enter")
    /\ UNCHANGED <<work, condition, idlethreads, mutex, requests, reads>>

Join ==
    /\ main = "join"
    /\ \A t \in Threads : pc[t] = "exit"
    /\ main' = "exit"
    /\ UNCHANGED <<pc, work, condition, idlethreads, mutex, requests, reads, missed>>

MainStep ==
    \/ TestWork \/ Interrupted \/ Request \/ UnlockPool \/ SetCondition \/ Signal
    \/ Broadcast \/ Join
Step(t) == Idle(t) \/ Test(t) \/ Wait(t) \/ Relock(t) \/ TakeRequest(t) \/ ReadDone(t)
Next == Interrupt \/ MainStep \/ \E t \in Threads : Step(t) \/ Spurious(t)

\* Nobody reads without a request: a request is taken by one reader at most,
\* although it is made without the mutex and any number of readers may be awake.
\* And idlethreads counts the readers that are where a request finds them, and
\* those that have left.
ReadsWereRequested ==
    /\ reads + condition <= requests
    /\ idlethreads = Cardinality({t \in Threads : pc[t] \notin {"lock", "read"}})
=============================================================================
