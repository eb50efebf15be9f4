----------------------------- MODULE PoolStages -----------------------------
(***************************************************************************)
(* The stages of Lab4/Task3 before sop-pool5.c, as programs put together   *)
(* from the actions of ThreadPool and MonteCarlo:                          *)
(*   2  sop-pool.c   mailbox and condition variables, no semaphore, no     *)
(*                   shutdown: cleanup prints and main returns;            *)
(*   3  sop-pool3.c  the same pool, circle commands with their barrier,    *)
(*                   as many samplers as the user asks for;                *)
(*   4  sop-pool4.c  the semaphore, taken with sem_trywait, the shutdown   *)
(*                   flag and the joins.                                   *)
(* A behaviour is one run of one stage. The circle command of sop-pool.c   *)
(* reads arguments it never allocated or set, so only its hello command is *)
(* a defined program and is modelled.                                      *)
(***************************************************************************)
EXTENDS MonteCarlo

CONSTANT SpuriousStages   \* bound: the stages in which pthread_cond_wait returns unsignalled

VARIABLE stage

stagevars == <<mcvars, stage>>

\* A step of the program that leaves the task functions where they are.
Pool(A) == A /\ UNCHANGED <<job, inside>>

-----------------------------------------------------------------------------
(* Stages 2 and 3: every task is accepted, nobody shuts down *)

\* dispatch has no semaphore to pass.
NoSlotNeeded ==
    /\ mpc = "slot"
    /\ mpc' = "lock"
    /\ UNCHANGED <<lock, mailbox, shutdown, available_slots, pc, func, dispatching,
                   history, spurious>>

\* Nor has the worker one to post.
LoopAgain(w) ==
    /\ pc[w] = "post"
    /\ pc' = [pc EXCEPT ![w] = "lock"]
    /\ UNCHANGED <<lock, mailbox, shutdown, available_slots, func, mpc, dispatching,
                   history, spurious>>

\* cleanup only prints, main returns, and exit ends every worker where it is.
ExitAtOnce ==
    /\ mpc = "shut"
    /\ mpc' = "exit"
    /\ UNCHANGED <<lock, mailbox, shutdown, available_slots, pc, func, dispatching,
                   history, spurious>>

Initialize2 == stage = 2 /\ MCInit
Worker2(w) == Pool(WorkerLock(w) \/ WorkerWait(w) \/ TakeTask(w) \/ LoopAgain(w))
Dispatch2 == Pool(NoSlotNeeded \/ DispatchLock \/ DispatchWait \/ Deposit)
Cleanup2 == Pool(ExitAtOnce)
Hello2 == \E n \in WorkerCounts : StartCommand("hello", n)
Prompt2 == Hello2 \/ MCQuit

\* start_monte_carlo without the clamp: one sampler for each worker asked for.
StartUnclamped(n) == StartSized("circle", n + 1)

Initialize3 == stage = 3 /\ MCInit
Worker3(w) == Worker2(w)
Dispatch3 == Dispatch2
Cleanup3 == Pool(ExitAtOnce)
Circle3(w) == Sample(w) \/ (Arrive(w) /\ ~ IsAccumulator(w))
Accumulate3(w) == (Arrive(w) /\ IsAccumulator(w)) \/ Sum(w) \/ Destroy(w)
Monte3 == \E n \in WorkerCounts : StartUnclamped(n)
Hello3 == \E n \in WorkerCounts : StartCommand("hello", n)
Prompt3 == Hello3 \/ Monte3 \/ MCQuit

-----------------------------------------------------------------------------
(* Stage 4: dispatch drops what finds no free worker *)

Initialize4 == stage = 4 /\ MCInit
Worker4(w) ==
    Pool(WorkerLock(w) \/ WorkerWait(w) \/ WorkerReturn(w) \/ TakeTask(w) \/ PostSlot(w))
Dispatch4 == Pool(PassSemaphore \/ DispatchLock \/ DispatchWait \/ Deposit)
Cleanup4 == Pool(CleanupLock \/ Shutdown \/ JoinAndFree)
Circle4(w) == Circle3(w)
Accumulate4(w) == Accumulate3(w)
Monte4 == \E n \in WorkerCounts : StartCommand("circle", n)
Hello4 == \E n \in WorkerCounts : StartCommand("hello", n)
Prompt4 == Hello4 \/ Monte4 \/ MCQuit

-----------------------------------------------------------------------------
StageWorker(w) ==
    /\ mpc # "exit"
    /\ \/ stage = 2 /\ Worker2(w)
       \/ stage = 3 /\ (Worker3(w) \/ Circle3(w) \/ Accumulate3(w))
       \/ stage = 4 /\ (Worker4(w) \/ Circle4(w) \/ Accumulate4(w))
       \/ Leave(w)
       \/ Return(w)
    /\ UNCHANGED stage

StageMain ==
    /\ \/ stage = 2 /\ (Dispatch2 \/ Cleanup2)
       \/ stage = 3 /\ (Dispatch3 \/ Cleanup3)
       \/ stage = 4 /\ (Dispatch4 \/ Cleanup4)
       \/ DispatchNext
    /\ UNCHANGED stage

\* The user types a command, or 3 to leave.
Type ==
    /\ \/ stage = 2 /\ Prompt2
       \/ stage = 3 /\ Prompt3
       \/ stage = 4 /\ Prompt4
    /\ UNCHANGED stage

StagesInit == Initialize2 \/ Initialize3 \/ Initialize4

StagesNext ==
    \/ \E w \in Workers : StageWorker(w)
    \/ StageMain
    \/ Type
    \/ mpc # "exit" /\ stage \in SpuriousStages /\ Pool(SpuriousWakeup) /\ UNCHANGED stage

StagesSpec ==
    /\ StagesInit /\ [][StagesNext]_stagevars
    /\ WF_stagevars(StageMain) /\ \A w \in Workers : WF_stagevars(StageWorker(w))

-----------------------------------------------------------------------------
(* Properties *)

\* sop-pool4.c may drop any task of a circle command; the workers of such a
\* command are lost at their barrier. Yet a command all of whose tasks got a
\* slot is answered, whatever ruined commands came before it and still sit in
\* their workers: a token stands for a worker that is really free.
AcceptedCommandAnswered ==
    \A c \in Commands :
        (/\ stage = 4
         /\ kind[c] = "circle"
         /\ {<<c, i>> : i \in 1 .. size[c]} \subseteq submitted \ (dropped \cup Offered))
            ~> (c \in freed)
=============================================================================
