----------------------------- MODULE MonteCarlo -----------------------------
(***************************************************************************)
(* The program of Lab4/Task3 on top of its thread pool: main reads         *)
(* commands, start_monte_carlo hands k samplers and one accumulator to     *)
(* dispatch, and the k + 1 tasks of a command meet at a barrier of their   *)
(* own inside the workers. start_hello_work hands independent tasks to the *)
(* same pool. Several commands may be in the pool at a time.               *)
(*                                                                         *)
(* A task is <<command, index>>; the accumulator of a circle command is    *)
(* its last task. RunTask of ThreadPool becomes several steps: step[w] is  *)
(* how far w is inside the function it runs.                               *)
(***************************************************************************)
EXTENDS ThreadPool

CONSTANTS
    Commands,         \* bound: the commands the user may type (task_idx 1, 2, ...)
    WorkerCounts,     \* the worker_count arguments the user may type
    Kinds             \* the commands in use, a subset of {"circle", "hello"}

ASSUME CommandsAssumption ==
    Commands \subseteq Nat \ {0} /\ \A c \in Commands : c = 1 \/ c - 1 \in Commands
ASSUME WorkerCountsAssumption == WorkerCounts \subseteq Nat \ {0}
ASSUME TaskPairsAssumption ==
    \A c \in Commands, n \in WorkerCounts : {c} \X (1 .. n + 1) \subseteq Tasks
ASSUME KindsAssumption == Kinds \subseteq {"circle", "hello"}

VARIABLES
    task_idx,         \* parse_cli's static task_idx, the number of the last command
    kind,             \* what each command is
    size,             \* how many tasks it dispatches
    next,             \* the index of the next task the loop of the command dispatches
    step,             \* where each worker is inside the task function
    arrived,          \* how many threads have entered each command's barrier
    sampled,          \* the samplers whose hit_count is final
    hit_total,        \* the samplers whose counts each accumulator added up, once it did
    freed             \* the commands whose args and barrier have been freed

job == <<task_idx, kind, size, next>>
inside == <<step, arrived, sampled, hit_total, freed>>
mcvars == <<vars, job, inside>>

Steps == {"begin", "arrive", "barrier", "leave", "sum", "destroy", "end"}

NoTotal == {NoTask}

MCTypeOK ==
    /\ TypeOK
    /\ task_idx \in Commands \cup {0}
    /\ kind \in [Commands -> {"none", "circle", "hello"}]
    /\ size \in [Commands -> Nat]
    /\ next \in Nat
    /\ step \in [Workers -> Steps]
    /\ arrived \in [Commands -> Nat]
    /\ sampled \subseteq Tasks
    /\ \A c \in Commands : hit_total[c] = NoTotal \/ hit_total[c] \subseteq sampled
    /\ freed \subseteq Commands

MCInit ==
    /\ Init
    /\ task_idx = 0
    /\ kind = [c \in Commands |-> "none"]
    /\ size = [c \in Commands |-> 0]
    /\ next = 1
    /\ step = [w \in Workers |-> "begin"]
    /\ arrived = [c \in Commands |-> 0]
    /\ sampled = {}
    /\ hit_total = [c \in Commands |-> NoTotal]
    /\ freed = {}

-----------------------------------------------------------------------------
(* main: parse_cli, start_monte_carlo, start_hello_work *)

\* Mutant: every requested worker becomes a sampler, and the accumulator is one more.
SamplerCountAll(n) == n

\* The samplers of a circle command that asks for n workers: one worker is kept
\* for the accumulator, and there is at least one sampler.
SamplerCount(n) ==
    LET N == Cardinality(Workers)
        k == IF n >= N THEN N - 1 ELSE n - 1
    IN  IF k < 1 THEN 1 ELSE k

\* The loop of the current command has dispatched all its tasks.
CommandDone == task_idx # 0 => next > size[task_idx]

\* task_idx++, then the arguments, the barrier and the loop over its tasks.
StartSized(k, tasks) ==
    /\ mpc = "idle"
    /\ CommandDone
    /\ task_idx + 1 \in Commands
    /\ task_idx' = task_idx + 1
    /\ kind' = [kind EXCEPT ![task_idx + 1] = k]
    /\ size' = [size EXCEPT ![task_idx + 1] = tasks]
    /\ next' = 1
    /\ UNCHANGED <<vars, inside>>

\* A valid command that asks for n workers.
StartCommand(k, n) == StartSized(k, IF k = "circle" THEN SamplerCount(n) + 1 ELSE n)

\* The next iteration of the command's loop calls dispatch.
DispatchNext ==
    /\ ~ CommandDone
    /\ Submit(<<task_idx, next>>)
    /\ next' = next + 1
    /\ UNCHANGED <<task_idx, kind, size, inside>>

\* Command 3, typed at the prompt.
MCQuit == CommandDone /\ Quit /\ UNCHANGED <<job, inside>>

-----------------------------------------------------------------------------
(* circle_monte_carlo, accumulate_monte_carlo and hello_world_test *)

Command(w) == func[w][1]
IsAccumulator(w) == func[w][2] = size[Command(w)]

\* w runs a task of a circle command and is at s.
At(w, s) == pc[w] = "run" /\ kind[Command(w)] = "circle" /\ step[w] = s

Goto(w, s) == step' = [step EXCEPT ![w] = s]

\* circle_monte_carlo's loop: hit_count is final when it ends.
Sample(w) ==
    /\ At(w, "begin")
    /\ ~ IsAccumulator(w)
    /\ sampled' = sampled \cup {func[w]}
    /\ Goto(w, "arrive")
    /\ UNCHANGED <<vars, job, arrived, hit_total, freed>>

\* Mutant: the barrier is initialised for the samplers only.
BarrierCountSamplers(c) == size[c] - 1

\* pthread_barrier_init(&args->barrier, NULL, sampling_worker_count + 1)
BarrierCount(c) == size[c]

\* pthread_barrier_wait: the last thread of the round lets the others go.
Arrive(w) ==
    /\ \/ At(w, "arrive")
       \/ At(w, "begin") /\ IsAccumulator(w)
    /\ LET c == Command(w) IN
       IF arrived[c] + 1 = BarrierCount(c)
       THEN /\ step' = [v \in Workers |->
                          IF v = w \/ (At(v, "barrier") /\ Command(v) = c)
                          THEN "leave" ELSE step[v]]
            /\ arrived' = [arrived EXCEPT ![c] = 0]
       ELSE /\ Goto(w, "barrier")
            /\ arrived' = [arrived EXCEPT ![c] = @ + 1]
    /\ UNCHANGED <<vars, job, sampled, hit_total, freed>>

\* The thread returns from pthread_barrier_wait.
Leave(w) ==
    /\ At(w, "leave")
    /\ Goto(w, IF IsAccumulator(w) THEN "sum" ELSE "end")
    /\ UNCHANGED <<vars, job, arrived, sampled, hit_total, freed>>

\* accumulate_monte_carlo adds the counts of args[0 .. thread_count - 1] and prints.
Sum(w) ==
    /\ At(w, "sum")
    /\ hit_total' = [hit_total EXCEPT ![Command(w)] = {t \in sampled : t[1] = Command(w)}]
    /\ Goto(w, "destroy")
    /\ UNCHANGED <<vars, job, arrived, sampled, freed>>

\* Mutant: the memory is freed without pthread_barrier_destroy.
DestroyAtOnce(w) ==
    /\ At(w, "destroy")
    /\ freed' = freed \cup {Command(w)}
    /\ Goto(w, "end")
    /\ UNCHANGED <<vars, job, arrived, sampled, hit_total>>

\* pthread_barrier_destroy waits for the threads of the last round that are
\* still inside pthread_barrier_wait; then the arguments are freed.
Destroy(w) ==
    /\ At(w, "destroy")
    /\ \A v \in Workers : ~ (At(v, "leave") /\ Command(v) = Command(w))
    /\ freed' = freed \cup {Command(w)}
    /\ Goto(w, "end")
    /\ UNCHANGED <<vars, job, arrived, sampled, hit_total>>

\* The task function returns to worker_thread.
Return(w) ==
    /\ \/ At(w, "end")
       \/ pc[w] = "run" /\ kind[Command(w)] = "hello"
    /\ RunTask(w)
    /\ Goto(w, "begin")
    /\ UNCHANGED <<job, arrived, sampled, hit_total, freed>>

\* The steps of worker_thread outside the task function.
PoolStep(w) ==
    /\ WorkerLock(w) \/ WorkerWait(w) \/ WorkerReturn(w) \/ TakeTask(w) \/ PostSlot(w)
    /\ UNCHANGED <<job, inside>>

MCWorkerStep(w) ==
    \/ PoolStep(w)
    \/ Sample(w)
    \/ Arrive(w)
    \/ Leave(w)
    \/ Sum(w)
    \/ Destroy(w)
    \/ Return(w)

MCMainStep ==
    \/ MainStep /\ UNCHANGED <<job, inside>>
    \/ DispatchNext

MCNext ==
    \/ \E w \in Workers : MCWorkerStep(w)
    \/ MCMainStep
    \/ \E k \in Kinds, n \in WorkerCounts : StartCommand(k, n)
    \/ MCQuit
    \/ SpuriousWakeup /\ UNCHANGED <<job, inside>>
    \/ Terminated /\ UNCHANGED <<job, inside>>

MCSpec == MCInit /\ [][MCNext]_mcvars

\* As in ThreadPool: threads that can run are scheduled. The user may stop typing.
MCFairSpec ==
    MCSpec /\ WF_mcvars(MCMainStep) /\ \A w \in Workers : WF_mcvars(MCWorkerStep(w))

-----------------------------------------------------------------------------
(* Properties *)

Samplers(c) == {<<c, i>> : i \in 1 .. size[c] - 1}

\* The accumulator adds up the count of every sampler of its command after the
\* sampler wrote it last, although samplers and accumulator are dispatched one
\* by one, in between other commands, to whatever worker is free.
TotalIsComplete == \A c \in Commands : hit_total[c] \in {NoTotal, Samplers(c)}

\* The worker is in a part of the task function that reads the arguments or the barrier.
UsesArgs(w) ==
    pc[w] = "run" /\ kind[Command(w)] = "circle" /\ step[w] # "end"

\* The accumulator frees the arguments and the barrier of its command only when
\* no other task of the command will touch them: none runs, none is in the
\* mailbox and none is still to be dispatched.
NoUseAfterFree ==
    \A c \in freed :
        /\ \A w \in Workers : UsesArgs(w) => Command(w) # c
        /\ \A t \in Queued \cup Offered : t[1] # c
        /\ task_idx = c => CommandDone

\* No gridlock: whatever mix of commands is typed, the samplers that sit at a
\* barrier inside their workers never keep the accumulator they wait for out of
\* the pool; the user gets every result.
EveryCommandAnswered ==
    \A c \in Commands : (kind[c] = "circle") ~> (c \in freed)

\* Once the user quits, the program ends, however many commands are running.
ProgramEnds == mpc = "shut" ~> mpc = "exit"
=============================================================================
