-------------------------- MODULE MonteCarloProofs --------------------------
(***************************************************************************)
(* What is proved of the thread pool holds of the program that uses it:    *)
(* the commands, the task functions and their barriers only ever take      *)
(* steps of ThreadPool, or steps that the pool does not see.               *)
(*                                                                         *)
(* On top of it, for any number of workers and commands of any size: the   *)
(* accumulator of a command adds up final counts, and what it frees is not *)
(* used again. Both rest on one fact about the barrier of a command: it    *)
(* opens only when every task of the command is inside a worker, because   *)
(* the pool never runs a task twice.                                       *)
(***************************************************************************)
EXTENDS PoolStages, ThreadPoolProofs

\* Every step of the program is a step of its thread pool or leaves it alone.
LEMMA PoolSimulated == [MCNext]_mcvars => [Next]_vars
<1> SUFFICES ASSUME [MCNext]_mcvars PROVE [Next]_vars
  OBVIOUS
<1>1. ASSUME NEW w \in Workers, PoolStep(w) PROVE [Next]_vars
  BY <1>1 DEF PoolStep, WorkerStep, Next
<1>2. ASSUME NEW w \in Workers, Sample(w) \/ Arrive(w) \/ Leave(w) \/ Sum(w) \/ Destroy(w)
      PROVE  UNCHANGED vars
  BY <1>2 DEF Sample, Arrive, Leave, Sum, Destroy
<1>3. ASSUME NEW w \in Workers, Return(w) PROVE [Next]_vars
  BY <1>3 DEF Return, WorkerStep, Next
<1>4. CASE MCMainStep
  <2>1. CASE MainStep
    BY <2>1 DEF Next
  <2>2. CASE DispatchNext
    <3>1. Submit(<<task_idx, next>>)
      BY <2>2 DEF DispatchNext
    <3>2. <<task_idx, next>> \in Tasks
      BY <3>1 DEF Submit
    <3>3. QED
      BY <3>1, <3>2 DEF Next
  <2>3. QED
    BY <1>4, <2>1, <2>2 DEF MCMainStep
<1>5. ASSUME NEW k \in Kinds, NEW n \in WorkerCounts, StartCommand(k, n)
      PROVE  UNCHANGED vars
  BY <1>5 DEF StartCommand, StartSized
<1>6. CASE MCQuit
  BY <1>6 DEF MCQuit, Next
<1>7. CASE SpuriousWakeup \/ Terminated
  BY <1>7 DEF Next
<1>8. CASE UNCHANGED mcvars
  BY <1>8 DEF mcvars
<1>9. QED
  BY <1>1, <1>2, <1>3, <1>4, <1>5, <1>6, <1>7, <1>8 DEF MCNext, MCWorkerStep

\* The program is a client of the pool: all its behaviours are behaviours of
\* ThreadPool, whose theorems therefore hold of it.
THEOREM ProgramUsesPool == MCSpec => Spec
<1>1. MCInit => Init
  BY DEF MCInit
<1>2. QED
  BY <1>1, PoolSimulated, PTL DEF MCSpec, Spec

\* In particular every task of every command is executed exactly once, and the
\* program ends with none left.
THEOREM ProgramConservesTasks ==
    ASSUME InitialShutdown = {0}
    PROVE  MCSpec => [](TaskConservation /\ NothingLostAtExit)
  BY ProgramUsesPool, TasksConserved, CleanExit, PTL

-----------------------------------------------------------------------------
(* The inductive invariant of the commands *)

Circles == {c \in Commands : kind[c] = "circle"}
TasksOf(c) == {<<c, i>> : i \in 1 .. size[c]}

\* The worker runs a task of command c.
Inside(w, c) == pc[w] = "run" /\ func[w][1] = c

\* The threads that sit at the barrier of command c.
Waiters(c) == {w \in Workers : Inside(w, c) /\ step[w] = "barrier"}

\* The steps of the task functions that come after the barrier.
Past == {"leave", "sum", "destroy", "end"}

\* A command that was typed keeps its kind and its size, and what was dispatched
\* of it are the iterations that its loop has completed.
JobInv ==
    /\ task_idx \in Commands \cup {0}
    /\ kind \in [Commands -> {"none", "circle", "hello"}]
    /\ size \in [Commands -> Nat]
    /\ next \in Nat \ {0}
    /\ \A c \in Commands : kind[c] = "none" <=> c > task_idx
    /\ \A c \in Circles : size[c] > 1
    /\ \A t \in submitted : \E c \in Commands : \E i \in 1 .. size[c] :
          t = <<c, i>> /\ c <= task_idx /\ (c = task_idx => i < next)

\* Which function a worker is in the middle of.
PlaceInv ==
    /\ step \in [Workers -> Steps]
    /\ \A w \in Workers : pc[w] # "run" => step[w] = "begin"
    /\ \A w \in Workers : pc[w] = "run" /\ kind[Command(w)] # "circle" => step[w] = "begin"
    /\ \A w \in Workers : pc[w] = "run" /\ step[w] = "arrive" => ~ IsAccumulator(w)
    /\ \A w \in Workers : pc[w] = "run" /\ step[w] \in {"sum", "destroy"} => IsAccumulator(w)

\* A sampler that is past its loop has a final count; nobody else has one.
SampledInv ==
    /\ \A t \in sampled : \E c \in Circles : t \in Samplers(c)
    /\ \A w \in Workers :
          pc[w] = "run" /\ step[w] # "begin" => IsAccumulator(w) \/ func[w] \in sampled

\* The barrier of a command counts exactly the threads that sit at it.
BarrierInv ==
    /\ arrived \in [Commands -> Nat]
    /\ \A c \in Commands : arrived[c] = Cardinality(Waiters(c))
    /\ \A c \in Circles : arrived[c] < size[c]

\* The barrier of c has not opened: nobody is past it.
Shut(c) ==
    /\ \A w \in Workers : Inside(w, c) => step[w] \notin Past
    /\ \A t \in finished : t[1] # c
    /\ hit_total[c] = NoTotal
    /\ c \notin freed

\* The barrier of c has opened: all tasks of c are past it or done.
Open(c) ==
    /\ \A t \in TasksOf(c) :
          t \in finished \/ \E w \in Workers : pc[w] = "run" /\ func[w] = t /\ step[w] \in Past
    /\ Samplers(c) \subseteq sampled
    /\ hit_total[c] \in {NoTotal, Samplers(c)}
    /\ c \in freed => \A w \in Workers : Inside(w, c) => step[w] = "end"

PhaseInv ==
    /\ hit_total = [c \in Commands |-> hit_total[c]]
    /\ freed \subseteq Circles
    /\ \A c \in Commands \ Circles : hit_total[c] = NoTotal
    /\ \A c \in Circles : Shut(c) \/ Open(c)

MCInv ==
    /\ JobInv
    /\ PlaceInv
    /\ SampledInv
    /\ BarrierInv
    /\ PhaseInv

-----------------------------------------------------------------------------
(* Lemmas about the tasks in the workers *)

\* A running task was dispatched and has not finished, and belongs to a command
\* that was typed.
LEMMA Runner ==
    ASSUME TasksInv, JobInv, NEW w \in Workers, pc[w] = "run"
    PROVE  /\ func[w] \in submitted
           /\ func[w] \notin finished
           /\ Command(w) \in Commands
           /\ Command(w) <= task_idx
           /\ func[w][2] \in 1 .. size[Command(w)]
           /\ func[w] = <<Command(w), func[w][2]>>
           /\ Command(w) = task_idx => func[w][2] < next
           /\ kind[Command(w)] \in {"circle", "hello"}
<1>1. func[w] # NoTask
  BY DEF TasksInv, HandsInv
<1>2. func[w] \in Running
  BY <1>1 DEF Running
<1>3. func[w] \in submitted /\ func[w] \notin finished
  BY <1>2 DEF TasksInv, TaskConservation
<1>4. PICK c \in Commands : \E i \in 1 .. size[c] :
          func[w] = <<c, i>> /\ c <= task_idx /\ (c = task_idx => i < next)
  BY <1>3 DEF JobInv
<1>5. PICK i \in 1 .. size[c] :
          func[w] = <<c, i>> /\ c <= task_idx /\ (c = task_idx => i < next)
  BY <1>4
<1>6. Command(w) = c /\ func[w][2] = i
  BY <1>5 DEF Command
<1>7. kind[c] \in {"circle", "hello"}
  <2>1. c \in Nat /\ task_idx \in Nat
    BY CommandsAssumption DEF JobInv
  <2>2. ~ (c > task_idx)
    BY <1>5, <2>1
  <2>3. QED
    BY <2>2 DEF JobInv
<1> QED
  BY <1>3, <1>5, <1>6, <1>7

\* Two workers never run the same task.
LEMMA OneRunner ==
    ASSUME TasksInv, NEW v \in Workers, NEW w \in Workers, pc[w] = "run", func[v] = func[w]
    PROVE  v = w
BY DEF TasksInv, HandsInv, TaskConservation

\* Once the barrier is open every worker inside the command is past it, and no
\* task of the command is on its way to a worker.
LEMMA OpenMeans ==
    ASSUME TasksInv, MCInv, NEW c \in Circles, Open(c)
    PROVE  /\ \A w \in Workers : Inside(w, c) => step[w] \in Past
           /\ \A t \in Queued \cup Offered : t[1] # c
<1>1. ASSUME NEW w \in Workers, Inside(w, c) PROVE step[w] \in Past
  <2>1. func[w] \in TasksOf(c) /\ func[w] \notin finished
    BY <1>1, Runner DEF MCInv, Inside, TasksOf, Command
  <2>2. PICK v \in Workers : pc[v] = "run" /\ func[v] = func[w] /\ step[v] \in Past
    BY <2>1 DEF Open
  <2>3. v = w
    BY <2>2, <1>1, OneRunner DEF Inside
  <2>4. QED
    BY <2>2, <2>3
<1>2. ASSUME NEW t \in Queued \cup Offered, t[1] = c PROVE FALSE
  <2>1. t \in submitted /\ t \notin finished /\ t \notin Running
    BY <1>2 DEF TasksInv, TaskConservation
  <2>2. t \in TasksOf(c)
    <3>1. PICK d \in Commands : \E i \in 1 .. size[d] : t = <<d, i>>
      BY <2>1 DEF MCInv, JobInv
    <3>2. PICK i \in 1 .. size[d] : t = <<d, i>>
      BY <3>1
    <3>3. d = c
      BY <3>2, <1>2
    <3>4. QED
      BY <3>2, <3>3 DEF TasksOf
  <2>3. PICK w \in Workers : pc[w] = "run" /\ func[w] = t
    BY <2>1, <2>2 DEF Open
  <2>4. func[w] \in Running
    BY <2>3 DEF TasksInv, HandsInv, Running
  <2>5. QED
    BY <2>1, <2>3, <2>4
<1> QED
  BY <1>1, <1>2

LEMMA WaitersFinite ==
    ASSUME NEW c
    PROVE  IsFiniteSet(Waiters(c)) /\ Cardinality(Waiters(c)) \in Nat
<1>1. Waiters(c) \in SUBSET Workers
  BY DEF Waiters
<1> QED
  BY <1>1, WorkersAssumption, FS_Subset, FS_CardinalityType

\* A command has as many tasks as its size says.
LEMMA TasksCount ==
    ASSUME JobInv, NEW c \in Commands
    PROVE  IsFiniteSet(TasksOf(c)) /\ Cardinality(TasksOf(c)) = size[c]
<1>1. size[c] \in Nat
  BY DEF JobInv
<1> DEFINE f == [i \in 1 .. size[c] |-> <<c, i>>]
<1>2. f \in Bijection(1 .. size[c], TasksOf(c))
  BY DEF TasksOf, Bijection, Injection, Surjection, IsInjective
<1>3. ExistsBijection(1 .. size[c], TasksOf(c))
  BY <1>2 DEF ExistsBijection
<1>4. IsFiniteSet(1 .. size[c]) /\ Cardinality(1 .. size[c]) = size[c]
  BY <1>1, FS_Interval
<1> QED
  BY <1>3, <1>4, FS_Bijection

\* The thread that makes the barrier open is the last one: every task of the
\* command is in a worker, and all the others sit at the barrier.
LEMMA LastArrives ==
    ASSUME TasksInv, MCInv, NEW w \in Workers, NEW c \in Circles, Inside(w, c),
           step[w] # "barrier", arrived[c] + 1 = size[c]
    PROVE  \A t \in TasksOf(c) : \E v \in Waiters(c) \cup {w} : func[v] = t
<1> DEFINE S == Waiters(c) \cup {w}
           f == [v \in S |-> func[v]]
<1>1. c \in Commands
  BY DEF Circles
<1>2. IsFiniteSet(S) /\ Cardinality(S) = size[c]
  <2>1. w \notin Waiters(c)
    BY DEF Waiters
  <2>2. arrived[c] = Cardinality(Waiters(c))
    BY <1>1 DEF MCInv, BarrierInv
  <2>3. QED
    BY <2>1, <2>2, WaitersFinite, FS_AddElement
<1>3. \A v \in S : v \in Workers /\ Inside(v, c)
  BY DEF Waiters
<1>4. ASSUME NEW v \in S PROVE func[v] \in TasksOf(c)
  <2>1. v \in Workers /\ pc[v] = "run" /\ Command(v) = c
    BY <1>3 DEF Inside, Command
  <2>2. QED
    BY <2>1, Runner DEF MCInv, TasksOf
<1>5. \A u, v \in S : func[u] = func[v] => u = v
  BY <1>3, OneRunner DEF Inside
<1>6. IsFiniteSet(TasksOf(c)) /\ Cardinality(TasksOf(c)) = size[c]
  BY <1>1, TasksCount DEF MCInv
<1>7. f \in Injection(S, TasksOf(c))
  BY <1>4, <1>5 DEF Injection, IsInjective
<1>8. f \in Surjection(S, TasksOf(c))
  BY <1>2, <1>6, <1>7, FS_Injection
<1> QED
  BY <1>8 DEF Surjection

-----------------------------------------------------------------------------
(* The steps *)

LEMMA MCInitInv == MCInit => MCInv
<1> SUFFICES ASSUME MCInit PROVE MCInv
  OBVIOUS
<1> USE DEF MCInit, Init
<1>1. JobInv
  BY CommandsAssumption DEF JobInv, Circles
<1>2. PlaceInv /\ SampledInv
  BY DEF PlaceInv, SampledInv, Steps
<1>3. \A c \in Commands : Waiters(c) = {}
  BY DEF Waiters, Inside
<1>4. BarrierInv
  BY <1>3, FS_EmptySet DEF BarrierInv, Circles
<1>5. PhaseInv
  BY DEF PhaseInv, Circles
<1> QED
  BY <1>1, <1>2, <1>4, <1>5 DEF MCInv

\* A step of the pool that neither starts nor ends a task and dispatches none.
Quiet ==
    /\ UNCHANGED <<job, inside, func, finished, submitted>>
    /\ \A w \in Workers : pc'[w] = "run" <=> pc[w] = "run"

LEMMA QuietStep == TasksInv /\ MCInv /\ Quiet => MCInv'
<1> SUFFICES ASSUME TasksInv, MCInv, Quiet PROVE MCInv'
  OBVIOUS
<1> USE DEF Quiet, job, inside, MCInv
<1>1. Circles' = Circles /\ \A c : TasksOf(c)' = TasksOf(c) /\ Samplers(c)' = Samplers(c)
  BY DEF Circles, TasksOf, Samplers
<1>2. \A w \in Workers : Command(w)' = Command(w) /\ (IsAccumulator(w)' <=> IsAccumulator(w))
  BY DEF Command, IsAccumulator
<1>3. \A c : \A w \in Workers : Inside(w, c)' <=> Inside(w, c)
  BY DEF Inside
<1>4. \A c : Waiters(c)' = Waiters(c)
  BY <1>3 DEF Waiters
<1>5. JobInv'
  BY <1>1 DEF JobInv
<1>6. PlaceInv'
  BY <1>2 DEF PlaceInv
<1>7. SampledInv'
  BY <1>1, <1>2 DEF SampledInv
<1>8. BarrierInv'
  BY <1>1, <1>4 DEF BarrierInv
<1>9. \A c : (Shut(c)' <=> Shut(c)) /\ (Open(c)' <=> Open(c))
  BY <1>1, <1>3 DEF Shut, Open
<1>10. PhaseInv'
  BY <1>1, <1>9 DEF PhaseInv
<1> QED
  BY <1>5, <1>6, <1>7, <1>8, <1>10

\* A worker takes a task out of the mailbox: its command has not opened its
\* barrier, because the task is not past it.
LEMMA TakeStep ==
    ASSUME TasksInv, MCInv, NEW w \in Workers, TakeTask(w), UNCHANGED <<job, inside>>
    PROVE  MCInv'
<1> USE DEF job, inside, MCInv
<1>1. /\ pc[w] # "run" /\ pc' = [pc EXCEPT ![w] = "run"] /\ func' = [func EXCEPT ![w] = work]
      /\ finished' = finished /\ submitted' = submitted /\ step[w] = "begin"
      /\ pc \in [Workers -> WorkerPCs] /\ func \in [Workers -> Tasks \cup {NoTask}]
      /\ work \in Queued
  BY DEF TakeTask, history, PlaceInv, TasksInv, TypeOK, Queued
<1>2. \A v \in Workers : v # w => pc'[v] = pc[v] /\ func'[v] = func[v]
  BY <1>1
<1>3. pc'[w] = "run" /\ func'[w] = work
  BY <1>1
<1>4. Circles' = Circles /\ \A c : TasksOf(c)' = TasksOf(c) /\ Samplers(c)' = Samplers(c)
  BY DEF Circles, TasksOf, Samplers
<1>5. JobInv'
  BY <1>1, <1>4 DEF JobInv
<1>6. PlaceInv'
  BY <1>1, <1>2, <1>3 DEF PlaceInv, Command, IsAccumulator
<1>7. SampledInv'
  BY <1>1, <1>2, <1>3, <1>4 DEF SampledInv, Command, IsAccumulator
<1>8. \A c : Waiters(c)' = Waiters(c)
  BY <1>1, <1>2, <1>3 DEF Waiters, Inside
<1>9. BarrierInv'
  BY <1>4, <1>8 DEF BarrierInv
<1>10. ASSUME NEW c \in Circles, Shut(c) PROVE Shut(c)'
  BY <1>1, <1>2, <1>3, <1>10 DEF Shut, Inside, Past
<1>11. ASSUME NEW c \in Circles, Open(c) PROVE Open(c)'
  <2>1. work[1] # c
    BY <1>1, <1>11, OpenMeans
  <2>2. \A t \in TasksOf(c)' : t \in finished'
           \/ \E v \in Workers : pc'[v] = "run" /\ func'[v] = t /\ step'[v] \in Past
    BY <1>1, <1>2, <1>4, <1>11 DEF Open
  <2>3. c \in freed' => \A v \in Workers : Inside(v, c)' => step'[v] = "end"
    BY <1>2, <1>3, <2>1, <1>11 DEF Open, Inside
  <2>4. QED
    BY <1>4, <2>2, <2>3, <1>11 DEF Open
<1>12. PhaseInv'
  BY <1>4, <1>10, <1>11 DEF PhaseInv
<1> QED
  BY <1>5, <1>6, <1>7, <1>9, <1>12

\* The loop of a command dispatches its next task: the barrier of that command
\* is shut, because this task has not been in any worker yet.
LEMMA DispatchStep ==
    ASSUME TasksInv, MCInv, DispatchNext
    PROVE  MCInv'
<1> USE DEF job, inside, MCInv
<1> DEFINE t == <<task_idx, next>>
<1>1. /\ UNCHANGED <<task_idx, kind, size, inside, pc, func, finished>>
      /\ submitted' = submitted \cup {t}
      /\ next' = next + 1 /\ task_idx # 0 /\ ~ (next > size[task_idx])
  BY DEF DispatchNext, Submit, CommandDone
<1>2. Circles' = Circles /\ \A c : TasksOf(c)' = TasksOf(c) /\ Samplers(c)' = Samplers(c)
  BY <1>1 DEF Circles, TasksOf, Samplers
<1>3. JobInv'
  <2>1. task_idx \in Commands /\ next \in 1 .. size[task_idx] /\ task_idx \in Nat
    BY <1>1, CommandsAssumption DEF JobInv
  <2>2. ASSUME NEW u \in submitted'
        PROVE  \E c \in Commands : \E i \in 1 .. size[c] :
                  u = <<c, i>> /\ c <= task_idx /\ (c = task_idx => i < next')
    <3>1. CASE u = t
      BY <1>1, <2>1, <3>1 DEF JobInv
    <3>2. CASE u \in submitted
      <4>1. PICK c \in Commands : \E i \in 1 .. size[c] :
                    u = <<c, i>> /\ c <= task_idx /\ (c = task_idx => i < next)
        BY <3>2 DEF JobInv
      <4>2. PICK i \in 1 .. size[c] : u = <<c, i>> /\ c <= task_idx /\ (c = task_idx => i < next)
        BY <4>1
      <4>3. i < next => i < next'
        BY <1>1, <2>1
      <4>4. QED
        BY <4>2, <4>3
    <3>3. QED
      BY <1>1, <2>2, <3>1, <3>2
  <2>3. next' \in Nat \ {0}
    BY <1>1 DEF JobInv
  <2>4. QED
    BY <1>1, <1>2, <2>2, <2>3 DEF JobInv
<1>4. PlaceInv'
  BY <1>1 DEF PlaceInv, Command, IsAccumulator
<1>5. SampledInv'
  BY <1>1, <1>2 DEF SampledInv, IsAccumulator, Command
<1>6. \A c : Waiters(c)' = Waiters(c)
  BY <1>1 DEF Waiters, Inside
<1>7. BarrierInv'
  BY <1>1, <1>2, <1>6 DEF BarrierInv
<1>8. \A c : (Shut(c)' <=> Shut(c)) /\ (Open(c)' <=> Open(c))
  BY <1>1, <1>2 DEF Shut, Open, Inside
<1>9. PhaseInv'
  BY <1>1, <1>2, <1>8 DEF PhaseInv
<1> QED
  BY <1>3, <1>4, <1>5, <1>7, <1>9

\* A circle command has a sampler and an accumulator at the least.
LEMMA CircleSize ==
    ASSUME NEW n \in WorkerCounts
    PROVE  SamplerCount(n) \in Nat \ {0}
<1>1. n \in Nat \ {0} /\ Cardinality(Workers) \in Nat
  BY WorkerCountsAssumption, WorkersAssumption, FS_CardinalityType
<1> QED
  BY <1>1 DEF SamplerCount

\* A new command starts with an empty barrier and nothing dispatched; the
\* commands before it keep theirs.
LEMMA StartStep ==
    ASSUME TasksInv, MCInv, NEW k \in {"circle", "hello"}, NEW tasks \in Nat,
           k = "circle" => tasks > 1, StartSized(k, tasks)
    PROVE  MCInv'
<1> USE DEF job, inside, MCInv
<1> DEFINE d == task_idx + 1
<1>1. /\ CommandDone
      /\ d \in Commands
      /\ task_idx' = d
      /\ kind' = [kind EXCEPT ![d] = k]
      /\ size' = [size EXCEPT ![d] = tasks]
      /\ next' = 1
      /\ UNCHANGED <<vars, inside>>
  BY DEF StartSized
<1>2. k \in {"circle", "hello"}
  OBVIOUS
<1>3. UNCHANGED <<pc, func, submitted, finished, step, arrived, sampled, hit_total, freed>>
  BY <1>1 DEF vars
<1>4. task_idx \in Nat /\ Commands \subseteq Nat /\ kind[d] = "none" /\ d \notin Circles
  BY <1>1, CommandsAssumption DEF JobInv, Circles
<1>5. \A c \in Commands : c # d => kind'[c] = kind[c] /\ size'[c] = size[c]
  BY <1>1 DEF JobInv
<1>6. kind'[d] = k /\ size'[d] = tasks
  BY <1>1 DEF JobInv
<1>7. \A c : c \in Circles' <=> c \in Circles \/ (c = d /\ k = "circle")
  <2>1. \A c \in Commands \ {d} : c \in Circles' <=> c \in Circles
    BY <1>5 DEF Circles
  <2>2. d \in Circles' <=> k = "circle"
    BY <1>1, <1>6 DEF Circles
  <2>3. QED
    BY <1>4, <2>1, <2>2 DEF Circles
<1>8. \A c \in Commands : c # d => TasksOf(c)' = TasksOf(c) /\ Samplers(c)' = Samplers(c)
  BY <1>5 DEF TasksOf, Samplers
<1>9. \A w \in Workers : pc[w] = "run" => Command(w) \in Commands /\ Command(w) # d
  BY Runner, <1>4 DEF MCInv
<1>10. \A w \in Workers : Command(w)' = Command(w)
  BY <1>3 DEF Command
<1>11. \A w \in Workers : pc[w] = "run" => (IsAccumulator(w)' <=> IsAccumulator(w))
  BY <1>3, <1>5, <1>9, <1>10 DEF IsAccumulator
<1>12. JobInv'
  <2>1. \A c \in Commands : c > d <=> (c > task_idx /\ c # d)
    BY <1>4
  <2>2. \A c \in Commands : kind'[c] = "none" <=> c > task_idx'
    BY <1>1, <1>2, <1>4, <1>5, <1>6, <2>1 DEF JobInv
  <2>3. ASSUME NEW u \in submitted'
        PROVE  \E c \in Commands : \E i \in 1 .. size'[c] :
                  u = <<c, i>> /\ c <= task_idx' /\ (c = task_idx' => i < next')
    <3>1. PICK c \in Commands : \E i \in 1 .. size[c] : u = <<c, i>> /\ c <= task_idx
      BY <1>3, <2>3 DEF JobInv
    <3>2. c # d /\ c <= d
      BY <3>1, <1>4
    <3>3. QED
      BY <3>1, <3>2, <1>1, <1>5
  <2>4. \A c \in Circles' : size'[c] > 1
    BY <1>1, <1>5, <1>6, <1>7 DEF JobInv, Circles
  <2>5. /\ task_idx' \in Commands \cup {0} /\ kind' \in [Commands -> {"none", "circle", "hello"}]
        /\ size' \in [Commands -> Nat] /\ next' \in Nat \ {0}
    BY <1>1, <1>2 DEF JobInv
  <2>6. QED
    BY <2>2, <2>3, <2>4, <2>5 DEF JobInv
<1>13. PlaceInv'
  BY <1>3, <1>5, <1>9, <1>10, <1>11 DEF PlaceInv
<1>14. SampledInv'
  <2>1. \A t \in sampled : \E c \in Circles' : t \in Samplers(c)'
    BY <1>4, <1>7, <1>8 DEF SampledInv, Circles
  <2>2. QED
    BY <2>1, <1>3, <1>11 DEF SampledInv
<1>15. \A c : Waiters(c)' = Waiters(c)
  BY <1>3 DEF Waiters, Inside
<1>16. BarrierInv'
  <2>1. Waiters(d) = {}
    BY <1>9 DEF Waiters, Inside, Command
  <2>2. arrived[d] = 0
    BY <1>1, <2>1, FS_EmptySet DEF BarrierInv
  <2>3. \A c \in Circles' : arrived[c] < size'[c]
    BY <1>1, <1>4, <1>5, <1>6, <1>7, <2>2 DEF BarrierInv, Circles
  <2>4. QED
    BY <1>3, <1>15, <2>3 DEF BarrierInv
<1>17. ASSUME NEW c \in Circles PROVE Shut(c)' \/ Open(c)'
  <2>1. c \in Commands /\ c # d
    BY <1>4 DEF Circles
  <2>2. CASE Shut(c)
    BY <2>2, <1>3 DEF Shut, Inside
  <2>3. CASE Open(c)
    BY <2>1, <2>3, <1>3, <1>8 DEF Open, Inside
  <2>4. QED
    BY <2>2, <2>3 DEF PhaseInv
<1>18. ASSUME NEW c, c = d PROVE Shut(c)'
  <2>1. \A w \in Workers : ~ Inside(w, c)'
    BY <1>3, <1>9, <1>18 DEF Inside, Command
  <2>2. ASSUME NEW t \in finished PROVE t[1] # c
    <3>1. t \in submitted
      BY DEF TasksInv, TaskConservation
    <3>2. PICK e \in Commands : \E i \in 1 .. size[e] : t = <<e, i>> /\ e <= task_idx
      BY <3>1 DEF JobInv
    <3>3. QED
      BY <3>2, <1>4, <1>18
  <2>3. hit_total[c] = NoTotal /\ c \notin freed
    BY <1>1, <1>4, <1>18 DEF PhaseInv
  <2>4. QED
    BY <2>1, <2>2, <2>3, <1>3 DEF Shut
<1>19. PhaseInv'
  <2>1. \A c \in Commands \ Circles' : hit_total[c] = NoTotal
    BY <1>7 DEF PhaseInv
  <2>2. freed \subseteq Circles'
    BY <1>7 DEF PhaseInv
  <2>3. \A c \in Circles' : Shut(c)' \/ Open(c)'
    BY <1>7, <1>17, <1>18
  <2>4. QED
    BY <1>3, <2>1, <2>2, <2>3 DEF PhaseInv
<1> QED
  BY <1>12, <1>13, <1>14, <1>16, <1>19

\* A command as the user types it: circle commands have two tasks at the least.
LEMMA TypedSize ==
    ASSUME NEW k \in {"circle", "hello"}, NEW n \in WorkerCounts, StartCommand(k, n)
    PROVE  \E tasks \in Nat : (k = "circle" => tasks > 1) /\ StartSized(k, tasks)
<1>1. (IF k = "circle" THEN SamplerCount(n) + 1 ELSE n) \in Nat
  BY CircleSize, WorkerCountsAssumption
<1>2. k = "circle" => SamplerCount(n) + 1 > 1
  BY CircleSize
<1>3. StartSized(k, IF k = "circle" THEN SamplerCount(n) + 1 ELSE n)
  BY DEF StartCommand
<1> QED
  BY <1>1, <1>2, <1>3

\* What a step inside a task function leaves alone.
InFunction == UNCHANGED <<vars, job>>

\* A step inside a task function is taken in a circle command.
LEMMA InCircle ==
    ASSUME TasksInv, MCInv, NEW w \in Workers, NEW s, At(w, s)
    PROVE  /\ pc[w] = "run" /\ step[w] = s
           /\ Command(w) \in Circles /\ Inside(w, Command(w))
           /\ func[w] \in TasksOf(Command(w))
BY Runner DEF At, Circles, Inside, Command, TasksOf, MCInv

\* The parts of the state that no step inside a task function touches.
LEMMA FrameOf ==
    ASSUME MCInv, InFunction
    PROVE  /\ Circles' = Circles
           /\ \A c : TasksOf(c)' = TasksOf(c) /\ Samplers(c)' = Samplers(c)
           /\ \A w : Command(w)' = Command(w) /\ (IsAccumulator(w)' <=> IsAccumulator(w))
           /\ \A w, c : Inside(w, c)' <=> Inside(w, c)
           /\ pc' = pc /\ func' = func /\ finished' = finished /\ kind' = kind
           /\ JobInv'
<1> USE DEF InFunction, vars, job
<1>1. Circles' = Circles
  BY DEF Circles
<1>2. JobInv'
  BY <1>1 DEF MCInv, JobInv
<1> QED
  BY <1>1, <1>2 DEF TasksOf, Samplers, Command, IsAccumulator, Inside

\* A sampler's count becomes final before it reaches the barrier.
LEMMA SampleStep ==
    ASSUME TasksInv, MCInv, NEW w \in Workers, Sample(w)
    PROVE  MCInv'
<1> USE DEF MCInv
<1> DEFINE c == Command(w)
<1>0. InFunction
  BY DEF Sample, InFunction
<1>1. /\ At(w, "begin") /\ ~ IsAccumulator(w)
      /\ sampled' = sampled \cup {func[w]}
      /\ step' = [step EXCEPT ![w] = "arrive"]
      /\ UNCHANGED <<arrived, hit_total, freed>>
  BY DEF Sample, Goto
<1>2. /\ pc[w] = "run" /\ step[w] = "begin" /\ c \in Circles /\ Inside(w, c)
      /\ func[w] \in TasksOf(c)
  BY <1>1, InCircle
<1>3. step'[w] = "arrive" /\ \A v \in Workers : v # w => step'[v] = step[v]
  BY <1>1 DEF PlaceInv
<1>4. JobInv'
  BY <1>0, FrameOf
<1>5. PlaceInv'
  <2>1. step' \in [Workers -> Steps]
    BY <1>1 DEF PlaceInv, Steps
  <2>2. kind[Command(w)] = "circle"
    BY <1>2 DEF Circles
  <2>3. QED
    BY <1>0, <1>1, <1>2, <1>3, <2>1, <2>2, FrameOf DEF PlaceInv
<1>6. SampledInv'
  <2>1. func[w] \in Samplers(c)
    <3>1. PICK i \in 1 .. size[c] : func[w] = <<c, i>>
      BY <1>2 DEF TasksOf
    <3>2. i # size[c] /\ size[c] \in Nat
      BY <1>1, <1>2, <3>1 DEF IsAccumulator, JobInv, Circles
    <3>3. QED
      BY <3>1, <3>2 DEF Samplers
  <2>2. \A t \in sampled' : \E d \in Circles : t \in Samplers(d)
    BY <1>1, <1>2, <2>1 DEF SampledInv
  <2>3. \A v \in Workers :
          pc[v] = "run" /\ step'[v] # "begin" => IsAccumulator(v) \/ func[v] \in sampled'
    BY <1>1, <1>3 DEF SampledInv
  <2>4. QED
    BY <1>0, <2>2, <2>3, FrameOf DEF SampledInv
<1>7. \A d : Waiters(d)' = Waiters(d)
  BY <1>0, <1>2, <1>3, FrameOf DEF Waiters
<1>8. BarrierInv'
  BY <1>0, <1>1, <1>7, FrameOf DEF BarrierInv, InFunction, job
<1>9. ASSUME NEW d \in Circles PROVE Shut(d)' \/ Open(d)'
  <2>1. CASE Shut(d)
    BY <2>1, <1>0, <1>1, <1>3, FrameOf DEF Shut, Past
  <2>2. CASE Open(d)
    <3>1. ~ Inside(w, d)
      BY <2>2, <1>2, OpenMeans DEF Past
    <3>2. \A v \in Workers : pc[v] = "run" /\ step[v] \in Past => step'[v] \in Past
      BY <1>2, <1>3 DEF Past
    <3>3. \A v \in Workers : Inside(v, d) => step'[v] = step[v]
      BY <3>1, <1>3
    <3>4. QED
      BY <2>2, <3>2, <3>3, <1>0, <1>1, FrameOf DEF Open
  <2>3. QED
    BY <2>1, <2>2 DEF PhaseInv
<1>10. PhaseInv'
  BY <1>0, <1>1, <1>9, FrameOf DEF PhaseInv
<1> QED
  BY <1>4, <1>5, <1>6, <1>8, <1>10

\* A thread that finds the barrier incomplete sits down at it.
LEMMA ArriveWaits ==
    ASSUME TasksInv, MCInv, NEW w \in Workers, Arrive(w),
           arrived[Command(w)] + 1 # size[Command(w)]
    PROVE  MCInv'
<1> USE DEF MCInv
<1> DEFINE c == Command(w)
<1>0. InFunction
  BY DEF Arrive, InFunction
<1>1. /\ At(w, "arrive") \/ (At(w, "begin") /\ IsAccumulator(w))
      /\ step' = [step EXCEPT ![w] = "barrier"]
      /\ arrived' = [arrived EXCEPT ![c] = @ + 1]
      /\ UNCHANGED <<sampled, hit_total, freed>>
  BY DEF Arrive, Goto, BarrierCount
<1>2. /\ pc[w] = "run" /\ step[w] \in {"arrive", "begin"} /\ c \in Circles /\ Inside(w, c)
      /\ func[w] \in TasksOf(c)
  BY <1>1, InCircle
<1>3. step'[w] = "barrier" /\ \A v \in Workers : v # w => step'[v] = step[v]
  BY <1>1 DEF PlaceInv
<1>4. JobInv'
  BY <1>0, FrameOf
<1>5. PlaceInv'
  <2>1. step' \in [Workers -> Steps]
    BY <1>1 DEF PlaceInv, Steps
  <2>2. kind[Command(w)] = "circle"
    BY <1>2 DEF Circles
  <2>3. QED
    BY <1>0, <1>1, <1>2, <1>3, <2>1, <2>2, FrameOf DEF PlaceInv
<1>6. SampledInv'
  <2>1. IsAccumulator(w) \/ func[w] \in sampled
    BY <1>1, <1>2 DEF SampledInv, At
  <2>2. \A v \in Workers :
          pc[v] = "run" /\ step'[v] # "begin" => IsAccumulator(v) \/ func[v] \in sampled'
    BY <1>1, <1>3, <2>1 DEF SampledInv
  <2>3. QED
    BY <1>0, <1>1, <2>2, FrameOf DEF SampledInv
<1>7. /\ w \notin Waiters(c) /\ Waiters(c)' = Waiters(c) \cup {w}
      /\ \A d : d # c => Waiters(d)' = Waiters(d)
  <2>1. w \notin Waiters(c)
    BY <1>2 DEF Waiters
  <2>2. \A v \in Workers : v \in Waiters(c)' <=> v \in Waiters(c) \/ v = w
    BY <1>0, <1>2, <1>3, FrameOf DEF Waiters
  <2>3. \A d : d # c => ~ Inside(w, d)
    BY <1>2 DEF Inside
  <2>4. \A d : d # c => Waiters(d)' = Waiters(d)
    BY <1>0, <1>3, <2>3, FrameOf DEF Waiters
  <2>5. QED
    BY <2>1, <2>2, <2>4 DEF Waiters
<1>8. BarrierInv'
  <2>1. c \in Commands
    BY <1>2 DEF Circles
  <2>2. arrived'[c] = arrived[c] + 1 /\ \A d \in Commands : d # c => arrived'[d] = arrived[d]
    BY <1>1, <2>1 DEF BarrierInv
  <2>3. \A d \in Commands : arrived'[d] = Cardinality(Waiters(d)')
    <3>1. ASSUME NEW d \in Commands, d # c PROVE arrived'[d] = Cardinality(Waiters(d)')
      BY <3>1, <2>2, <1>7 DEF BarrierInv
    <3>2. ASSUME NEW d \in Commands, d = c PROVE arrived'[d] = Cardinality(Waiters(d)')
      <4>1. Waiters(d)' = Waiters(c) \cup {w}
        BY <3>2, <1>0, <1>2, <1>3, FrameOf DEF Waiters
      <4>2. Cardinality(Waiters(c) \cup {w}) = Cardinality(Waiters(c)) + 1
        BY <1>7, WaitersFinite, FS_AddElement
      <4>3. QED
        BY <3>2, <4>1, <4>2, <2>1, <2>2 DEF BarrierInv
    <3>3. QED
      BY <3>1, <3>2
  <2>4. arrived[c] \in Nat /\ size[c] \in Nat /\ arrived[c] < size[c]
    BY <1>2, <2>1 DEF BarrierInv, JobInv
  <2>5. arrived'[c] < size[c]
    BY <2>2, <2>4
  <2>6. \A d \in Circles : arrived'[d] < size[d]
    BY <2>2, <2>5 DEF BarrierInv, Circles
  <2>7. arrived' \in [Commands -> Nat]
    BY <1>1, <2>1, <2>4 DEF BarrierInv
  <2>8. QED
    BY <1>0, <2>3, <2>6, <2>7, FrameOf DEF BarrierInv, InFunction, job
<1>9. ASSUME NEW d \in Circles PROVE Shut(d)' \/ Open(d)'
  <2>1. CASE Shut(d)
    BY <2>1, <1>0, <1>1, <1>3, FrameOf DEF Shut, Past
  <2>2. CASE Open(d)
    <3>1. ~ Inside(w, d)
      BY <2>2, <1>2, OpenMeans DEF Past
    <3>2. \A v \in Workers : pc[v] = "run" /\ step[v] \in Past => step'[v] \in Past
      BY <1>2, <1>3 DEF Past
    <3>3. \A v \in Workers : Inside(v, d) => step'[v] = step[v]
      BY <3>1, <1>3
    <3>4. QED
      BY <2>2, <3>2, <3>3, <1>0, <1>1, FrameOf DEF Open
  <2>3. QED
    BY <2>1, <2>2 DEF PhaseInv
<1>10. PhaseInv'
  BY <1>0, <1>1, <1>9, FrameOf DEF PhaseInv
<1> QED
  BY <1>4, <1>5, <1>6, <1>8, <1>10

\* The last thread opens the barrier: every task of the command is in a worker,
\* all of them go past it together, and all counts are final.
LEMMA ArriveOpens ==
    ASSUME TasksInv, MCInv, NEW w \in Workers, Arrive(w),
           arrived[Command(w)] + 1 = size[Command(w)]
    PROVE  MCInv'
<1> USE DEF MCInv
<1> DEFINE Sits(v) == v = w \/ (At(v, "barrier") /\ Command(v) = Command(w))
<1>0. InFunction
  BY DEF Arrive, InFunction
<1>c. PICK c : c = Command(w)
  OBVIOUS
<1>1. /\ At(w, "arrive") \/ (At(w, "begin") /\ IsAccumulator(w))
      /\ step' = [v \in Workers |-> IF Sits(v) THEN "leave" ELSE step[v]]
      /\ arrived' = [arrived EXCEPT ![c] = 0]
      /\ UNCHANGED <<sampled, hit_total, freed>>
  BY <1>c DEF Arrive, BarrierCount
<1>2. /\ pc[w] = "run" /\ step[w] \in {"arrive", "begin"} /\ c \in Circles /\ Inside(w, c)
      /\ func[w] \in TasksOf(c) /\ kind[c] = "circle"
  BY <1>1, <1>c, InCircle DEF Circles
<1>3. \A v \in Workers : Sits(v) <=> v \in Waiters(c) \cup {w}
  BY <1>2, <1>c DEF Waiters, Inside, At, Command
<1>4. \A v \in Workers : IF Sits(v) THEN step'[v] = "leave" ELSE step'[v] = step[v]
  BY <1>1
<1>5. \A v \in Workers : Sits(v) => Inside(v, c) /\ pc[v] = "run" /\ Command(v) = c /\ step[v] \notin Past
  BY <1>2, <1>3 DEF Waiters, Inside, Past, Command
<1> HIDE DEF Sits
<1>6. JobInv'
  BY <1>0, FrameOf
<1>7. PlaceInv'
  <2>1. step' \in [Workers -> Steps]
    BY <1>1 DEF PlaceInv, Steps
  <2>2. \A v \in Workers : Sits(v) => kind[Command(v)] = "circle"
    BY <1>2, <1>5
  <2>3. QED
    BY <1>0, <1>4, <1>5, <2>1, <2>2, FrameOf DEF PlaceInv
<1>8. \A v \in Workers : Sits(v) => IsAccumulator(v) \/ func[v] \in sampled
  <2>1. IsAccumulator(w) \/ func[w] \in sampled
    BY <1>1, <1>2 DEF SampledInv, At
  <2>2. QED
    BY <2>1, <1>3, <1>5 DEF SampledInv, Waiters
<1>9. SampledInv'
  <2>1. \A v \in Workers :
          pc[v] = "run" /\ step'[v] # "begin" => IsAccumulator(v) \/ func[v] \in sampled
    BY <1>4, <1>8 DEF SampledInv
  <2>2. QED
    BY <1>0, <1>1, <2>1, FrameOf DEF SampledInv
<1>10. BarrierInv'
  <2>1. c \in Commands
    BY <1>2 DEF Circles
  <2>2. Waiters(c)' = {}
    <3>1. ASSUME NEW v \in Workers, Inside(v, c), step'[v] = "barrier" PROVE FALSE
      BY <3>1, <1>3, <1>4 DEF Waiters
    <3>2. QED
      BY <3>1, <1>0, FrameOf DEF Waiters
  <2>3. ASSUME NEW d, d # c PROVE Waiters(d)' = Waiters(d)
    <3>1. \A v \in Workers : Inside(v, d) => step'[v] = step[v]
      BY <2>3, <1>4, <1>5 DEF Inside
    <3>2. QED
      BY <3>1, <1>0, FrameOf DEF Waiters
  <2>4. arrived'[c] = 0 /\ \A d \in Commands : d # c => arrived'[d] = arrived[d]
    BY <1>1, <2>1 DEF BarrierInv
  <2>5. \A d \in Commands : arrived'[d] = Cardinality(Waiters(d)')
    BY <2>2, <2>3, <2>4, FS_EmptySet DEF BarrierInv
  <2>6. \A d \in Circles : arrived'[d] < size[d]
    <3>1. 0 < size[c]
      BY <1>2, <2>1 DEF JobInv
    <3>2. QED
      BY <3>1, <2>4 DEF BarrierInv, Circles
  <2>7. arrived' \in [Commands -> Nat]
    BY <1>1 DEF BarrierInv
  <2>8. QED
    BY <1>0, <2>5, <2>6, <2>7, FrameOf DEF BarrierInv, InFunction, job
<1>11. Open(c)'
  <2>0. c \in Commands /\ size[c] \in Nat
    BY <1>2 DEF Circles, JobInv
  <2>1. \A t \in TasksOf(c) : \E v \in Waiters(c) \cup {w} : func[v] = t
    BY <1>2, <1>c, LastArrives
  <2>2. ASSUME NEW t \in TasksOf(c)
        PROVE  \E v \in Workers : pc[v] = "run" /\ func[v] = t /\ step'[v] \in Past
    <3>1. PICK v \in Workers : Sits(v) /\ func[v] = t
      BY <2>1, <1>3 DEF Waiters
    <3>2. QED
      BY <3>1, <1>4, <1>5 DEF Past
  <2>3. ASSUME NEW t \in Samplers(c) PROVE t \in sampled
    <3>1. PICK i \in 1 .. size[c] - 1 : t = <<c, i>>
      BY <2>3 DEF Samplers
    <3>2. i \in 1 .. size[c] /\ i # size[c]
      BY <2>0
    <3>3. t \in TasksOf(c)
      BY <3>1, <3>2 DEF TasksOf
    <3>4. PICK v \in Workers : Sits(v) /\ func[v] = t
      BY <3>3, <2>1, <1>3 DEF Waiters
    <3>5. ~ IsAccumulator(v)
      BY <3>1, <3>2, <3>4, <1>5 DEF IsAccumulator
    <3>6. QED
      BY <3>4, <3>5, <1>8
  <2>4. Shut(c)
    <3>1. ~ Open(c)
      BY <1>2, OpenMeans DEF Past
    <3>2. QED
      BY <3>1, <1>2 DEF PhaseInv
  <2>5. QED
    BY <2>2, <2>3, <2>4, <1>0, <1>1, FrameOf DEF Open, Shut
<1>12. ASSUME NEW d \in Circles, d # c PROVE Shut(d)' \/ Open(d)'
  <2>1. \A v \in Workers : Inside(v, d) => step'[v] = step[v]
    BY <1>12, <1>4, <1>5 DEF Inside
  <2>2. CASE Shut(d)
    BY <2>1, <2>2, <1>0, <1>1, FrameOf DEF Shut
  <2>3. CASE Open(d)
    <3>1. \A v \in Workers : pc[v] = "run" /\ step[v] \in Past => step'[v] \in Past
      BY <1>4, <1>5
    <3>2. QED
      BY <2>1, <2>3, <3>1, <1>0, <1>1, FrameOf DEF Open
  <2>4. QED
    BY <2>2, <2>3 DEF PhaseInv
<1>13. PhaseInv'
  BY <1>0, <1>1, <1>11, <1>12, FrameOf DEF PhaseInv
<1> QED
  BY <1>6, <1>7, <1>9, <1>10, <1>13

\* A step past the barrier leaves everybody else where they are with respect to the barriers.
OthersKept(w) ==
    /\ JobInv' /\ PlaceInv' /\ SampledInv' /\ BarrierInv'
    /\ Command(w) \in Circles /\ Open(Command(w))
    /\ \A c : Samplers(c)' = Samplers(c)
    /\ \A c \in Circles :
          Shut(c) => /\ c # Command(w)
                     /\ \A v \in Workers : Inside(v, c)' => step'[v] \notin Past
                     /\ \A t \in finished' : t[1] # c
    /\ \A c \in Circles : \A t \in TasksOf(c)' :
          Open(c) => \/ t \in finished'
                     \/ \E v \in Workers : pc'[v] = "run" /\ func'[v] = t /\ step'[v] \in Past

\* A thread that is past the barrier of its command stays past it.
LEMMA PastStep ==
    ASSUME TasksInv, MCInv, NEW w \in Workers, InFunction,
           NEW s \in Past, NEW r \in Past, At(w, s), step' = [step EXCEPT ![w] = r],
           UNCHANGED <<arrived, sampled>>,
           r \in {"sum", "destroy"} => IsAccumulator(w)
    PROVE  OthersKept(w)
<1> USE DEF MCInv
<1>1. /\ pc[w] = "run" /\ step[w] = s /\ Command(w) \in Circles /\ Inside(w, Command(w))
      /\ kind[Command(w)] = "circle"
  BY InCircle DEF Circles
<1>2. step'[w] = r /\ \A v \in Workers : v # w => step'[v] = step[v]
  BY DEF PlaceInv
<1>3. JobInv'
  BY FrameOf
<1>4. PlaceInv'
  <2>1. step' \in [Workers -> Steps]
    BY DEF PlaceInv, Steps, Past
  <2>2. QED
    BY <1>1, <1>2, <2>1, FrameOf DEF PlaceInv, Past
<1>5. SampledInv'
  <2>1. \A v \in Workers :
          pc[v] = "run" /\ step'[v] # "begin" => IsAccumulator(v) \/ func[v] \in sampled
    BY <1>1, <1>2 DEF SampledInv, Past
  <2>2. QED
    BY <2>1, FrameOf DEF SampledInv
<1>6. \A c : Waiters(c)' = Waiters(c)
  BY <1>1, <1>2, FrameOf DEF Waiters, Past
<1>7. BarrierInv'
  BY <1>6, FrameOf DEF BarrierInv, InFunction, job
<1>8. ~ Shut(Command(w))
  BY <1>1 DEF Shut
<1>9. Open(Command(w))
  BY <1>1, <1>8 DEF PhaseInv
<1>10. ASSUME NEW c \in Circles, Shut(c)
       PROVE  /\ c # Command(w)
              /\ \A v \in Workers : Inside(v, c)' => step'[v] \notin Past
              /\ \A t \in finished' : t[1] # c
  <2>1. c # Command(w)
    BY <1>8, <1>10
  <2>2. \A v \in Workers : Inside(v, c) => v # w
    BY <2>1, <1>1 DEF Inside, Command
  <2>3. QED
    BY <1>2, <1>10, <2>1, <2>2, FrameOf DEF Shut
<1>11. ASSUME NEW c \in Circles, NEW t \in TasksOf(c)', Open(c)
       PROVE  \/ t \in finished'
              \/ \E v \in Workers : pc'[v] = "run" /\ func'[v] = t /\ step'[v] \in Past
  <2>1. \A v \in Workers : step[v] \in Past => step'[v] \in Past
    BY <1>2
  <2>2. t \in TasksOf(c)
    BY <1>11, FrameOf
  <2>3. QED
    BY <1>11, <2>1, <2>2, FrameOf DEF Open
<1> QED
  BY <1>1, <1>3, <1>4, <1>5, <1>7, <1>9, <1>10, <1>11, FrameOf DEF OthersKept

\* A thread returns from pthread_barrier_wait.
LEMMA LeaveStep ==
    ASSUME TasksInv, MCInv, NEW w \in Workers, Leave(w)
    PROVE  MCInv'
<1> DEFINE c == Command(w)
           r == IF IsAccumulator(w) THEN "sum" ELSE "end"
<1>1. /\ InFunction /\ At(w, "leave") /\ step' = [step EXCEPT ![w] = r]
      /\ UNCHANGED <<arrived, sampled, hit_total, freed>>
      /\ r \in Past /\ (r \in {"sum", "destroy"} => IsAccumulator(w))
      /\ "leave" \in Past
  BY DEF Leave, Goto, InFunction, Past
<1> HIDE DEF r
<1>2. OthersKept(w)
  BY <1>1, PastStep
<1>3. \A d \in Circles : Shut(d) => Shut(d)'
  BY <1>1, <1>2 DEF Shut, OthersKept
<1>4. ASSUME NEW d \in Circles, Open(d) PROVE Open(d)'
  <2>1. Inside(w, d) => d \notin freed
    BY <1>1, <1>4, InCircle DEF Open
  <2>2. \A v \in Workers : v # w => step'[v] = step[v]
    BY <1>1
  <2>3. d \in freed' => \A v \in Workers : Inside(v, d)' => step'[v] = "end"
    BY <1>1, <1>4, <2>1, <2>2, FrameOf DEF Open
  <2>4. QED
    BY <1>1, <1>2, <1>4, <2>3 DEF Open, OthersKept
<1>5. PhaseInv'
  BY <1>1, <1>3, <1>4, FrameOf DEF MCInv, PhaseInv
<1> QED
  BY <1>2, <1>5 DEF MCInv, OthersKept

\* The accumulator adds up: the barrier is open, so every sampler of its command
\* has its final count.
LEMMA SumStep ==
    ASSUME TasksInv, MCInv, NEW w \in Workers, Sum(w)
    PROVE  MCInv'
<1>c. PICK c : c = Command(w)
  OBVIOUS
<1>1. /\ InFunction /\ At(w, "sum") /\ step' = [step EXCEPT ![w] = "destroy"]
      /\ UNCHANGED <<arrived, sampled, freed>>
      /\ hit_total' = [hit_total EXCEPT ![c] = {t \in sampled : t[1] = c}]
      /\ {"sum", "destroy"} \subseteq Past
  BY <1>c DEF Sum, Goto, InFunction, Past
<1>2. IsAccumulator(w)
  BY <1>1 DEF MCInv, PlaceInv, At
<1>3. OthersKept(w) /\ c \in Circles /\ Open(c)
  <2>1. OthersKept(w)
    BY <1>1, <1>2, PastStep
  <2>2. QED
    BY <2>1, <1>c DEF OthersKept
<1>4. {t \in sampled : t[1] = c} = Samplers(c)
  <2>1. \A t \in Samplers(c) : t \in sampled /\ t[1] = c
    BY <1>3 DEF Samplers, Open
  <2>2. ASSUME NEW t \in sampled, t[1] = c PROVE t \in Samplers(c)
    <3>1. PICK d \in Circles : t \in Samplers(d)
      BY <2>2 DEF MCInv, SampledInv
    <3>2. d = c
      BY <3>1, <2>2 DEF Samplers
    <3>3. QED
      BY <3>1, <3>2
  <2>3. QED
    BY <2>1, <2>2
<1>5. /\ hit_total'[c] = Samplers(c)
      /\ \A d \in Commands : d # c => hit_total'[d] = hit_total[d]
      /\ hit_total' = [d \in Commands |-> hit_total'[d]]
  BY <1>1, <1>3, <1>4 DEF MCInv, PhaseInv, Circles
<1>6. ASSUME NEW d \in Circles, Shut(d) PROVE Shut(d)'
  BY <1>1, <1>3, <1>5, <1>6, <1>c DEF Shut, OthersKept, Circles
<1>7. ASSUME NEW d \in Circles, Open(d) PROVE Open(d)'
  <2>1. Inside(w, d) => d \notin freed
    BY <1>1, <1>7, InCircle DEF Open
  <2>2. \A v \in Workers : v # w => step'[v] = step[v]
    BY <1>1
  <2>3. d \in freed' => \A v \in Workers : Inside(v, d)' => step'[v] = "end"
    BY <1>1, <1>7, <2>1, <2>2, FrameOf DEF Open
  <2>4. hit_total'[d] \in {NoTotal, Samplers(d)}
    BY <1>5, <1>7 DEF Open, Circles
  <2>5. QED
    BY <1>1, <1>3, <1>7, <2>3, <2>4 DEF Open, OthersKept, NoTotal
<1>8. PhaseInv'
  BY <1>1, <1>3, <1>5, <1>6, <1>7, FrameOf DEF MCInv, PhaseInv, NoTotal, Circles
<1> QED
  BY <1>3, <1>8 DEF MCInv, OthersKept

\* The accumulator frees the arguments: nobody of its command is inside the
\* barrier, and there is no other accumulator.
LEMMA DestroyStep ==
    ASSUME TasksInv, MCInv, NEW w \in Workers, Destroy(w)
    PROVE  MCInv'
<1>c. PICK c : c = Command(w)
  OBVIOUS
<1>1. /\ InFunction /\ At(w, "destroy") /\ step' = [step EXCEPT ![w] = "end"]
      /\ UNCHANGED <<arrived, sampled, hit_total>>
      /\ freed' = freed \cup {c}
      /\ \A v \in Workers : ~ (At(v, "leave") /\ Command(v) = c)
      /\ {"destroy", "end"} \subseteq Past
  BY <1>c DEF Destroy, Goto, InFunction, Past
<1>2. IsAccumulator(w)
  BY <1>1 DEF MCInv, PlaceInv, At
<1>3. OthersKept(w) /\ c \in Circles /\ Open(c)
  <2>1. OthersKept(w)
    BY <1>1, PastStep
  <2>2. QED
    BY <2>1, <1>c DEF OthersKept
<1>4. \A v \in Workers : v # w => step'[v] = step[v]
  BY <1>1
<1>5. step'[w] = "end" /\ pc[w] = "run" /\ Inside(w, c)
  BY <1>1, <1>c, InCircle DEF MCInv, PlaceInv
<1>6. ASSUME NEW v \in Workers, Inside(v, c) PROVE step'[v] = "end"
  <2>1. step[v] \in Past
    BY <1>3, <1>6, OpenMeans
  <2>2. step[v] # "leave"
    BY <1>1, <1>3, <1>6 DEF Inside, At, Command, Circles
  <2>3. ASSUME step[v] \in {"sum", "destroy"} PROVE v = w
    <3>1. IsAccumulator(v)
      BY <1>6, <2>3 DEF MCInv, PlaceInv, Inside
    <3>2. func[v] = func[w]
      BY <1>2, <1>5, <1>6, <3>1, Runner DEF IsAccumulator, Inside, Command, MCInv
    <3>3. QED
      BY <3>2, <1>5, OneRunner
  <2>4. QED
    BY <1>4, <1>5, <2>1, <2>2, <2>3 DEF Past
<1>7. ASSUME NEW d \in Circles, Shut(d) PROVE Shut(d)'
  BY <1>1, <1>3, <1>7, <1>c DEF Shut, OthersKept
<1>8. ASSUME NEW d \in Circles, Open(d) PROVE Open(d)'
  <2>1. ASSUME d \in freed' PROVE \A v \in Workers : Inside(v, d)' => step'[v] = "end"
    <3>1. CASE d = c
      BY <3>1, <1>1, <1>6, FrameOf
    <3>2. CASE d # c
      BY <3>2, <2>1, <1>1, <1>4, <1>5, <1>8, FrameOf DEF Open
    <3>3. QED
      BY <3>1, <3>2
  <2>2. QED
    BY <1>1, <1>3, <1>8, <2>1 DEF Open, OthersKept
<1>9. PhaseInv'
  BY <1>1, <1>3, <1>7, <1>8, FrameOf DEF MCInv, PhaseInv
<1> QED
  BY <1>3, <1>9 DEF MCInv, OthersKept

\* A task function returns: hello_world_test at any time, a function of a circle
\* command only behind the open barrier.
LEMMA ReturnStep ==
    ASSUME TasksInv, MCInv, NEW w \in Workers, Return(w)
    PROVE  MCInv'
<1> USE DEF MCInv
<1>1. /\ UNCHANGED <<job, arrived, sampled, hit_total, freed, submitted>>
      /\ pc[w] = "run" /\ pc' = [pc EXCEPT ![w] = "post"]
      /\ func' = [func EXCEPT ![w] = NoTask]
      /\ finished' = finished \cup {func[w]}
      /\ step' = [step EXCEPT ![w] = "begin"]
      /\ pc \in [Workers -> WorkerPCs] /\ func \in [Workers -> Tasks \cup {NoTask}]
      /\ kind[Command(w)] = "hello" \/ (kind[Command(w)] = "circle" /\ step[w] = "end")
  BY DEF Return, RunTask, Goto, At, TasksInv, TypeOK
<1>2. /\ pc'[w] = "post" /\ step'[w] = "begin"
      /\ \A v \in Workers : v # w => /\ pc'[v] = pc[v] /\ func'[v] = func[v]
                                     /\ step'[v] = step[v]
  BY <1>1 DEF PlaceInv
<1>3. Circles' = Circles /\ \A c : TasksOf(c)' = TasksOf(c) /\ Samplers(c)' = Samplers(c)
  BY <1>1 DEF Circles, TasksOf, Samplers, job
<1>4. \A v \in Workers : v # w => /\ Command(v)' = Command(v)
                                  /\ (IsAccumulator(v)' <=> IsAccumulator(v))
  BY <1>1, <1>2 DEF Command, IsAccumulator, job
<1>5. \A c : /\ ~ Inside(w, c)'
             /\ \A v \in Workers : v # w => (Inside(v, c)' <=> Inside(v, c))
  BY <1>2 DEF Inside
<1>6. JobInv'
  BY <1>1, <1>3 DEF JobInv, job
<1>7. PlaceInv'
  <2>1. step' \in [Workers -> Steps]
    BY <1>1 DEF PlaceInv, Steps
  <2>2. QED
    BY <1>1, <1>2, <1>4, <2>1 DEF PlaceInv, job
<1>8. SampledInv'
  BY <1>1, <1>2, <1>3, <1>4 DEF SampledInv
<1>9. step[w] # "barrier"
  BY <1>1 DEF PlaceInv
<1>10. \A c : Waiters(c)' = Waiters(c)
  BY <1>2, <1>5, <1>9 DEF Waiters
<1>11. BarrierInv'
  BY <1>1, <1>3, <1>10 DEF BarrierInv, job
<1>12. ASSUME NEW c \in Circles, Shut(c) PROVE Shut(c)'
  <2>1. ~ Inside(w, c)
    BY <1>1, <1>12 DEF Shut, Inside, Command, Past, Circles
  <2>2. func[w][1] # c
    BY <2>1, <1>1 DEF Inside
  <2>3. QED
    BY <1>1, <1>2, <1>5, <1>12, <2>2 DEF Shut
<1>13. ASSUME NEW c \in Circles, Open(c) PROVE Open(c)'
  <2>1. ASSUME NEW t \in TasksOf(c)
        PROVE  t \in finished'
                 \/ \E v \in Workers : pc'[v] = "run" /\ func'[v] = t /\ step'[v] \in Past
    BY <1>1, <1>2, <1>13 DEF Open
  <2>2. c \in freed => \A v \in Workers : Inside(v, c)' => step'[v] = "end"
    BY <1>2, <1>5, <1>13 DEF Open
  <2>3. QED
    BY <1>1, <1>3, <1>13, <2>1, <2>2 DEF Open
<1>14. PhaseInv'
  BY <1>1, <1>3, <1>12, <1>13 DEF PhaseInv
<1> QED
  BY <1>6, <1>7, <1>8, <1>11, <1>14

LEMMA MCStep == TasksInv /\ MCInv /\ [MCNext]_mcvars => MCInv'
<1> SUFFICES ASSUME TasksInv, MCInv, [MCNext]_mcvars PROVE MCInv'
  OBVIOUS
<1>1. ASSUME NEW w \in Workers, PoolStep(w) PROVE MCInv'
  <2>1. CASE TakeTask(w)
    BY <1>1, <2>1, TakeStep DEF PoolStep
  <2>2. CASE WorkerLock(w) \/ WorkerWait(w) \/ WorkerReturn(w) \/ PostSlot(w)
    <3>1. pc \in [Workers -> WorkerPCs]
      BY DEF TasksInv, TypeOK
    <3>2. Quiet
      BY <1>1, <2>2, <3>1
         DEF PoolStep, WorkerLock, WorkerWait, WorkerReturn, PostSlot, Quiet, history
    <3>3. QED
      BY <3>2, QuietStep
  <2>3. QED
    BY <1>1, <2>1, <2>2 DEF PoolStep
<1>2. ASSUME NEW w \in Workers, Arrive(w) PROVE MCInv'
  BY <1>2, ArriveWaits, ArriveOpens
<1>3. ASSUME NEW w \in Workers, MCWorkerStep(w) PROVE MCInv'
  BY <1>1, <1>2, <1>3, SampleStep, LeaveStep, SumStep, DestroyStep, ReturnStep DEF MCWorkerStep
<1>4. ASSUME MainStep \/ Quit \/ SpuriousWakeup \/ Terminated, UNCHANGED <<job, inside>>
      PROVE  MCInv'
  <2>1. pc \in [Workers -> WorkerPCs]
    BY DEF TasksInv, TypeOK
  <2>2. ASSUME SignalWorkReady PROVE \A w \in Workers : pc'[w] = "run" <=> pc[w] = "run"
    BY <2>1, <2>2 DEF SignalWorkReady, Sleepers
  <2>3. CASE PassSemaphore
    BY <1>4, <2>3, QuietStep DEF PassSemaphore, AcquireSlot, RejectTask, Quiet, history
  <2>4. CASE DispatchLock \/ DispatchWait \/ CleanupLock \/ JoinAndFree \/ Quit
    BY <1>4, <2>4, QuietStep DEF DispatchLock, DispatchWait, CleanupLock, JoinAndFree, Quit, Quiet, history
  <2>5. CASE Deposit
    BY <1>4, <2>2, <2>5, QuietStep DEF Deposit, Quiet, history
  <2>6. CASE Shutdown
    BY <1>4, <2>1, <2>6, QuietStep DEF Shutdown, Quiet, history
  <2>7. CASE SpuriousWakeup
    BY <1>4, <2>1, <2>7, QuietStep DEF SpuriousWakeup, Sleepers, Quiet, history
  <2>8. CASE Terminated
    BY <1>4, <2>8, QuietStep DEF Terminated, vars, Quiet
  <2>9. QED
    BY <1>4, <2>3, <2>4, <2>5, <2>6, <2>7, <2>8 DEF MainStep
<1>5. CASE UNCHANGED mcvars
  BY <1>5, QuietStep DEF mcvars, vars, Quiet
<1>6. CASE MCQuit
  BY <1>4, <1>6 DEF MCQuit
<1>7. ASSUME NEW k \in Kinds, NEW n \in WorkerCounts, StartCommand(k, n) PROVE MCInv'
  BY <1>7, KindsAssumption, TypedSize, StartStep
<1> QED
  BY <1>3, <1>4, <1>5, <1>6, <1>7, DispatchStep DEF MCNext, MCMainStep

-----------------------------------------------------------------------------
(* The stages before the last *)

\* What the stages do that the last program does not: dispatch passes no semaphore,
\* a worker posts none, and cleanup leaves the workers where they are.
StageOnly ==
    /\ NoSlotNeeded \/ ExitAtOnce \/ \E w \in Workers : LoopAgain(w)
    /\ UNCHANGED <<job, inside>>

\* All else they have in common, but for the sizes of their commands.
LEMMA StagesDo ==
    ASSUME StagesNext
    PROVE  \/ MCNext
           \/ StageOnly
           \/ \E k \in {"circle", "hello"}, tasks \in Nat :
                 (k = "circle" => tasks > 1) /\ StartSized(k, tasks)
<1> USE DEF Pool
<1>1. ASSUME NEW w \in Workers, StageWorker(w) PROVE MCNext \/ StageOnly
  <2>1. \/ MCWorkerStep(w)
        \/ LoopAgain(w) /\ UNCHANGED <<job, inside>>
    BY <1>1
       DEF StageWorker, Worker2, Worker3, Worker4, Circle3, Circle4, Accumulate3, Accumulate4,
           MCWorkerStep, PoolStep
  <2> QED
    BY <2>1 DEF MCNext, StageOnly
<1>2. CASE StageMain
  <2>1. \/ MCMainStep
        \/ (NoSlotNeeded \/ ExitAtOnce) /\ UNCHANGED <<job, inside>>
    BY <1>2
       DEF StageMain, Dispatch2, Dispatch3, Dispatch4, Cleanup2, Cleanup3, Cleanup4, MCMainStep,
           MainStep
  <2> QED
    BY <2>1 DEF MCNext, StageOnly
<1>3. CASE Type
  <2>1. \/ MCQuit
        \/ \E n \in WorkerCounts : \/ StartCommand("hello", n) \/ StartCommand("circle", n)
                                   \/ StartUnclamped(n)
    BY <1>3 DEF Type, Prompt2, Prompt3, Prompt4, Hello2, Hello3, Hello4, Monte3, Monte4
  <2>2. ASSUME NEW n \in WorkerCounts, StartUnclamped(n)
        PROVE  \E tasks \in Nat : tasks > 1 /\ StartSized("circle", tasks)
    <3>1. n + 1 \in Nat /\ n + 1 > 1
      BY WorkerCountsAssumption
    <3> QED
      BY <2>2, <3>1 DEF StartUnclamped
  <2>3. ASSUME NEW n \in WorkerCounts, NEW k \in {"circle", "hello"}, StartCommand(k, n)
        PROVE  \E tasks \in Nat : (k = "circle" => tasks > 1) /\ StartSized(k, tasks)
    BY <2>3, TypedSize
  <2> QED
    BY <2>1, <2>2, <2>3 DEF MCNext
<1> QED
  BY <1>1, <1>2, <1>3 DEF StagesNext, MCNext

LEMMA StageOnlyStep ==
    ASSUME TasksInv, MCInv, StageOnly
    PROVE  TasksInv' /\ MCInv'
<1>1. /\ UNCHANGED <<job, inside, lock, mailbox, shutdown, available_slots, func, dispatching, history,
                     spurious>>
      /\ \/ mpc = "slot" /\ mpc' = "lock" /\ UNCHANGED pc
         \/ mpc = "shut" /\ mpc' = "exit" /\ UNCHANGED pc
         \/ UNCHANGED mpc /\ \E w \in Workers : pc[w] = "post" /\ pc' = [pc EXCEPT ![w] = "lock"]
  BY DEF StageOnly, NoSlotNeeded, ExitAtOnce, LoopAgain
<1>2. TypeOK /\ HandsInv /\ TaskConservation
  BY DEF TasksInv
<1>3. \A w \in Workers : pc'[w] = "run" <=> pc[w] = "run"
  BY <1>1, <1>2 DEF TypeOK
<1>4. TypeOK'
  BY <1>1, <1>2 DEF TypeOK, WorkerPCs, MainPCs, mailbox, history, Threads
<1>5. HandsInv'
  BY <1>1, <1>2, <1>3 DEF HandsInv, mailbox
<1>6. Offered' = Offered /\ Queued' = Queued /\ Running' = Running
  BY <1>1 DEF Offered, Queued, Running, mailbox
<1>7. TaskConservation'
  BY <1>1, <1>2, <1>6 DEF TaskConservation, history
<1>8. MCInv'
  BY <1>1, <1>3, QuietStep DEF Quiet, history
<1> QED
  BY <1>4, <1>5, <1>7, <1>8 DEF TasksInv

LEMMA StagesStep == TasksInv /\ MCInv /\ [StagesNext]_stagevars => TasksInv' /\ MCInv'
<1> SUFFICES ASSUME TasksInv, MCInv, [StagesNext]_stagevars PROVE TasksInv' /\ MCInv'
  OBVIOUS
<1>1. CASE MCNext \/ UNCHANGED mcvars
  BY <1>1, PoolSimulated, TasksStep, MCStep
<1>2. CASE StageOnly
  BY <1>2, StageOnlyStep
<1>3. ASSUME NEW k \in {"circle", "hello"}, NEW tasks \in Nat, k = "circle" => tasks > 1,
             StartSized(k, tasks)
      PROVE  TasksInv' /\ MCInv'
  <2>1. UNCHANGED vars
    BY <1>3 DEF StartSized
  <2> QED
    BY <1>3, <2>1, StartStep, TasksStep
<1> QED
  BY <1>1, <1>2, <1>3, StagesDo DEF stagevars

-----------------------------------------------------------------------------
(* The theorems *)

\* The commands keep their invariant on top of that of the pool's tasks: in the
\* program whose dispatch waits and in the one whose dispatch gives up, ...
THEOREM CommandsInvariance == MCSpec => [](TasksInv /\ MCInv)
<1>1. MCSpec => []TasksInv
  BY ProgramUsesPool, TasksInvariance, PTL
<1> QED
  BY <1>1, MCInitInv, MCStep, PTL DEF MCSpec

\* ... and in the stages without a semaphore and without a shutdown flag.
THEOREM StagesInvariance == StagesSpec => [](TasksInv /\ MCInv)
<1>1. StagesInit => TasksInv /\ MCInv
  BY InitTasks, MCInitInv DEF StagesInit, Initialize2, Initialize3, Initialize4, MCInit
<1> QED
  BY <1>1, StagesStep, PTL DEF StagesSpec

\* In every stage a task is in one place at a time: the mailbox alone, without the
\* semaphore that counts free workers, loses and doubles none, nor does a pool that
\* main leaves without shutdown, nor one whose flag nobody set.
THEOREM StagesConserveTasks == StagesSpec => []TaskConservation
<1>1. TasksInv => TaskConservation
  BY DEF TasksInv
<1> QED
  BY <1>1, StagesInvariance, PTL

\* Whatever mix of commands is typed, and whichever workers their tasks meet in,
\* an accumulator that adds up finds the final count of every sampler of its
\* own command and of no other: in the last program and in all its stages, even
\* where dispatch drops tasks.
LEMMA TotalsAre == MCInv => TotalIsComplete
  BY DEF MCInv, PhaseInv, Shut, Open, TotalIsComplete

THEOREM TotalsComplete == (MCSpec \/ StagesSpec) => []TotalIsComplete
  BY TotalsAre, CommandsInvariance, StagesInvariance, PTL

LEMMA FreedIsUnused == TasksInv /\ MCInv => NoUseAfterFree
<1>1. ASSUME TasksInv, MCInv, NEW c \in freed
      PROVE  /\ \A w \in Workers : UsesArgs(w) => Command(w) # c
             /\ \A t \in Queued \cup Offered : t[1] # c
             /\ task_idx = c => CommandDone
  <2>1. c \in Circles /\ Open(c)
    BY <1>1 DEF MCInv, PhaseInv, Shut
  <2>2. \A w \in Workers : UsesArgs(w) => Command(w) # c
    BY <1>1, <2>1 DEF Open, UsesArgs, Inside, Command
  <2>3. \A t \in Queued \cup Offered : t[1] # c
    BY <1>1, <2>1, OpenMeans
  <2>4. ASSUME task_idx = c PROVE CommandDone
    <3>1. size[c] \in Nat /\ size[c] > 1 /\ next \in Nat /\ c \in Nat
      BY <1>1, <2>1, CommandsAssumption DEF MCInv, JobInv, Circles
    <3>2. <<c, size[c]>> \in TasksOf(c)
      BY <3>1 DEF TasksOf
    <3>3. <<c, size[c]>> \in submitted
      <4>1. \A w \in Workers : pc[w] = "run" => func[w] \in submitted
        BY <1>1, Runner DEF MCInv
      <4>2. finished \subseteq submitted
        BY <1>1 DEF TasksInv, TaskConservation
      <4>3. QED
        BY <2>1, <3>2, <4>1, <4>2 DEF Open
    <3>4. size[c] < next
      BY <1>1, <2>4, <3>3 DEF MCInv, JobInv
    <3>5. QED
      BY <2>4, <3>1, <3>4 DEF CommandDone
  <2>5. QED
    BY <2>2, <2>3, <2>4
<1> QED
  BY <1>1 DEF NoUseAfterFree

\* When the arguments and the barrier of a command are freed, no worker is in a
\* part of the functions that uses them and no task of the command is still to
\* come, in the last program and in all its stages.
THEOREM FreedUnused == (MCSpec \/ StagesSpec) => []NoUseAfterFree
  BY FreedIsUnused, CommandsInvariance, StagesInvariance, PTL

-----------------------------------------------------------------------------
(* No gridlock *)

\* A worker can run unless the lock it wants is taken, it sleeps, it sits at a barrier,
\* or it destroys a barrier that others are still leaving.
WorkerRuns(w) ==
    \/ pc[w] \in {"lock", "woken"} /\ lock = NoThread
    \/ pc[w] \in {"check", "post"}
    \/ /\ pc[w] = "run" /\ step[w] # "barrier"
       /\ step[w] = "destroy" => \A v \in Workers : ~ (At(v, "leave") /\ Command(v) = Command(w))

\* Main can run unless the semaphore is at 0, the lock is taken, it sleeps, or it joins
\* a worker that is still there. Between two commands it waits for the user.
MainRuns ==
    \/ mpc = "slot" /\ (available_slots > 0 \/ Admission = "try")
    \/ mpc \in {"lock", "woken", "shut"} /\ lock = NoThread
    \/ mpc \in {"deposit", "broadcast"}
    \/ mpc = "join" /\ \A w \in Workers : pc[w] = "done"
    \/ mpc = "idle" /\ ~ CommandDone /\ <<task_idx, next>> \in Tasks \ submitted

\* Every task of every command that was typed has been executed, and every circle
\* command has its result.
AllAnswered ==
    /\ mpc \in {"idle", "exit"} /\ CommandDone /\ has_work = 0
    /\ \A w \in Workers : pc[w] \in {"waiting", "done"}
    /\ \A c \in Commands : c <= task_idx => TasksOf(c) \subseteq finished
    /\ Circles \subseteq freed

\* When nobody can run, nothing is left to do.
NoGridlock == (\E w \in Workers : WorkerRuns(w)) \/ MainRuns \/ AllAnswered

\* A circle command has no more tasks than there are workers.
CommandsFit ==
    \A c \in Commands :
        kind[c] # "none" => /\ TasksOf(c) \subseteq Tasks
                            /\ kind[c] = "circle" => size[c] <= Cardinality(Workers)

\* What the loop of a command is through with has gone to dispatch, and all of it
\* before the next command.
Dispatched ==
    /\ \A c \in Commands : \A i \in 1 .. size[c] :
          c < task_idx \/ (c = task_idx /\ i < next) => <<c, i>> \in submitted
    /\ dispatching # NoTask => dispatching[1] = task_idx
    /\ mpc \in {"shut", "broadcast", "join", "exit"} => CommandDone
    /\ Admission = "wait" => dropped = {}

\* The accumulator does not return before it has freed the arguments.
AccumulatorFrees ==
    /\ \A w \in Workers : At(w, "end") /\ IsAccumulator(w) => Command(w) \in freed
    /\ \A c \in Circles : <<c, size[c]>> \in finished => c \in freed

GridInv == CommandsFit /\ Dispatched /\ NoSleeper /\ AccumulatorFrees

\* Steps that start no command, dispatch nothing and finish no task keep it.
LEMMA GridKept ==
    ASSUME GridInv, UNCHANGED <<job, submitted, finished>>,
           dispatching' \in {dispatching, NoTask},
           mpc' \in {"shut", "broadcast", "join", "exit"} => CommandDone,
           Admission = "wait" => dropped' = dropped,
           NoSleeper',
           freed \subseteq freed',
           \A w \in Workers : At(w, "end")' /\ IsAccumulator(w)' => Command(w)' \in freed'
    PROVE  GridInv'
<1> USE DEF job
<1>1. CommandsFit'
  BY DEF GridInv, CommandsFit, TasksOf
<1>2. Dispatched'
  BY DEF GridInv, Dispatched, CommandDone
<1>3. AccumulatorFrees'
  BY DEF GridInv, AccumulatorFrees, Circles
<1> QED
  BY <1>1, <1>2, <1>3 DEF GridInv

\* The steps of worker_thread.
LEMMA GridPool ==
    ASSUME TasksInv, MCInv, GridInv, NEW w \in Workers, PoolStep(w)
    PROVE  GridInv'
<1>1. /\ UNCHANGED <<job, inside, shutdown, dispatching, submitted, dropped, finished>>
      /\ mpc' = mpc \/ mpc' = "woken"
      /\ \A v \in Workers : v # w => pc'[v] = pc[v] /\ func'[v] = func[v]
      /\ pc[w] # "run"
      /\ pc'[w] = "waiting" => shutdown = 0
  BY DEF PoolStep, WorkerLock, WorkerWait, WorkerReturn, TakeTask, PostSlot, TaskReceived,
         TasksInv, TypeOK, history
<1>2. step[w] = "begin"
  BY <1>1 DEF MCInv, PlaceInv
<1>3. ASSUME NEW v \in Workers, At(v, "end")', IsAccumulator(v)' PROVE Command(v)' \in freed'
  BY <1>1, <1>2, <1>3 DEF At, IsAccumulator, Command, job, inside, GridInv, AccumulatorFrees
<1>4. NoSleeper'
  BY <1>1 DEF GridInv, NoSleeper
<1> QED
  BY <1>1, <1>3, <1>4, GridKept DEF GridInv, Dispatched, inside

\* The steps of the task functions.
LEMMA GridTask ==
    ASSUME MCInv, GridInv, NEW w \in Workers,
           Sample(w) \/ Arrive(w) \/ Leave(w) \/ Sum(w) \/ Destroy(w)
    PROVE  GridInv'
<1>0. step \in [Workers -> Steps]
  BY DEF MCInv, PlaceInv
<1>1. UNCHANGED <<vars, job>> /\ freed \subseteq freed'
  BY DEF Sample, Arrive, Leave, Sum, Destroy
<1>2. ASSUME NEW v \in Workers, At(v, "end")', IsAccumulator(v)' PROVE Command(v)' \in freed'
  <2>1. /\ Command(v)' = Command(v) /\ IsAccumulator(v)
        /\ pc[v] = "run" /\ kind[Command(v)] = "circle"
    BY <1>1, <1>2 DEF Command, IsAccumulator, At, vars, job
  <2>2. CASE step[v] = "end"
    BY <1>1, <2>1, <2>2 DEF At, GridInv, AccumulatorFrees
  <2>3. CASE step[v] # "end"
    <3>1. step'[v] = "end"
      BY <1>2 DEF At
    <3>2. v = w /\ Destroy(w)
      BY <1>0, <2>1, <2>3, <3>1 DEF Sample, Arrive, Leave, Sum, Destroy, Goto
    <3> QED
      BY <2>1, <3>2 DEF Destroy
  <2> QED
    BY <2>2, <2>3
<1>3. NoSleeper'
  BY <1>1 DEF GridInv, NoSleeper, vars
<1> QED
  BY <1>1, <1>2, <1>3, GridKept DEF GridInv, Dispatched, vars

\* A task function returns.
LEMMA GridReturn ==
    ASSUME TasksInv, MCInv, GridInv, NEW w \in Workers, Return(w)
    PROVE  GridInv'
<1>1. /\ UNCHANGED <<job, arrived, sampled, hit_total, freed, submitted, dropped, dispatching, mpc, shutdown>>
      /\ pc[w] = "run" /\ pc' = [pc EXCEPT ![w] = "post"]
      /\ func' = [func EXCEPT ![w] = NoTask]
      /\ finished' = finished \cup {func[w]}
      /\ step' = [step EXCEPT ![w] = "begin"]
      /\ At(w, "end") \/ kind[Command(w)] = "hello"
      /\ pc \in [Workers -> WorkerPCs] /\ func \in [Workers -> Tasks \cup {NoTask}]
      /\ step \in [Workers -> Steps]
  BY DEF Return, RunTask, Goto, TasksInv, TypeOK, MCInv, PlaceInv
<1>2. CommandsFit' /\ Dispatched' /\ NoSleeper'
  BY <1>1 DEF GridInv, CommandsFit, Dispatched, NoSleeper, CommandDone, TasksOf, job
<1>3. ASSUME NEW v \in Workers, At(v, "end")', IsAccumulator(v)' PROVE Command(v)' \in freed'
  <2>1. v # w
    BY <1>1, <1>3 DEF At
  <2> QED
    BY <1>1, <1>3, <2>1 DEF At, IsAccumulator, Command, job, GridInv, AccumulatorFrees
<1>4. ASSUME NEW c \in Circles', <<c, size'[c]>> \in finished' PROVE c \in freed'
  <2>1. c \in Circles /\ size' = size
    BY <1>1 DEF Circles, job
  <2>2. CASE <<c, size[c]>> \in finished
    BY <1>1, <2>1, <2>2 DEF GridInv, AccumulatorFrees
  <2>3. CASE func[w] = <<c, size[c]>>
    <3>1. Command(w) = c /\ IsAccumulator(w) /\ kind[c] = "circle"
      BY <2>1, <2>3 DEF Command, IsAccumulator, Circles
    <3> QED
      BY <1>1, <3>1 DEF GridInv, AccumulatorFrees
  <2> QED
    BY <1>1, <1>4, <2>1, <2>2, <2>3
<1> QED
  BY <1>2, <1>3, <1>4 DEF GridInv, AccumulatorFrees

\* What main does on its own, and spurious wakeups.
LEMMA GridMain ==
    ASSUME TasksInv, GridInv, MainStep \/ SpuriousWakeup \/ Terminated, UNCHANGED <<job, inside>>
    PROVE  GridInv'
<1>0. pc \in [Workers -> WorkerPCs]
  BY DEF TasksInv, TypeOK
<1>1. ASSUME UNCHANGED func, \A w \in Workers : pc'[w] = "run" <=> pc[w] = "run",
             NEW w \in Workers, At(w, "end")', IsAccumulator(w)'
      PROVE  Command(w)' \in freed'
  BY <1>1 DEF At, IsAccumulator, Command, job, inside, GridInv, AccumulatorFrees
<1>2. ASSUME SignalWorkReady
      PROVE  \A w \in Workers : /\ pc'[w] = "run" <=> pc[w] = "run"
                                /\ pc'[w] = "waiting" => pc[w] = "waiting"
  BY <1>0, <1>2 DEF SignalWorkReady, Sleepers
<1> USE DEF GridInv, Dispatched, NoSleeper, history, inside
<1>3. CASE AcquireSlot \/ RejectTask
  BY <1>1, <1>3, GridKept DEF AcquireSlot, RejectTask
<1>4. CASE DispatchLock \/ DispatchWait \/ CleanupLock \/ JoinAndFree
  BY <1>1, <1>4, GridKept DEF DispatchLock, DispatchWait, CleanupLock, JoinAndFree
<1>5. CASE Deposit
  BY <1>1, <1>2, <1>5, GridKept DEF Deposit
<1>6. CASE Shutdown
  BY <1>0, <1>1, <1>6, GridKept DEF Shutdown
<1>7. CASE SpuriousWakeup
  BY <1>0, <1>1, <1>7, GridKept DEF SpuriousWakeup, Sleepers
<1>8. CASE Terminated
  BY <1>1, <1>8, GridKept DEF Terminated, vars
<1> QED
  BY <1>3, <1>4, <1>5, <1>6, <1>7, <1>8 DEF MainStep, PassSemaphore

\* The loop of the command calls dispatch.
LEMMA GridDispatch ==
    ASSUME TasksInv, MCInv, GridInv, DispatchNext
    PROVE  GridInv'
<1>1. /\ submitted' = submitted \cup {<<task_idx, next>>} /\ dispatching' = <<task_idx, next>>
      /\ mpc' = "slot" /\ next' = next + 1 /\ next \in Nat
      /\ UNCHANGED <<task_idx, kind, size, inside, pc, func, dropped, finished, shutdown>>
  BY DEF DispatchNext, Submit, MCInv, JobInv
<1>2. CommandsFit' /\ NoSleeper'
  BY <1>1 DEF GridInv, CommandsFit, NoSleeper, TasksOf
<1>3. Dispatched'
  <2>1. ASSUME NEW c \in Commands, NEW i \in 1 .. size[c],
               c < task_idx \/ (c = task_idx /\ i < next + 1)
        PROVE  <<c, i>> \in submitted'
    <3>1. c < task_idx \/ (c = task_idx /\ (i < next \/ i = next))
      BY <1>1, <2>1, CommandsAssumption DEF MCInv, JobInv
    <3> QED
      BY <1>1, <3>1 DEF GridInv, Dispatched
  <2> QED
    BY <1>1, <2>1 DEF GridInv, Dispatched
<1>4. AccumulatorFrees'
  BY <1>1 DEF GridInv, AccumulatorFrees, At, IsAccumulator, Command, Circles, inside
<1> QED
  BY <1>2, <1>3, <1>4 DEF GridInv

\* A command is typed. It finds the one before it dispatched to the end.
LEMMA GridStart ==
    ASSUME TasksInv, MCInv, GridInv, NEW k \in {"circle", "hello"}, NEW n \in WorkerCounts,
           StartCommand(k, n), Cardinality(Workers) >= 2
    PROVE  GridInv'
<1> DEFINE c == task_idx + 1
<1>0. PICK tasks : tasks = IF k = "circle" THEN SamplerCount(n) + 1 ELSE n
  OBVIOUS
<1>1. /\ mpc = "idle" /\ CommandDone /\ c \in Commands
      /\ task_idx' = c /\ next' = 1
      /\ kind' = [kind EXCEPT ![c] = k] /\ size' = [size EXCEPT ![c] = tasks]
      /\ UNCHANGED <<vars, inside>>
  BY <1>0 DEF StartCommand, StartSized
<1>2. /\ task_idx \in Nat /\ Commands \subseteq Nat \ {0} /\ next \in Nat \ {0}
      /\ kind \in [Commands -> {"none", "circle", "hello"}] /\ size \in [Commands -> Nat]
  BY CommandsAssumption DEF MCInv, JobInv
<1>3. /\ tasks \in 1 .. n + 1 /\ n \in Nat \ {0}
      /\ k = "circle" => tasks <= Cardinality(Workers)
  <2>1. n \in Nat \ {0} /\ Cardinality(Workers) \in Nat
    BY WorkersAssumption, FS_CardinalityType, WorkerCountsAssumption
  <2>2. /\ SamplerCount(n) \in 1 .. n
        /\ SamplerCount(n) + 1 <= Cardinality(Workers)
    BY <2>1 DEF SamplerCount
  <2> QED
    BY <1>0, <2>1, <2>2
<1>4. CommandsFit'
  <2>1. ASSUME NEW i \in 1 .. tasks PROVE <<c, i>> \in Tasks
    <3>1. {c} \X (1 .. n + 1) \subseteq Tasks /\ i \in 1 .. n + 1
      BY <1>1, <1>3, TaskPairsAssumption
    <3> QED
      BY <3>1
  <2> QED
    BY <1>1, <1>2, <1>3, <2>1 DEF GridInv, CommandsFit, TasksOf
<1>5. Dispatched'
  <2>1. ASSUME NEW d \in Commands, NEW i \in 1 .. size'[d], d < c PROVE <<d, i>> \in submitted
    <3>1. d <= task_idx /\ i \in 1 .. size[d]
      BY <1>1, <1>2, <2>1
    <3>2. d < task_idx \/ (d = task_idx /\ i < next)
      BY <1>1, <1>2, <3>1 DEF CommandDone
    <3> QED
      BY <3>1, <3>2 DEF GridInv, Dispatched
  <2>2. dispatching' = NoTask /\ mpc' = "idle" /\ UNCHANGED <<submitted, dropped>>
    BY <1>1 DEF vars, TasksInv, HandsInv
  <2> QED
    BY <1>1, <1>2, <2>1, <2>2 DEF GridInv, Dispatched
<1>6. AccumulatorFrees'
  <2>1. ASSUME NEW w \in Workers, pc[w] = "run"
        PROVE  Command(w) \in Commands /\ Command(w) # c
    BY <1>1, <1>2, <2>1, Runner DEF MCInv
  <2>2. ASSUME NEW w \in Workers, At(w, "end")', IsAccumulator(w)' PROVE Command(w)' \in freed'
    BY <1>1, <1>2, <2>1, <2>2
       DEF At, IsAccumulator, Command, GridInv, AccumulatorFrees, vars, inside
  <2>3. ASSUME NEW d \in Circles', <<d, size'[d]>> \in finished' PROVE d \in freed'
    <3>1. <<d, size'[d]>> \in submitted /\ d \in Commands
      BY <1>1, <2>3 DEF TasksInv, TaskConservation, vars, Circles
    <3>2. d <= task_idx
      BY <3>1 DEF MCInv, JobInv
    <3>3. d # c /\ d \in Circles /\ size'[d] = size[d]
      BY <1>1, <1>2, <2>3, <3>1, <3>2 DEF Circles
    <3> QED
      BY <1>1, <2>3, <3>3 DEF GridInv, AccumulatorFrees, vars, inside
  <2> QED
    BY <2>2, <2>3 DEF AccumulatorFrees
<1>7. NoSleeper'
  BY <1>1 DEF GridInv, NoSleeper, vars
<1> QED
  BY <1>4, <1>5, <1>6, <1>7 DEF GridInv

LEMMA GridStep ==
    ASSUME TasksInv, MCInv, GridInv, [MCNext]_mcvars, Cardinality(Workers) >= 2
    PROVE  GridInv'
<1>1. CASE MCQuit
  <2>1. /\ CommandDone /\ mpc' = "shut" /\ UNCHANGED <<job, inside, pc, func, shutdown, dispatching, history>>
    BY <1>1 DEF MCQuit, Quit
  <2>2. \A w \in Workers : At(w, "end")' /\ IsAccumulator(w)' => Command(w)' \in freed'
    BY <2>1 DEF At, IsAccumulator, Command, job, inside, GridInv, AccumulatorFrees
  <2> QED
    BY <2>1, <2>2, GridKept DEF GridInv, NoSleeper, history, inside
<1>2. CASE UNCHANGED mcvars
  <2>1. \A w \in Workers : At(w, "end")' /\ IsAccumulator(w)' => Command(w)' \in freed'
    BY <1>2 DEF At, IsAccumulator, Command, mcvars, vars, job, inside, GridInv, AccumulatorFrees
  <2> QED
    BY <1>2, <2>1, GridKept DEF GridInv, Dispatched, NoSleeper, mcvars, vars, inside
<1>3. ASSUME NEW w \in Workers, MCWorkerStep(w) PROVE GridInv'
  BY <1>3, GridPool, GridTask, GridReturn DEF MCWorkerStep
<1>4. CASE MCMainStep
  BY <1>4, GridMain, GridDispatch DEF MCMainStep
<1>5. ASSUME NEW k \in Kinds, NEW n \in WorkerCounts, StartCommand(k, n) PROVE GridInv'
  BY <1>5, GridStart, KindsAssumption
<1>6. CASE (SpuriousWakeup \/ Terminated) /\ UNCHANGED <<job, inside>>
  BY <1>6, GridMain
<1> QED
  BY <1>1, <1>2, <1>3, <1>4, <1>5, <1>6 DEF MCNext

\* Who waits at a barrier that has not opened, waits for a task of the last command
\* that is still to be dispatched, or that dispatch has in hand.
LEMMA BarrierWaitsForMain ==
    ASSUME TasksInv, MCInv, GridInv, Admission = "wait", has_work = 0,
           \A v \in Workers : pc[v] = "run" => step[v] = "barrier",
           NEW w \in Workers, pc[w] = "run"
    PROVE  /\ Command(w) = task_idx
           /\ Command(w) \in Circles
           /\ ~ CommandDone \/ dispatching # NoTask
<1> DEFINE c == Command(w)
<1>1. c \in Circles /\ c \in Commands /\ c <= task_idx /\ Inside(w, c)
  <2>1. step[w] = "barrier"
    OBVIOUS
  <2>2. kind[c] = "circle"
    BY <2>1 DEF MCInv, PlaceInv
  <2> QED
    BY <2>2, Runner DEF MCInv, Circles, Inside, Command
<1>2. Shut(c)
  <2>1. ~ Open(c)
    BY <1>1, OpenMeans DEF Past
  <2> QED
    BY <1>1, <2>1 DEF MCInv, PhaseInv
<1>3. PICK t \in TasksOf(c) : \A v \in Waiters(c) : func[v] # t
  <2> SUFFICES ASSUME \A t \in TasksOf(c) : \E v \in Waiters(c) : func[v] = t PROVE FALSE
    OBVIOUS
  <2> DEFINE f == [v \in Waiters(c) |-> func[v]]
  <2>1. ASSUME NEW v \in Waiters(c) PROVE func[v] \in TasksOf(c)
    <3>1. v \in Workers /\ pc[v] = "run" /\ Command(v) = c
      BY DEF Waiters, Inside, Command
    <3> QED
      BY <3>1, Runner DEF MCInv, TasksOf
  <2>2. f \in Surjection(Waiters(c), TasksOf(c))
    BY <2>1 DEF Surjection
  <2>3. Cardinality(TasksOf(c)) <= Cardinality(Waiters(c))
    BY <2>2, WaitersFinite, FS_Surjection
  <2>4. size[c] <= arrived[c] /\ arrived[c] < size[c]
    BY <1>1, <2>3, TasksCount DEF MCInv, BarrierInv
  <2> QED
    BY <1>1, <2>4 DEF MCInv, BarrierInv, JobInv
<1>4. t[1] = c /\ t \notin finished
  BY <1>2 DEF TasksOf, Shut
<1>5. t \notin Running
  <2> SUFFICES ASSUME NEW v \in Workers, func[v] = t, t # NoTask PROVE FALSE
    BY DEF Running
  <2>1. pc[v] = "run"
    BY DEF TasksInv, HandsInv
  <2>2. v \in Waiters(c)
    BY <1>4, <2>1 DEF Waiters, Inside
  <2> QED
    BY <1>3, <2>2
<1>6. t \in submitted => dispatching = t /\ dispatching # NoTask
  BY <1>4, <1>5 DEF GridInv, Dispatched, TasksInv, TaskConservation, Queued, Offered
<1>7. PICK i \in 1 .. size[c] : t = <<c, i>>
  BY DEF TasksOf
<1>8. /\ task_idx \in Nat /\ c \in Nat /\ task_idx # 0 /\ next \in Nat
      /\ i \in Nat /\ size[c] \in Nat /\ i <= size[c]
  <2> HIDE DEF c
  <2>1. size[c] \in Nat /\ c \in Nat \ {0} /\ task_idx \in Nat /\ next \in Nat
    BY <1>1, CommandsAssumption DEF MCInv, JobInv
  <2> QED
    BY <1>1, <2>1
<1>9. CASE t \in submitted
  BY <1>1, <1>4, <1>6, <1>9 DEF GridInv, Dispatched
<1>10. CASE t \notin submitted
  <2>1. c = task_idx /\ ~ (i < next)
    BY <1>1, <1>7, <1>8, <1>10 DEF GridInv, Dispatched
  <2> QED
    BY <1>1, <1>8, <2>1 DEF CommandDone
<1> QED
  BY <1>9, <1>10

\* Nobody runs, so nobody has the lock, nothing is in the mailbox, and every worker
\* sleeps, has returned, or sits at a barrier.
LEMMA AllBlocked ==
    ASSUME IInv, MCInv, ~ MainRuns, \A w \in Workers : ~ WorkerRuns(w)
    PROVE  /\ lock = NoThread
           /\ has_work = 0
           /\ mpc \in {"idle", "slot", "join", "exit"}
           /\ \A w \in Workers : \/ pc[w] \in {"waiting", "done"}
                                 \/ pc[w] = "run" /\ step[w] = "barrier"
<1>1. lock = NoThread
  <2>1. lock \notin Workers /\ lock # Main
    BY DEF IInv, LockInv, WorkerRuns, MainRuns
  <2> QED
    BY <2>1 DEF IInv, TasksInv, TypeOK, Threads
<1>2. \A w \in Workers : pc[w] \notin {"lock", "woken", "check", "post"}
  BY <1>1 DEF WorkerRuns
<1>3. has_work = 0
  BY <1>2 DEF IInv, NoLostWakeup, Looking, TasksInv, TypeOK
<1>4. mpc \in {"idle", "slot", "join", "exit"}
  BY <1>1, <1>3 DEF MainRuns, IInv, DispatcherWakeable, TasksInv, TypeOK, MainPCs
<1>5. ASSUME NEW w \in Workers, pc[w] = "run" PROVE step[w] = "barrier"
  <2>1. ASSUME step[w] = "destroy", NEW v \in Workers, At(v, "leave") PROVE FALSE
    BY <2>1 DEF WorkerRuns, At
  <2> QED
    BY <1>5, <2>1 DEF WorkerRuns
<1> QED
  BY <1>1, <1>2, <1>3, <1>4, <1>5 DEF IInv, TasksInv, TypeOK, WorkerPCs

\* Samplers that sit at the barrier of their command keep their workers occupied until
\* the accumulator comes. In a pool of two workers or more it always does, whatever
\* commands are typed and however they overlap: a command has no more tasks than
\* there are workers (sop-pool5.c:195-200), it is dispatched to the end before the
\* next one begins, and a worker that is free has its token in the semaphore. So
\* when no thread can run, every command has been answered; and once the user quits,
\* the program gets to its end. (Of a pool with one worker this is false.)
THEOREM GridlockFree ==
    ASSUME InitialShutdown = {0}, Admission = "wait", Cardinality(Workers) >= 2
    PROVE  MCSpec => []NoGridlock
<1>1. ASSUME IInv, MCInv, GridInv PROVE NoGridlock
  <2> SUFFICES ASSUME ~ MainRuns, \A w \in Workers : ~ WorkerRuns(w) PROVE AllAnswered
    BY DEF NoGridlock
  <2>0. TasksInv /\ TypeOK /\ HandsInv /\ TaskConservation
    BY <1>1 DEF IInv, TasksInv
  <2>1. /\ has_work = 0 /\ mpc \in {"idle", "slot", "join", "exit"}
        /\ \A w \in Workers : \/ pc[w] \in {"waiting", "done"}
                              \/ pc[w] = "run" /\ step[w] = "barrier"
    BY <1>1, AllBlocked
  <2>2. mpc = "slot" => available_slots = 0
    BY <2>0 DEF MainRuns, TypeOK
  <2>3. ASSUME mpc = "idle" PROVE CommandDone
    <3> SUFFICES ASSUME ~ CommandDone PROVE FALSE
      OBVIOUS
    <3>1. /\ task_idx \in Commands /\ next \in 1 .. size[task_idx]
          /\ kind[task_idx] # "none"
      BY <1>1, CommandsAssumption DEF CommandDone, MCInv, JobInv
    <3>2. <<task_idx, next>> \in Tasks
      BY <1>1, <3>1 DEF GridInv, CommandsFit, TasksOf
    <3>3. <<task_idx, next>> \notin submitted
      BY <1>1, <3>1 DEF MCInv, JobInv
    <3> QED
      BY <2>3, <3>2, <3>3 DEF MainRuns
  <2>4. ASSUME NEW w \in Workers, pc[w] = "run" PROVE FALSE
    <3>1. /\ Command(w) = task_idx /\ task_idx \in Circles
          /\ ~ CommandDone \/ dispatching # NoTask
      BY <1>1, <2>0, <2>1, <2>4, BarrierWaitsForMain
    <3>2. mpc = "slot" /\ available_slots = 0
      BY <1>1, <2>0, <2>1, <2>2, <2>3, <3>1 DEF HandsInv, GridInv, Dispatched
    <3>3. IsFiniteSet(Workers) /\ Cardinality(Workers) \in Nat
      BY WorkersAssumption, FS_CardinalityType
    <3>4. Cardinality(Busy) = Cardinality(Workers)
      <4>1. Busy \in SUBSET Workers
        BY DEF Busy
      <4>2. Cardinality(Busy) \in Nat
        BY <3>3, <4>1, FS_Subset, FS_CardinalityType
      <4> QED
        BY <1>1, <2>1, <3>2, <4>2 DEF IInv, SlotAccounting, DispatchToken
    <3>5. Busy = Workers
      BY <3>3, <3>4, FS_Subset DEF Busy
    <3>6. Waiters(task_idx) = Workers
      <4>1. ASSUME NEW v \in Workers PROVE v \in Waiters(task_idx)
        <5>1. pc[v] = "run" /\ step[v] = "barrier"
          BY <2>1, <3>5 DEF Busy
        <5>2. Command(v) = task_idx
          BY <1>1, <2>0, <2>1, <5>1, BarrierWaitsForMain
        <5> QED
          BY <5>1, <5>2 DEF Waiters, Inside, Command
      <4> QED
        BY <4>1 DEF Waiters
    <3>7. task_idx \in Commands /\ kind[task_idx] = "circle"
      BY <3>1 DEF Circles
    <3>8. Cardinality(Workers) < size[task_idx] /\ size[task_idx] <= Cardinality(Workers)
      BY <1>1, <3>1, <3>6, <3>7 DEF MCInv, BarrierInv, GridInv, CommandsFit
    <3> QED
      BY <1>1, <3>3, <3>7, <3>8 DEF MCInv, JobInv
  <2>5. \A w \in Workers : pc[w] \in {"waiting", "done"} /\ func[w] = NoTask
    BY <2>0, <2>1, <2>4 DEF HandsInv
  <2>6. mpc # "slot"
    <3>1. Busy = {}
      BY <2>5 DEF Busy
    <3>2. Cardinality(Busy) = 0
      BY <3>1, FS_EmptySet
    <3> QED
      BY <1>1, <2>1, <2>2, <3>2 DEF IInv, SlotAccounting, DispatchToken
  <2>7. mpc # "join"
    BY <1>1, <2>5 DEF MainRuns, GridInv, NoSleeper, IInv, FlagInv
  <2>8. mpc \in {"idle", "exit"} /\ CommandDone
    BY <1>1, <2>1, <2>3, <2>6, <2>7 DEF GridInv, Dispatched
  <2>9. submitted = finished
    <3>1. Offered = {} /\ Queued = {} /\ Running = {} /\ dropped = {}
      BY <1>1, <2>0, <2>1, <2>5, <2>8
         DEF Offered, Queued, Running, HandsInv, GridInv, Dispatched
    <3> QED
      BY <2>0, <3>1 DEF TaskConservation
  <2>10. ASSUME NEW c \in Commands, c <= task_idx PROVE TasksOf(c) \subseteq finished
    <3> SUFFICES ASSUME NEW i \in 1 .. size[c] PROVE <<c, i>> \in submitted
      BY <2>9 DEF TasksOf
    <3>1. /\ c \in Nat \ {0} /\ task_idx \in Nat /\ next \in Nat /\ size[c] \in Nat
          /\ i \in Nat /\ i <= size[c]
      BY <1>1, CommandsAssumption DEF MCInv, JobInv
    <3>2. c < task_idx \/ (c = task_idx /\ i < next)
      BY <2>8, <2>10, <3>1 DEF CommandDone
    <3> QED
      BY <1>1, <3>2 DEF GridInv, Dispatched
  <2>11. ASSUME NEW c \in Circles PROVE c \in freed
    <3>1. c \in Commands /\ c <= task_idx /\ size[c] > 1 /\ size[c] \in Nat
      BY <1>1, CommandsAssumption DEF Circles, MCInv, JobInv
    <3>2. <<c, size[c]>> \in finished
      BY <2>10, <3>1 DEF TasksOf
    <3> QED
      BY <1>1, <3>2 DEF GridInv, AccumulatorFrees
  <2> QED
    BY <2>1, <2>5, <2>8, <2>10, <2>11 DEF AllAnswered
<1>2. MCInit => GridInv
  BY CommandsAssumption
     DEF MCInit, Init, GridInv, CommandsFit, Dispatched, NoSleeper, AccumulatorFrees, Circles,
         At, CommandDone
<1>3. MCSpec => []IInv
  BY ProgramUsesPool, Invariance, PTL
<1>4. TasksInv /\ MCInv /\ GridInv /\ [MCNext]_mcvars => GridInv'
  BY GridStep
<1> QED
  BY <1>1, <1>2, <1>3, <1>4, CommandsInvariance, PTL DEF MCSpec
=============================================================================
