----------------------------- MODULE ThreadPool -----------------------------
(***************************************************************************)
(* The thread pool of Lab4/Task3: one mailbox (work_function, work_args,   *)
(* has_work) protected by pool->lock, the condition variables              *)
(* cond_work_ready (workers sleep on it) and cond_task_received (the       *)
(* dispatcher sleeps on it), and the semaphore available_slots that counts *)
(* the workers that are free.                                              *)
(*                                                                         *)
(* Admission = "wait" is sop-pool5.c, whose dispatch blocks in sem_wait;   *)
(* Admission = "try" is sop-pool4.c, whose dispatch gives up when          *)
(* sem_trywait fails. sop-pool4.c never assigns pool->shutdown before it   *)
(* starts the workers, so the flag has whatever value malloc returned:     *)
(* InitialShutdown is the set of values it may start with.                 *)
(*                                                                         *)
(* One action is one run of a thread between two points where it can be    *)
(* interrupted with an effect on the others: a lock, a blocking call, or   *)
(* the end of a critical section. The unlock belongs to the action that    *)
(* ends the section.                                                       *)
(***************************************************************************)
EXTENDS Integers, FiniteSets

CONSTANTS
    Workers,          \* the threads started by initialize
    Main,             \* the thread that runs main: CLI, dispatch, cleanup
    Tasks,            \* the (work_function, args) pairs main may dispatch
    NoTask,
    NoThread,
    Admission,        \* "wait" (sop-pool5.c) or "try" (sop-pool4.c)
    InitialShutdown,  \* the values pool->shutdown may have at the start
    MaxSpurious       \* how many spurious wakeups a behaviour may contain

ASSUME WorkersAssumption == IsFiniteSet(Workers) /\ Workers # {}
ASSUME ThreadsAssumption == Main \notin Workers /\ NoThread \notin Workers \cup {Main}
ASSUME TasksAssumption == NoTask \notin Tasks
ASSUME AdmissionAssumption == Admission \in {"wait", "try"}
ASSUME ShutdownAssumption == InitialShutdown \subseteq {0, 1}
ASSUME SpuriousAssumption == MaxSpurious \in Nat

VARIABLES
    lock,             \* the owner of pool->lock, or NoThread
    has_work,         \* pool->has_work
    work,             \* pool->work_function and pool->work_args
    shutdown,         \* pool->shutdown
    available_slots,  \* the value of the semaphore
    pc,               \* where each worker is
    func,             \* the worker's locals func and arg, while they matter
    mpc,              \* where the main thread is
    dispatching,      \* the task main is passing to dispatch
    submitted,        \* history: the tasks dispatch was called with
    dropped,          \* history: the tasks dispatch returned without taking
    finished,         \* history: the tasks whose function has returned
    spurious          \* history: the number of spurious wakeups so far

mailbox == <<has_work, work>>
history == <<submitted, dropped, finished>>
vars == <<lock, has_work, work, shutdown, available_slots, pc, func, mpc,
          dispatching, submitted, dropped, finished, spurious>>

Threads == Workers \cup {Main}

WorkerPCs == {"lock", "check", "waiting", "woken", "run", "post", "done"}
MainPCs == {"idle", "slot", "lock", "deposit", "waiting", "woken",
            "shut", "broadcast", "join", "exit"}

TypeOK ==
    /\ lock \in Threads \cup {NoThread}
    /\ has_work \in {0, 1}
    /\ work \in Tasks \cup {NoTask}
    /\ shutdown \in {0, 1}
    /\ available_slots \in Nat
    /\ pc \in [Workers -> WorkerPCs]
    /\ func \in [Workers -> Tasks \cup {NoTask}]
    /\ mpc \in MainPCs
    /\ dispatching \in Tasks \cup {NoTask}
    /\ submitted \in SUBSET Tasks
    /\ dropped \in SUBSET Tasks
    /\ finished \in SUBSET Tasks
    /\ spurious \in 0 .. MaxSpurious

\* initialize(N): every field set, the semaphore at N, N workers started.
Init ==
    /\ lock = NoThread
    /\ has_work = 0
    /\ work = NoTask
    /\ shutdown \in InitialShutdown
    /\ available_slots = Cardinality(Workers)
    /\ pc = [w \in Workers |-> "lock"]
    /\ func = [w \in Workers |-> NoTask]
    /\ mpc = "idle"
    /\ dispatching = NoTask
    /\ submitted = {}
    /\ dropped = {}
    /\ finished = {}
    /\ spurious = 0

-----------------------------------------------------------------------------
(* worker_thread *)

\* pthread_mutex_lock, on entry to the loop or on the way out of a wait.
WorkerLock(w) ==
    /\ pc[w] \in {"lock", "woken"}
    /\ lock = NoThread
    /\ lock' = w
    /\ pc' = [pc EXCEPT ![w] = "check"]
    /\ UNCHANGED <<mailbox, shutdown, available_slots, func, mpc, dispatching,
                   history, spurious>>

\* Nothing to do and no shutdown: pthread_cond_wait gives up the lock.
WorkerWait(w) ==
    /\ pc[w] = "check"
    /\ has_work = 0
    /\ shutdown = 0
    /\ lock' = NoThread
    /\ pc' = [pc EXCEPT ![w] = "waiting"]
    /\ UNCHANGED <<mailbox, shutdown, available_slots, func, mpc, dispatching,
                   history, spurious>>

\* Mutant: the worker returns at shutdown without a look at the mailbox.
WorkerReturnEager(w) ==
    /\ pc[w] = "check"
    /\ shutdown = 1
    /\ lock' = NoThread
    /\ pc' = [pc EXCEPT ![w] = "done"]
    /\ UNCHANGED <<mailbox, shutdown, available_slots, func, mpc, dispatching,
                   history, spurious>>

\* Shutdown and an empty mailbox: the worker returns.
WorkerReturn(w) ==
    /\ pc[w] = "check"
    /\ has_work = 0
    /\ shutdown = 1
    /\ lock' = NoThread
    /\ pc' = [pc EXCEPT ![w] = "done"]
    /\ UNCHANGED <<mailbox, shutdown, available_slots, func, mpc, dispatching,
                   history, spurious>>

\* Mutant: the broadcast is missing.
TaskReceivedSilent == mpc' = mpc

\* The broadcast of cond_task_received wakes main if it sleeps there.
TaskReceived == mpc' = IF mpc = "waiting" THEN "woken" ELSE mpc

\* The worker copies the mailbox, clears has_work, broadcasts and unlocks.
TakeTask(w) ==
    /\ pc[w] = "check"
    /\ has_work = 1
    /\ func' = [func EXCEPT ![w] = work]
    /\ has_work' = 0
    /\ TaskReceived
    /\ lock' = NoThread
    /\ pc' = [pc EXCEPT ![w] = "run"]
    /\ UNCHANGED <<work, shutdown, available_slots, dispatching, history, spurious>>

\* func(arg) returns. It runs outside the lock.
RunTask(w) ==
    /\ pc[w] = "run"
    /\ finished' = finished \cup {func[w]}
    /\ func' = [func EXCEPT ![w] = NoTask]
    /\ pc' = [pc EXCEPT ![w] = "post"]
    /\ UNCHANGED <<lock, mailbox, shutdown, available_slots, mpc, dispatching,
                   submitted, dropped, spurious>>

\* Mutant: the worker goes back to the mailbox without sem_post.
PostSlotMissing(w) ==
    /\ pc[w] = "post"
    /\ pc' = [pc EXCEPT ![w] = "lock"]
    /\ UNCHANGED <<lock, mailbox, shutdown, available_slots, func, mpc, dispatching,
                   history, spurious>>

\* sem_post(&pool->available_slots)
PostSlot(w) ==
    /\ pc[w] = "post"
    /\ available_slots' = available_slots + 1
    /\ pc' = [pc EXCEPT ![w] = "lock"]
    /\ UNCHANGED <<lock, mailbox, shutdown, func, mpc, dispatching, history, spurious>>

WorkerStep(w) ==
    \/ WorkerLock(w)
    \/ WorkerWait(w)
    \/ WorkerReturn(w)
    \/ TakeTask(w)
    \/ RunTask(w)
    \/ PostSlot(w)

-----------------------------------------------------------------------------
(* dispatch and its callers, run by main *)

\* A command of the CLI calls dispatch with a task of its own.
Submit(t) ==
    /\ mpc = "idle"
    /\ t \in Tasks \ submitted
    /\ submitted' = submitted \cup {t}
    /\ dispatching' = t
    /\ mpc' = "slot"
    /\ UNCHANGED <<lock, mailbox, shutdown, available_slots, pc, func, dropped,
                   finished, spurious>>

\* sem_wait, or a sem_trywait that succeeds.
AcquireSlot ==
    /\ mpc = "slot"
    /\ available_slots > 0
    /\ available_slots' = available_slots - 1
    /\ mpc' = "lock"
    /\ UNCHANGED <<lock, mailbox, shutdown, pc, func, dispatching, history, spurious>>

\* sem_trywait fails: dispatch returns and the task is forgotten.
RejectTask ==
    /\ Admission = "try"
    /\ mpc = "slot"
    /\ available_slots = 0
    /\ dropped' = dropped \cup {dispatching}
    /\ dispatching' = NoTask
    /\ mpc' = "idle"
    /\ UNCHANGED <<lock, mailbox, shutdown, available_slots, pc, func, submitted,
                   finished, spurious>>

\* The semaphore decides which of the two it is.
PassSemaphore == IF available_slots > 0 THEN AcquireSlot ELSE RejectTask

DispatchLock ==
    /\ mpc \in {"lock", "woken"}
    /\ lock = NoThread
    /\ lock' = Main
    /\ mpc' = "deposit"
    /\ UNCHANGED <<mailbox, shutdown, available_slots, pc, func, dispatching,
                   history, spurious>>

\* The mailbox still holds an earlier task: wait for cond_task_received.
DispatchWait ==
    /\ mpc = "deposit"
    /\ has_work = 1
    /\ lock' = NoThread
    /\ mpc' = "waiting"
    /\ UNCHANGED <<mailbox, shutdown, available_slots, pc, func, dispatching,
                   history, spurious>>

Sleepers == {w \in Workers : pc[w] = "waiting"}

\* Mutant: the signal is missing.
SignalNobody == pc' = pc

\* pthread_cond_signal(&pool->cond_work_ready) wakes one sleeper, if any.
SignalWorkReady ==
    IF Sleepers = {}
    THEN pc' = pc
    ELSE \E w \in Sleepers : pc' = [pc EXCEPT ![w] = "woken"]

\* Mutant: dispatch does not check has_work under the lock.
DepositOverwrites ==
    /\ mpc = "deposit"
    /\ work' = dispatching
    /\ has_work' = 1
    /\ SignalWorkReady
    /\ lock' = NoThread
    /\ dispatching' = NoTask
    /\ mpc' = "idle"
    /\ UNCHANGED <<shutdown, available_slots, func, history, spurious>>

\* Fill the mailbox, signal, unlock, return to the CLI.
Deposit ==
    /\ mpc = "deposit"
    /\ has_work = 0
    /\ work' = dispatching
    /\ has_work' = 1
    /\ SignalWorkReady
    /\ lock' = NoThread
    /\ dispatching' = NoTask
    /\ mpc' = "idle"
    /\ UNCHANGED <<shutdown, available_slots, func, history, spurious>>

-----------------------------------------------------------------------------
(* cleanup, run by main *)

\* Command 3 of the CLI leaves the loop and calls cleanup.
Quit ==
    /\ mpc = "idle"
    /\ mpc' = "shut"
    /\ UNCHANGED <<lock, mailbox, shutdown, available_slots, pc, func,
                   dispatching, history, spurious>>

CleanupLock ==
    /\ mpc = "shut"
    /\ lock = NoThread
    /\ lock' = Main
    /\ mpc' = "broadcast"
    /\ UNCHANGED <<mailbox, shutdown, available_slots, pc, func, dispatching,
                   history, spurious>>

\* Mutant: cleanup signals one worker where it should wake them all.
ShutdownSignal ==
    /\ mpc = "broadcast"
    /\ shutdown' = 1
    /\ SignalWorkReady
    /\ lock' = NoThread
    /\ mpc' = "join"
    /\ UNCHANGED <<mailbox, available_slots, func, dispatching, history, spurious>>

\* Set the flag and broadcast cond_work_ready: every sleeper wakes.
Shutdown ==
    /\ mpc = "broadcast"
    /\ shutdown' = 1
    /\ pc' = [w \in Workers |-> IF pc[w] = "waiting" THEN "woken" ELSE pc[w]]
    /\ lock' = NoThread
    /\ mpc' = "join"
    /\ UNCHANGED <<mailbox, available_slots, func, dispatching, history, spurious>>

\* The join loop is over: destroy the primitives, free the pool, exit.
JoinAndFree ==
    /\ mpc = "join"
    /\ \A w \in Workers : pc[w] = "done"
    /\ mpc' = "exit"
    /\ UNCHANGED <<lock, mailbox, shutdown, available_slots, pc, func,
                   dispatching, history, spurious>>

-----------------------------------------------------------------------------
\* POSIX lets pthread_cond_wait return without a signal.
SpuriousWakeup ==
    /\ spurious < MaxSpurious
    /\ spurious' = spurious + 1
    /\ \/ /\ \E w \in Sleepers : pc' = [pc EXCEPT ![w] = "woken"]
          /\ mpc' = mpc
       \/ /\ mpc = "waiting"
          /\ mpc' = "woken"
          /\ pc' = pc
    /\ UNCHANGED <<lock, mailbox, shutdown, available_slots, func, dispatching, history>>

\* The process has exited.
Terminated == mpc = "exit" /\ UNCHANGED vars

\* The steps main takes on its own, without a command from the user.
MainStep ==
    \/ PassSemaphore
    \/ DispatchLock
    \/ DispatchWait
    \/ Deposit
    \/ CleanupLock
    \/ Shutdown
    \/ JoinAndFree

Next ==
    \/ \E w \in Workers : WorkerStep(w)
    \/ \E t \in Tasks : Submit(t)
    \/ MainStep
    \/ Quit
    \/ SpuriousWakeup
    \/ Terminated

Spec == Init /\ [][Next]_vars

\* Every thread that can run is eventually scheduled, and task functions
\* return; the user need not type another command.
Fairness == WF_vars(MainStep) /\ \A w \in Workers : WF_vars(WorkerStep(w))

FairSpec == Spec /\ Fairness

-----------------------------------------------------------------------------
(* Properties *)

\* The lock of worker_thread, dispatch and cleanup is held exactly while its
\* owner is inside a critical section, so two threads are never inside one.
LockInv ==
    /\ \A w \in Workers : lock = w <=> pc[w] = "check"
    /\ lock = Main <=> mpc \in {"deposit", "broadcast"}

\* The workers that hold a token of available_slots: executing or about to post.
Busy == {w \in Workers : pc[w] \in {"run", "post"}}

\* 1 while dispatch has a token but has not yet put the task in the mailbox.
DispatchToken == IF mpc \in {"lock", "deposit", "waiting", "woken"} THEN 1 ELSE 0

\* The semaphore counts the free workers: its value, the token dispatch holds,
\* the task in the mailbox and the busy workers always add up to the size of
\* the pool. No token is lost or made up by any interleaving of sem_wait,
\* sem_trywait, the mailbox and sem_post.
SlotAccounting ==
    available_slots + DispatchToken + has_work + Cardinality(Busy) = Cardinality(Workers)

\* The workers that will look at the mailbox without another signal.
Looking == {w \in Workers : pc[w] \in {"lock", "woken", "check"}}

\* A task in the mailbox is never left behind by a signal that woke nobody, or
\* by a worker that went to sleep or returned after it was put there: some
\* worker is on its way to the mailbox.
NoLostWakeup == has_work = 1 => Looking # {}

\* Main sleeps on cond_task_received only while the mailbox is full, so the
\* worker that empties it wakes main: that broadcast is never missed.
DispatcherWakeable == mpc = "waiting" => has_work = 1

\* The tasks in the hands of dispatch, of the mailbox and of the workers.
Offered == {dispatching} \ {NoTask}
Queued == IF has_work = 1 THEN {work} ELSE {}
Running == {func[w] : w \in Workers} \ {NoTask}

\* A task handed to dispatch is refused, finished, or in exactly one pair of
\* hands: none is lost or executed twice while it moves from main to the
\* mailbox and from the mailbox to a worker.
TaskConservation ==
    /\ submitted = dropped \cup finished \cup Offered \cup Queued \cup Running
    /\ dropped \cap finished = {}
    /\ Offered \cap (Queued \cup Running) = {}
    /\ Queued \cap Running = {}
    /\ (dropped \cup finished) \cap (Offered \cup Queued \cup Running) = {}
    /\ \A v, w \in Workers : v # w /\ func[v] # NoTask => func[v] # func[w]

\* cleanup frees the pool only when the mailbox is empty, no worker is left and
\* every task that dispatch accepted has been executed.
NothingLostAtExit ==
    mpc = "exit" => /\ has_work = 0
                    /\ \A w \in Workers : pc[w] = "done"
                    /\ submitted = dropped \cup finished

\* What ties the control state to the data: who has a task in hand ...
HandsInv ==
    /\ \A w \in Workers : pc[w] = "run" <=> func[w] # NoTask
    /\ dispatching # NoTask <=> mpc \in {"slot", "lock", "deposit", "waiting", "woken"}
    /\ has_work = 1 => work # NoTask

\* ... and, if the flag starts at 0, when it is set and who may have returned.
FlagInv ==
    /\ shutdown = 1 <=> mpc \in {"join", "exit"}
    /\ \A w \in Workers : pc[w] = "done" => shutdown = 1
    /\ mpc = "exit" => \A w \in Workers : pc[w] = "done"

\* TaskConservation needs HandsInv to tell whose hands are full. The three are
\* inductive whatever shutdown starts with, and whatever the semaphore is for.
TasksInv == TypeOK /\ HandsInv /\ TaskConservation

\* The inductive invariant of a pool whose shutdown flag starts at 0. NoLostWakeup
\* needs SlotAccounting (a full pool would have no one to wake), which needs
\* nothing but itself.
IInv ==
    /\ TasksInv
    /\ LockInv
    /\ FlagInv
    /\ SlotAccounting
    /\ NoLostWakeup
    /\ DispatcherWakeable

-----------------------------------------------------------------------------
(* The pool implements WorkQueue *)

taskStatus ==
    [t \in Tasks |->
        CASE t \in Offered -> "offered"
          [] t \in Queued -> "queued"
          [] t \in Running -> "running"
          [] t \in dropped -> "dropped"
          [] t \in finished -> "finished"
          [] OTHER -> "new"]

poolPhase ==
    CASE mpc \in {"shut", "broadcast", "join"} -> "closing"
      [] mpc = "exit" -> "closed"
      [] OTHER -> "open"

WQ == INSTANCE WorkQueue WITH
          Capacity <- Cardinality(Workers),
          Lossy <- Admission = "try",
          status <- taskStatus,
          phase <- poolPhase

\* Every behaviour of the mailbox, its mutex, its two condition variables and
\* the semaphore is a behaviour of the abstract queue: each accepted task is
\* started once, finished once, and before the pool is gone.
ImplementsWorkQueue == WQ!Spec

\* A task that main hands to dispatch is executed, or refused by sop-pool4.c:
\* dispatch, the worker and the handshake between them never get stuck.
EveryTaskSettled == \A t \in Tasks : t \in submitted ~> t \in finished \cup dropped

=============================================================================
