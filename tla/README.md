# Verification of the OPS1 laboratory programs

The repository holds the programs of an operating systems course: one directory
per laboratory, one program per task, each in several stages (`task3_1.c` to
`task3_4.c`, `sop-pool.c` to `sop-pool5.c`), the last of which is the program
itself. This directory holds TLA+ models of the concurrent ones, TLC
configurations that check them on small instances, and proofs of their safety
properties and refinements for instances of any size.

## 1. Inventory

| Component | State | Operations and interaction | Hard behaviour | What makes it correct | Here |
|---|---|---|---|---|---|
| Thread pool, `Lab4/Task3/sop-pool5.c` | mailbox (`work_function`, `work_args`, `has_work`), `shutdown`, mutex, two condition variables, semaphore `available_slots` | `initialize`, `worker_thread`, `dispatch`, `cleanup` | lost and spurious wakeups, shutdown against pending work, tokens against mailbox | an accepted task is run exactly once; shutdown finishes; no thread sleeps on work | `ThreadPool`, `WorkQueue`, `ThreadPoolProofs` |
| Pool with `sem_trywait`, `sop-pool4.c` | the same | `dispatch` may drop a task | silent drop; `shutdown` never assigned | a task is only dropped when the pool is full | `ThreadPool` with `Admission = "try"` |
| Monte Carlo and hello, `sop-pool5.c` 134-312 | arguments and a barrier per command, on the heap | k samplers and an accumulator are dispatched one by one and meet at a barrier inside the workers | tasks that wait for tasks that still need a worker; freeing what others use | the sum is complete, nothing is used after free, every command is answered | `MonteCarlo`, `MonteCarloProofs` |
| Card game, `Lab4/Task2/sop-mss3-alt.c` | table state, hands, `game_over`, one barrier | players are threads created by SIGUSR1; a waiting room on a condition variable; rounds on the barrier | one barrier for four places, reading a flag others set, SIGINT in the lobby | cards are conserved, rounds aligned, players leave together; a round looks like one step | `CardGame` (`Spec`), `CardTable`, `CardGameProofs`, `CardTableProofs` |
| Card game with cancellation, `sop-mss3.c` | the same without the waiting room | SIGINT cancels and joins waiting players | where cancellation has an effect | SIGINT ends the program | `CardGame` (`CancelSpec`), in the proofs as a version of `CardStages` |
| Dog race, `Lab3/Task3/task3_4.c` | track cells with a mutex each, podium under `mx_finish` | dogs lock two cells to jump; main locks everything to print; SIGINT cancels | lock order, check then act, cancellation with locks, consistent snapshot | no collision, consistent print, no lock left behind, no deadlock, the race ends | `DogRace`, `Race`, `DogRaceProofs` |
| Array swapper, `Lab3/Task2/task2_4.c` | array with a mutex per cell, `active_threads` | SIGUSR1 starts a swapper, SIGUSR2 a printer, SIGINT waits for swappers | signals lost before `pause`; printers not counted at exit | the array stays a permutation; a swap and a printed line look like one step; at most P swappers; nothing used after free | `ArraySwap`, `Inversions`, `ArraySwapProofs` |
| Earlier stages of the pool, `sop-pool.c`, `sop-pool3.c` | mailbox, condition variables | no semaphore, no shutdown: `exit` ends the workers | deposits without admission; a barrier inside tasks of unlimited number | no task lost or doubled | `PoolStages`, `MonteCarloProofs` |
| Earlier stages of the card game, `sop-mss.c`, `sop-mss1.c`, `sop-mss2.c` | hands, one barrier | dealing; seating; the game without SIGINT | as in the game | nobody waits for a player that has left | `CardStages`, `CardGameProofs`, `CardTableProofs` |
| Earlier stages of the race, `task3_1.c` to `task3_3.c` | the track | dogs without cancellation; before `task3_3.c` without locks | data races before `task3_3.c` | - | `DogRace` (`task3_3.c`) |
| Earlier stages of the swapper, `task2_1.c` to `task2_3.c` | array, later threads | main inverts; printers; counted swappers | lock order | permutation, everyone gets out | `SwapStages`, `ArraySwapProofs` |
| Square roots, `Lab3/Task1/task1_4.c`, `tasl1_3.c` | cells with a mutex each, counter under `mx_main` | threads pick random cells | nested mutexes, counter against flags | each cell counted once, no thread ends before the work is done | `SqrtTasks`, `ThreadProgramProofs` |
| CSV chunks, `Lab4/Task1/task1_3.c` to `task1_5.c` | chunk queue, error flag, lists | threads take chunks, two barriers, the serial thread concatenates | chunk borders, error against barrier, empty lists, `strtok` in several threads | which lines are printed; all or nothing on an error, but for torn chunks | `CsvChunks`, `ThreadProgramProofs` |
| Tutorials, `Lab4/Tutorials/*.c` | semaphore; condition variable; barrier | alarm pool; readers on demand; dice game | slots against threads; signal outside the mutex; reused barrier | no reading without a request, shutdown ends, rolls of one round | `AlarmPool`, `Readers`, `Dice`, `ThreadProgramProofs` |
| Teacher and students, `Lab2/Task2/main2.c` to `main4.c` | `last_student_pid`, `active_students`, results | SIGUSR1 handed in, SIGUSR2 accepted, SIGCHLD collected | merged signals, handlers inside handlers, overwritten variable, 8-bit exit status | an answer meets who waits for it, the table is complete | `Students`, `SignalProgramProofs` |
| Clerk tree, `Lab2/Task4/main3.c` to `main5.c` | `last_signal` per process | documents go up, SIGINT goes down | overwritten signal, parents that leave first | everybody leaves, from the bottom up | `ClerkTree`, `SignalProgramProofs` |
| Token ring, `Lab2/Task3/main1.c` to `main3.c` | `last_signal`, current child | the parent activates one child at a time | test and suspend are not atomic | SIGINT ends the ring | `TokenRing`, `SignalProgramProofs` |
| Signal counter, ping-pong, `Lab2/Task1/*.c`, `Lab2/Prep1/prep1.c` | counters, `last_signal` | SIGUSR1 counted, SIGUSR2 stops; one signal to and fro | signals before the handler is there, merged signals | everybody stops; one signal in flight | `SignalCounter`, `PingPong`, `SignalProgramProofs` |
| `Lab0`, `Lab1`, `Lab5`, `Lab2/Build`, `Lab3/Prep`, `Lab4/Reusable`, `Lab4/custom_task` | - | sequential file programs, snippets to copy from, stubs | - | - | not modelled |

Every hazard of these programs is listed with its line in `PROJECT.json`, with
the properties that cover it or the reason why none does.

## 2. Modules

```
WorkQueue <--refines-- ThreadPool <--EXTENDS-- MonteCarlo <--EXTENDS-- PoolStages
                           ^                       ^
                    ThreadPoolProofs <--EXTENDS-- MonteCarloProofs

CardTable  <--refines-- CardStages, on CardGame     <-- CardGameProofs <-- CardTableProofs
Inversions <--refines-- SwapStages, on ArraySwap    <-- ArraySwapProofs
Race       <--refines-- DogRace                     <-- DogRaceProofs

MCThreads:  CsvChunks  SqrtTasks  Dice  AlarmPool  Readers          <-- ThreadProgramProofs
MCSignals:  Students  ClerkTree  TokenRing  PingPong  SignalCounter <-- SignalProgramProofs
                                        (all on Processes)
```

A program here grew in stages, each a file of its own. A `...Stages` module puts
every stage together from the actions of the last one and adds the few that
only an early stage has; a behaviour is one run of one stage. `MCThreadPool`,
`MCPoolStages`, `MCMonteCarlo`, `MCCardGame`, `MCCardStages`, `MCDogRace`,
`MCArraySwap` and `MCSwapStages` instantiate the modules for TLC. `MCThreads` and
`MCSignals` each hold five small programs: `program` says which one a behaviour
runs, and the variables the others have keep a fixed value. How many threads,
children and user signals there are, and which clerk has which subordinates, are
constants of these two modules, so their theorems hold for all of them.

The grain of the models: one action is what a thread does between two points
where another thread can make a difference, that is, between two locks, blocking
calls or ends of critical sections. The unlock is part of the action that ends
the section. A mutex is its owner; a condition variable is the set of threads at
the control point `"waiting"`, which a signal moves to `"woken"`, where they ask
for the mutex again. `ERR(...)` and end of file on the standard input end the
process at once and are behaviours that stop: they have no action, except
`CreateFails` of `ArraySwap`, before which the code corrects a counter.

### WorkQueue

The promise of the pool, without a mutex, condition variable or semaphore: a
status per task (new, offered, dropped, queued, running, finished)
and a phase. At most one task is queued, at most `Capacity` are queued or
running, each starts once, and the pool is closed only when nothing is pending.

### CardTable, Inversions, Race

The promises of the three larger thread programs, none of them with a thread, a
mutex, a barrier or a signal.

| Promise | Steps | How the program's state shows it |
|---|---|---|
| `CardTable` of the card game | `Deal`, `Exchange` (one card of each player moves to the right, all at once), `Win`, `Clear` | `tableHands` of `CardStages`: the exchange happens when the last card is passed, so a player that has not taken its card yet is shown with the hand it will have (`NextHand`) |
| `Inversions` of the array swapper | `Begin`, `Swap` (the two ends of a piece change places), `PrintLine`, `Forget` | `Restored`, `rest` and `line` of `SwapStages`: the swap happens with the first of the two assignments, the line with the last cell the printer reads |
| `Race` of the dog race | `Start`, `Jump` (look and jump), `Rank`, `End` | `started`, `cell`, `ranked` and `result` are read off the dogs' places and main's (`ImplementsRace` of `DogRace`): the jump happens in `Move`, although the cell was looked at in `Check`, and taking a rank in `RecordFinish` |

They restrict what a single invariant does not: that a card only moves to the
right neighbour and only while nobody has won, that a swapper swaps exactly the
cells of its piece from the outside in, that a rank is given once and never taken
back.

### ThreadPool

| Code (`sop-pool5.c`) | Model |
|---|---|
| 29 `pthread_mutex_lock` in the worker | `WorkerLock(w)`, also the way out of `pthread_cond_wait` |
| 31-33 wait loop | `WorkerWait(w)` |
| 35-38 return at shutdown | `WorkerReturn(w)` |
| 40-46 copy, clear, broadcast, unlock | `TakeTask(w)`, with `TaskReceived` |
| 48-50 `func(arg)` | `RunTask(w)` |
| 53 `sem_post` | `PostSlot(w)` |
| 95 `sem_wait`; `sop-pool4.c` 96 `sem_trywait` | `PassSemaphore`: `AcquireSlot` or `RejectTask` |
| 97-101 lock and wait loop of `dispatch` | `DispatchLock`, `DispatchWait` |
| 103-110 deposit, signal, unlock | `Deposit`, with `SignalWorkReady` |
| 114-117, 119-131 `cleanup` | `CleanupLock`, `Shutdown`, `JoinAndFree` |

`submitted`, `dropped` and `finished` are history variables. The set
`InitialShutdown` holds the values `pool->shutdown` may have when the workers
start: `{0}` for `sop-pool5.c`, `{0, 1}` for `sop-pool4.c`, which does not assign
it (section 3). The runs use `{0}`.

### MonteCarlo

Extends the pool: `RunTask` becomes the steps of `circle_monte_carlo`
(`Sample`, `Arrive`, `Leave`, `Return`), of `accumulate_monte_carlo` (`Arrive`,
`Leave`, `Sum`, `Destroy`, `Return`) and of `hello_world_test` (`Return`). Main
types commands (`StartCommand`), whose loop calls `dispatch` (`DispatchNext`).
`hit_total[c]` is the set of samplers whose counts were final when they were
added up. `pthread_barrier_destroy` waits for threads that are still leaving the
barrier, as the GNU C library does.

### CardGame

`Spec` is `sop-mss3-alt.c`, `CancelSpec` is `sop-mss3.c`; they share the players'
rounds. SIGUSR1 and SIGINT are blocked and taken by `sigwait`: `pending` is a
set, so signals of a kind merge. A deal is any choice of cards that are not in
the hands of the seated players, which is what a shuffled deck gives. The
branches for a full table (lines 216-218 and 224-229) have no action: main is
in `pthread_join` while the table is full and comes back with an empty one.

### DogRace

`Place`, `Wake`, `LockFirst`, `LockSecond`, `Check`, `Waf`, `Move`,
`RecordFinish` are the dog's thread, `LoopTurn`, `LockAll`, `PrintTrack`,
`CancelNext`, `JoinAll` are main. Cancellation acts in `nanosleep` only:
`pthread_mutex_lock` is no cancellation point and the output of a collision is
under `PTHREAD_CANCEL_DISABLE`. `task3_3.c` is the same race without SIGINT: its dog and
its main are the operators `Dog3` and `Main3`, which the last stage contains.

### ArraySwap

| Code (`task2_4.c`) | Model |
|---|---|
| 54-58 `sig_handler`, 145 `pause` | `Signal(s)`: sets the flag, and ends `pause` if main is in it |
| 148-164 SIGINT, wait loop | `CheckInterrupt`, `WaitForThreads` |
| 167-200 request for a swapper | `CheckSwap`, `Admit`, `CreateSwapper`, `CreateFails` |
| 203-208 request for a printer | `CheckPrint` |
| 212-221 end | `CleanUp`, `Exit` |
| 64-79 `perform_inversion` | `LockPair`, `Move`, `Put`, `UnlockRight`, `UnlockLeft` |
| 89-95 statistics | `Finish` |
| 102, 105, 109 loops of the printer | `LockCells`, `PrintCells`, `UnlockCells` |

The two assignments of a swap and the reads of a printed line are steps of their
own, so a missing lock shows. A signal that comes between the tests of the flags
and `pause` only sets its flag, as in the code. POSIX lets any thread run the
handler of a signal sent to the process; Linux prefers the main thread, and so
does the model. What a printer does with memory that main has freed is undefined:
it ends in `"undefined"` (`UseFreed`). Local variables go back to 0 when a swapper
ends.

### PoolStages, CardStages, SwapStages

`PoolStages` leaves out the semaphore and the shutdown flag for stages 2 and 3
(`NoSlotNeeded`, `LoopAgain`, `ExitAtOnce`), does not clamp the samplers in stage
3 (`StartUnclamped`), and uses the dropping dispatch with the commands in stage 4.
The circle command of `sop-pool.c` reads pointers that were never set: it is no
defined program and has no action. `CardStages` has the five versions `deal`,
`table`, `rounds`, `cancel`, `lobby`. In `SwapStages` main itself inverts in stages
1 and 2 (`Invert`, `InvertStep`); a stage without a handler for a signal is ended
by it on the spot, which has no action.

### CsvChunks, SqrtTasks, Dice, AlarmPool, Readers

`CsvChunks`: the file is the set of offsets at which its lines begin, any set
for each size; the borders `offset` and `EndBoundry` are the code's divisions.
`DataSizes` are the sizes of the file (`MCThreads`).
`Take`, `ReadChunk`, `Mismatch`, `CheckFlag`, `Barrier1`, `ReadFlag`, `Barrier2`
and `Concat` follow the thread function, `PrintLists` is main after the joins.
The file does not change and a chunk's list belongs to whoever took it, so reading a
chunk is two steps, its begin (in `Take`) and its end (`ReadChunk`). One thing the
threads of stages 4 and 5 share without a lock: `count_tokens` (`task1_5.c` 41-54)
calls `strtok`, whose place in the text is one static variable of the process. Two
chunks in which tokens are counted at the same time are `torn` (`Tear`): `FoundWrong`
lets any of their lines be found wrong or right, and `TornHeap` lets the program
crash, then or later, since a thread may read and write in a copy that another has
freed. A torn read may also cut the text of a listed line; texts are not modelled.

`SqrtTasks`: `Lock` takes the mutex of the picked cell, `Work` and `CountDown`
run under it; `mx_main` is held for one access each and is not a variable.

`Dice`, `AlarmPool` and `Readers` are the three tutorials. In `Readers` main sets the
condition, signals and broadcasts without the mutex, so the readers' test and wait are
separate steps. So are main's test of `work` and its `fgets`: a line that comes after
SIGINT may still be served. `missed` is a history variable: a reader was between the two
when main broadcast. What `sem_post` does to the stack of a `do_work` that has returned
is undefined and left out: the program ends next.

### Processes, Students, ClerkTree, TokenRing, PingPong, SignalCounter

A process is a record: where it is, its `last_signal`, its pending signals and
one counter. `Kill` adds to the pending set, so signals of a kind merge; a
process that has exited is `left` until its parent reaps it. Where the code
blocks its signals except inside `sigsuspend` and a handler only stores the signal,
waking up is one action that runs all pending handlers, the last of them in any
order; where it does not block them (the children of `main3.c` of the ring and of
`mian4.c`), a handler runs between any two reads or writes of `last_signal`
(`Deliver`, `Stop`).

The teacher's handlers run step by step, since they do more than that and block only
their own signal (`sa_mask` is empty, `main4.c` 50 and 60). `Usr1Handler` and
`ChldHandler` begin a handler, in `sigsuspend` or inside the other one, `Waitpid` is one
turn of the loop of `waitpid`, `HandlerReturns` goes back to what was interrupted.
Inside the handler of SIGCHLD any number of SIGUSR1s can so be handled one after the
other, each overwriting `last_student_pid`. `si_pid` of the teacher's pending SIGUSR1
is that of the signal that came first.

`lost` is a history variable that names what the code cannot avoid losing: a
student whose SIGUSR1 was merged or whose pid was overwritten in `last_student_pid`
before the answer, a clerk whose SIGINT was overwritten in `last_signal` before it was
read, a child of the ring that overwrote SIGINT or slept through it between test and
`sigsuspend`, a child of the counter that still ignored SIGUSR2. The liveness properties name it: a waiting process leaves unless one
below it is in `lost`, a student is answered unless it is in `lost` itself. So each
shows that such a loss is the only way to hang. SIGINT over SIGINT is no loss.

## 3. Runs

| Run | Instance | Question | Result |
|---|---|---|---|
| `pool_wait` | 3 workers, 4 tasks, 1 spurious wakeup, blocking dispatch, fairness | does the pool keep its promise, does every task come to an end | holds, 252,602 states |
| `pool_stages` | 3 workers, 3 commands of at most 2 tasks, stages 2 to 4, 1 spurious wakeup in stage 2, fairness | are tasks conserved in every stage; does a dropped task harm other commands | holds, 540,500 states |
| `monte_carlo` | 3 workers, 2 overlapping commands, 1 or 3 requested workers, circle and hello, 1 spurious wakeup, fairness | sums, freeing, gridlock, end | holds, 488,972 states |
| `monte_carlo_one` | 1 worker, one circle command | is the command answered | violated: finding 1 |
| `card_stages` | 4 players, 2 suits of 4 cards, hands of 2, games repeat, SIGINT at any time, symmetry of cards | cards, rounds, leaving, lobby; is it a card table (`ImplementsCardTable`) | holds, about 924,000 states |
| `card_game_cancel` | 4 players, hands of 1 | does SIGINT end the program | violated: finding 2 |
| `dog_race` | 3 dogs, 4 cells, jumps of 1 or 2, SIGINT at any time, fairness | collisions, snapshot, locks, podium, end; is it a race (`ImplementsRace`) | holds, 184,267 states |
| `swap_stages` | 4 cells, at most 2 swappers, 3 swap requests, 1 printer, SIGINT, each signal at any time, stages 1, 2 and 4, fairness | permutation, thread count, end; are swaps and printed lines one step (`ImplementsInversions`) | holds, 1,460,978 states |
| `array_swap_printer` | the same with 2 swap requests, last stage, symmetry of threads | is nothing used after the clean-up | violated: finding 3 |
| `thread_programs` | 3 threads; files of 1 and 5 bytes in 2 chunks; 3 cells; 2 rounds of 2 faces; 2 slots; 3 requests; fairness | lines, errors, counters, barriers, requests, joins | holds, 448,872 states |
| `signal_programs` | 3 students of 2 parts, 4 clerks on 3 levels, 2 children elsewhere, 2 or 3 signals of the user, fairness | shutdowns, order of leaving, answers, the table | holds, 145,291 states |
| `students_answered` | the same | is every student answered | violated: finding 4 |

Why the bounds suffice for the interesting cases:

- Pool: three workers can be at three different places at once, asleep, woken and
  busy; with more tasks than workers dispatch blocks on the semaphore, meets a
  full mailbox and a free worker together, and shutdown meets a full mailbox.
  Submitted tasks are distinct, so the number of calls is bounded by the tasks.
- Monte Carlo: with three workers and 1 or 3 requested, commands have 1 or 2
  samplers (both branches of the clamp), two commands are in the pool together
  and two hello commands together have more tasks than there are workers.
- Card game: the program requires 4 to 7 players. Two suits and hands of two make
  a winning hand, no winner and several winners all possible; tables repeat
  without a bound. In `card_game_cancel` one card per hand is enough: nobody
  plays there before the table is full.
- Dogs: three dogs are the program's minimum and what a podium needs; on four
  cells with jumps up to two, dogs meet, are blocked by each other and by the
  snapshot, and overshoot the last cell. The program's own bounds (track over 20,
  jumps to 5) only add cells of the same kind, and the proofs do not depend on
  them.
- Array: four cells give inversions of two rounds, overlapping pairs, nested pairs
  and disjoint ones; with three requests for two places a request is dropped, and
  a place is used again. The program has 8 to 256 cells. `Budget` bounds how often
  each signal is sent.
- Pool stages: a circle command has two tasks. Once `dispatch` has dropped one of
  them the other keeps its worker, so three workers are the fewest with which a later
  command can still be accepted whole, and three commands leave room for one before
  and one after it; TLC reaches that case. A spurious wakeup comes in stage 2
  only (`SpuriousStages`): `sop-pool3.c` has the same wait loops, and `sop-pool4.c` has
  those of `sop-pool5.c`, which `pool_wait` and `monte_carlo` wake spuriously.
- Thread programs: files of 1 byte have an empty chunk, files of 5 bytes chunks of two
  and of three bytes, with a line border on and off the chunk border and a bad line in
  every place; two chunks are enough to tear each other; three threads are enough for
  one to be at each side of a barrier and one on its way. One alarm thread more exists
  than there are slots, which only a broken semaphore would use.
- Signal programs: three levels of clerks have a superior that is itself a
  subordinate; three students make two signals merge while a third is answered;
  parts with 0 or 200 issues take the sum over 255. `Limit` (3 for 100) and
  `Burst` (2 for 30) scale counters down.

`CHECK_DEADLOCK FALSE` stands in the violation runs whose finding is that the
program stops for ever, and in the four runs of several programs or stages, whose
behaviours end or may stop: a command of `sop-pool4.c` that lost a task keeps its
workers, `sop-mss3.c` hangs on SIGINT, a lost signal leaves a parent in `wait`. What
must not stop there is a liveness property. In the other runs a finished program
stutters by an explicit `Terminated` (`Quiet` in `ArraySwap`) disjunct, so a deadlock
would be reported.

### Fairness

A thread that can run is scheduled: weak fairness on the steps of each worker
and of main, never on what the user does (submitting, quitting, signals). In the
pool weak fairness is enough for the mutex too: a model state in which a thread
holds it is left by one step of that thread, and a thread that gives the mutex up
goes to sleep, or does work that in the end leaves the others the lock; TLC
confirms it with the weak form. In `DogRace` main and colliding dogs take and
give back the same mutexes for ever, so a thread that waits for one is enabled
only now and then: strong fairness. The code justifies it because between two
rounds main sleeps a second (line 185) and a dog at least 200 ms (line 40), far
longer than the sections they hold locks for. In `SwapStages` weak fairness
suffices: signals are finitely many, so a thread that waits for a mutex competes
with finitely many sections. In `MCThreads` each thread has strong fairness: in
`Readers` the mutex comes free again and again while others pass it on, as a fair
lock allows; the square roots have none, since nothing makes a thread that spins
on random cells pick the one that is left. In `MCSignals` every process has weak
fairness, and so has the delivery of a pending signal that is not blocked. No run
assumes that the user types, sends a signal or presses Ctrl-C.

### Findings

1. `sop-pool5.c` with a pool of one worker hangs on the first circle command.
2. `sop-mss3.c` hangs on SIGINT while players wait for the table to fill.
3. `task2_4.c` frees the array and its mutexes at SIGINT while a printer uses them.
4. `main4.c` of the students never answers one whose SIGUSR1 was merged, or whose pid
   another SIGUSR1 overwrote inside the handler of SIGCHLD.

Observations of the modelling that no run states as a violation:

- `sop-pool4.c` does not assign `pool->shutdown`; built with the address
  sanitizer, as its Makefile does, `malloc` does not return zeroed memory, and
  workers that read a nonzero value return at once.
- `task3_4.c` records the order in which dogs take `mx_finish`, which need not be
  the order in which they stepped on the last cell.
- The CSV reader prints every line except those that begin exactly on a chunk
  border, and `concat` of `task1_5.c` follows a NULL head when chunks have no byte:
  `LinesPrinted` states exactly that.
- `strtok` in the threads of `task1_4.c` and `task1_5.c` makes a file of good lines fail
  and a wrong line pass, depending on the schedule (`strtok_r` would not). What is
  left to the reader is in `AllOrNothing` and `LinesPrinted`: chunks that were not torn
  are judged rightly, and whatever is printed is every line.
- The last barrier of a card round (`sop-mss3-alt.c` 132) is not needed: leaving
  it out breaks none of the properties. Its branch "Scenario A: Game is running"
  (line 225) is never reached.
- The parent of `maian2.c` returns while its children run (`LeaveBottomUp` exempts
  it), and `main2.c` of the ring waits for a child that counts for ever
  (`WaitersLeave` exempts it).

## 4. Proofs

TLAPS checks every theorem below for all values of the constants. The assumptions
are the named ones of the modules: sets of threads are finite, sentinels are no
threads, a track and an array have at least two cells, a family has a child, a deck
has enough cards for the players; `OfficeAssumption` says that subordinates are
clerks and not that they form a tree, and `SwappersAssumption` that there is a
thread that can stand for main where main itself inverts. TLC evaluates them in
every run. Six theorems about the pool (`Invariance`, `SlotsAccounted`,
`WakeupsNotLost`, `CleanExit`, `Refinement`, `ProgramConservesTasks`) and the two
about its standstills also need `InitialShutdown = {0}`, which is what `sop-pool5.c`
assigns and `sop-pool4.c` leaves to chance. The others do not: they hold whatever
the flag starts as. No theorem uses fairness.

Each module of proofs has one inductive invariant, `IInv` (with `MCInv` for the
commands of the pool), and proves three facts about it: it holds initially, every
step keeps it, it implies the property. What makes each of them inductive:

**ThreadPoolProofs.** `TasksInv` is what the pool holds about its tasks:
`TypeOK`, `HandsInv` (which variables hold a task at which control point) and
`TaskConservation`. It is inductive alone, without the semaphore and whatever the
shutdown flag starts as (`TasksInvariance`, `TypeCorrect`, `TasksConserved`).
`IInv` adds `LockInv` (the owner of the mutex is the one thread inside a section),
`SlotAccounting`, `NoLostWakeup` and `DispatcherWakeable`, none of which is
inductive alone: that a deposit finds a worker that is awake or asleep and not
lost needs the accounting of the tokens (a token in main's hand means a worker
that is not busy), which needs the cardinality of the busy workers. From
`Invariance` follow `SlotsAccounted`, `WakeupsNotLost` and `CleanExit`.
`Refinement` proves `Spec => ImplementsWorkQueue`: `taskStatus` and `poolPhase`
map the pool's state to the queue's, every action maps to one abstract step or to
a stutter, and `Capacity` is the number of workers.

**MonteCarloProofs.** `ProgramUsesPool`: each step of the program is a step of the
pool or leaves its variables alone, so `MCSpec => Spec` and the pool's theorems
carry over; `ProgramConservesTasks` does so for task conservation and the exit.
`TotalsComplete` and `FreedUnused` are about the barrier inside the tasks. A
barrier is `Shut` (nobody past it) or `Open` (every task of the command past it or
done), `BarrierInv` makes its counter the number of threads that sit at it, and
the step from shut to open is the crux: the counter reaches the size of the
command only when all its tasks are in workers and sit there, which follows from
`TaskConservation` (no task is run twice), `JobInv` (the loop has dispatched what
`next` says) and a comparison of cardinalities (`LastArrives`). Only then are all
counts final, and all arguments free to go. None of this uses the semaphore or the
flag, so `TasksInv` and `MCInv` are invariants of the earlier stages too
(`StagesInvariance`): `StagesConserveTasks`, and `TotalsComplete` and `FreedUnused`,
which are stated for `MCSpec` and `StagesSpec` alike, hold where deposits need no
token, where `dispatch` drops tasks and where nobody set the flag.

**CardGameProofs.** One barrier serves four places, so the invariant says which of
six phases the whole table is in: `Gathering`, `Announcing`, `Passing`, `Leaving`,
`Taking`, `Dispersing`; in each all threads are between the same two openings.
`CountInv` (`arrived` is the number of threads that wait) makes the last arrival
the end of the phase. `CardsConserved` talks about settled moments only; what
carries it through a round is that in `Passing` each neighbour already holds
`first`, and in `Taking` the hands to be (`NextHand`) are disjoint. Theorems, for
all five versions: `RoundsConserveCards`, `RoundsAligned`, `WonFairly`,
`LeavingTogether`, `LobbyInformed`.

**CardTableProofs.** `TableRefinement`: every version implements `CardTable`. The
step that maps to `Exchange` is that of the last thread at the barrier after
passing; every other step of a round is a stutter. That nobody holds a winning hand
then comes from the phases, which `CardGameProofs` has for this: `Passing` implies
that nobody has won and `Leaving` that somebody has, since no thread reads
`game_over` before all have announced. What is shown in `Taking` is `NextHand`, which
does not change when a player takes its card.

**DogRaceProofs.** `IInv` ties data to control: `Positions` (a dog jumps forward),
`HoldersOwn`, `OwnersHold` and `MainOwns` (who owns which mutex follows from where
the threads are), `TrackCounts` and `FinishCounts` (counters are cardinalities),
`CheckHolds` (what a dog saw under the mutex stays true until it moves),
`Recorded`, `MainKnows`. `CellExclusive` is inductive only with `CheckHolds`,
which needs the owners: nobody else can step on a cell whose mutex is held.
Theorems: `NoCollision`, `SnapshotsConsistent`, `LocksReleased`, `PodiumCorrect`,
`CompleteResults`. `SnapshotStill` is an action property: while main has the mutexes
and prints, no step moves or ranks a dog, since each such step needs a mutex main
owns. `RaceRefinement` proves `Spec => ImplementsRace`; `Jumped` is the step that
matters, where `CheckHolds` makes what a dog saw in `Check` true in `Move`.

**ArraySwapProofs.** `SwapperLocks` and `PrinterLocks` say which mutexes a thread holds
from where it is; `PairOrdered` (left before right) makes a swapper's two cells two.
With them the two half-done assignments of a swap are the only gap in the permutation
(`NothingLost`), and what a printer has read of a line it has locked is still there
(`LineIsCurrent`), so the printed line is one array and not parts of two
(`InversionRefinement`; that it shows no number twice is `LineIsPermutation`).
`MainInverts` and `MainWaits` are about main: the count of threads is exact, and nothing
is cleaned up before it is 0. Theorems, for all stages: `SwapLosesNothing`,
`PrintsPermutations`, `ExactCount`, `CleanupAfterSwappers`, `Exclusive`.
`InversionRefinement` proves `StagesSpec => ImplementsInversions`: `Move` maps to the
swap of `Restored`, `Put` to a stutter, and the read of the last cell to `PrintLine`,
because `LineIsCurrent` says the cells read before it are still what they were.

**ThreadProgramProofs.** `IInv` has one part per program. The alarm pool's is the
property itself. The square roots need the owner of each cell (`CellOwner`) and that the
cell a thread works on is still open (`CellOpen`). The dice game's two barriers are
phases again. The readers need that a request that has been signalled is there for
whoever takes it (`RequestThere`), which holds by the mutex (`MutexOwner`) although main
signals outside it. The CSV reader needs `CsvPhases` (who is between which barriers) and
`WrongIsKnown`: a wrong line in a chunk that has been read and was not torn is in the
flag or still in the hands of its thread. `ErrorIsWrong` goes the other way: a reported
error has a wrong line or a torn chunk behind it. `CsvLinesPrinted` is about what is
printed: the lists of the chunks, concatenated in the order of the chunks, are the lines
of the file without those that begin on a border. `FlattenSeq`, which concatenates them,
is a recursive function over the chunks; that it has a value, and which, is proved by
the least number of chunks for which it would fail (`JoinedExists`, `JoinedLists`), as
the induction theorems cannot be used. The borders are divisions, of which the proof
needs that they grow with the chunk (`Borders`). `CsvPrints` follows each list from its
thread to main. Theorems: `CsvAllOrNothing`, `CsvLinesPrinted`, `SqrtCountedOnce`,
`DiceRollsOfOneRound`, `AlarmSlotsBalance`, `ReaderRequested`.

**SignalProgramProofs.** First lemmas about the process table: what `Goto`, `Fork`,
`Kill`, `Suspend`, `Reap` and the others change of it. Then one part of `IInv` per
program, and the theorems:

- `NobodyOrphaned` (`LeaveBottomUp`): `LeavesLast` for each clerk and its
  subordinates, or for the parent of a family. The teacher's loop does not ask
  whether its children have exited but counts them, so there `StudentCount`
  (`active_students` is the number of students not yet waited for) is needed.
- `OneAnswerEach` (`AnswersOnlyWaiting`): `StudentMail` adds that the teacher
  holds a `last_student_pid` only from a handler to the answer, and that `si_pid`
  belongs to a pending SIGUSR1. A pid that a later handler overwrites is one of a
  student that waits, like the one that takes its place.
- `TableComplete` (`ResultsComplete`): the lines written so far are those of the
  students waited for, each with the exit status it had.
- `OneBall` (`OneBallInPlay`): the game is `Playing` or `Ended`, and which of
  the two decides who may hear of SIGUSR1 and who of SIGINT.

`SignalInv` adds to `IInv` where a shutdown, or a solution, is on its way: `ClerkDay`,
`RingSignal`, `CounterSignal`, `PingSignal`, `StudentSignal`, again one per
program (`SignalInvariance`). Its two theorems are below.

### Nobody is stuck

Liveness under fairness is out of the prover's reach, and so is `ENABLED`. What can be
proved for every size of the programs is the safety that the liveness properties
rest on: in every reachable state in which something is still to be done, somebody
can do a step. Such a theorem excludes deadlock and lost wakeups; it does not exclude
that threads take turns for ever, which the liveness properties of the runs do on
their instances. "Can do a step" is written out per program as a predicate on the
control points, the mutexes and the counters (`PoolWorkerRuns`, `DogRuns`,
`SwapperRuns`, `PlayerRuns`, `Runs`, `CanRun` and so on); TLC compared these
predicates with `ENABLED` of the actions on the instances of the runs.

| Theorem | What it states | Why it holds |
|---|---|---|
| `ThreadPoolProofs!NeverStuck` | a pool in which nobody can run has executed or refused every task and main is at the prompt or has ended; needs `InitialShutdown = {0}` | `NoLostWakeup`, `DispatcherWakeable`, the tokens, and nobody sleeps after the shutdown (`NoSleeper`) |
| `MonteCarloProofs!GridlockFree` | with two workers or more, when nobody can run every command typed has been answered; needs also `Admission = "wait"` | `GridInv`: a command has at most as many tasks as there are workers and is dispatched whole before the next one; finding 1 is the case of one worker |
| `CardGameProofs!NeverStuck` | while main joins its players one of them can go on | `CountInv` and the phases: the last one on its way to a barrier is not at it; the exception is SIGINT of `sop-mss3.c`, which is finding 2 |
| `DogRaceProofs!LockOrder` | until the race is over a dog or main can take a step | the owner of the last locked cell waits for a later, free one; main locks in the same order |
| `ArraySwapProofs!LockOrder` | while the array is there and some thread works on it, one can go on | the same argument in the order of the array |
| `ThreadProgramProofs!JoinsNeverStuck` | while main joins, a thread can go on or all have ended | barriers open at the last arrival, a mutex of the square roots is held by one who works, after the readers' broadcast nobody goes to sleep; exception: the reader in `missed` |
| `SignalProgramProofs!ShutdownHeard` | while a process waits for its children, each has exited, ends of itself, or has the signal that ends it pending or unread in `last_signal` | whoever waits has sent the signal to children that are there; only a step that puts the child in `lost` takes it away |
| `SignalProgramProofs!StudentsHeard` | while the teacher sleeps with nothing pending, a student works, has its answer, or is in `lost` | `si_pid` and `last_student_pid` keep the sender of every SIGUSR1 neither merged nor overwritten, and SIGCHLD is pending while there is a zombie |

### What stays with TLC

The liveness properties (`EveryTaskSettled`, `AcceptedCommandAnswered`,
`EveryCommandAnswered`, `ProgramEnds`, `RaceEnds`, `LockingEnds`, `JoinsReturn`,
`WaitersLeave`, `StudentsAnswered`); every safety property and every refinement
the passing runs check is proved. What the violation runs refute is of course not
proved. Type invariants: each `IInv` contains the one it needs; `MCTypeOK` and
`ArraySwap!TypeOK` document the states of their modules and are not among the
properties of a run. The inductive invariants were checked by TLC on the instances
of the runs before they were proved.

## 5. Not modelled

Wording and layout of the output, argument parsing, allocation failures, signals
that interrupt system calls the code restarts. The geometry of the Monte Carlo
samples is reduced to whether a count is final, square roots and dice to which
cell or face; the files the clerks read are a given tree, the file a child of the
ring saves is left out.

Not modelled as components: the file programs of `Lab1` and the introductory ones
of `Lab0` (sequential input and output, no state that outlives a call), the
snippets of `Lab2/Build`, `Lab3/Prep`, `Lab4/Reusable` and `Lab5` (nobody calls them;
`producer_consumer_core.c` has workers and no producer), the stub
`Lab4/custom_task`. Of the earlier stages, `task3_1.c` shares nothing and
`task3_2.c` works on the track without locks, where the outcome of every access is
open; the circle command of `sop-pool.c` is undefined from its first line.

## 6. What is left

Every safety property and every refinement of the passing runs is proved. What
could be added, in this order: action properties of the smaller programs (a
SIGUSR1 that was not merged is answered once per part); an abstract specification of
the commands on top of `WorkQueue`, which `MonteCarlo` would refine; a measure
that decreases with every step of a thread, as the part of `RaceEnds` and
`LockingEnds` that does not need fairness; the sequential programs of `Lab1`.
