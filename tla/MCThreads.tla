------------------------------ MODULE MCThreads ------------------------------
(***************************************************************************)
(* The smaller thread programs for TLC. Each behaviour is one of           *)
(* `program`, which Init chooses; the variables the program does not have  *)
(* keep their initial values.                                              *)
(***************************************************************************)
EXTENDS Naturals

CONSTANTS N, M, K, DataSizes, Rounds, Faces, FS_NUM, MaxRequests

\* ReadArguments refuses a number of threads or cells that is not positive, a
\* barrier for no thread is an error, and the data, some bytes, is divided by M.
ASSUME CountsAssumption ==
    {N, M, K} \subseteq Nat \ {0} /\ FS_NUM \in Nat /\ DataSizes \subseteq Nat

VARIABLES program, pc, main,
    stage, arrived,
    data_size, starts, bad, next_task_idx, idx, head, global_error_flag, torn,
    index, mx_cells, is_done, tasks_left,
    round, rolls, scores,
    work, semaphore,
    condition, idlethreads, mutex, requests, reads, missed

csvOnly == <<data_size, starts, bad, next_task_idx, idx, head, global_error_flag, torn>>
sqrtOnly == <<index, mx_cells, is_done, tasks_left>>
diceOnly == <<round, rolls, scores>>
readerOnly == <<condition, idlethreads, mutex, requests, reads, missed>>
vars == <<program, pc, main, stage, arrived, csvOnly, sqrtOnly, diceOnly, work, semaphore,
          readerOnly>>

Csv == INSTANCE CsvChunks
Sqrt == INSTANCE SqrtTasks
Dice == INSTANCE Dice
Alarm == INSTANCE AlarmPool
Reader == INSTANCE Readers

Init ==
    /\ program \in {"csv", "sqrt", "dice", "alarm", "readers"}
    /\ CASE program = "csv" -> Csv!Init
         [] program = "sqrt" -> Sqrt!Init
         [] program = "dice" -> Dice!Init
         [] program = "alarm" -> Alarm!Init
         [] program = "readers" -> Reader!Init
    /\ program \notin {"csv", "sqrt"} => stage = 0
    /\ program \notin {"csv", "dice"} => arrived = 0
    /\ program # "csv" => /\ data_size = 0 /\ starts = {} /\ bad = {} /\ next_task_idx = 0
                          /\ idx = 0 /\ head = <<>> /\ global_error_flag = 0 /\ torn = {}
    /\ program # "sqrt" => index = 0 /\ mx_cells = 0 /\ is_done = {} /\ tasks_left = 0
    /\ program # "dice" => round = 0 /\ rolls = 0 /\ scores = 0
    /\ program \notin {"alarm", "readers"} => work = 1
    /\ program # "alarm" => semaphore = 0
    /\ program # "readers" => /\ condition = 0 /\ idlethreads = 0 /\ mutex = 0
                              /\ requests = 0 /\ reads = 0 /\ missed = FALSE

CsvStep(A) ==
    program = "csv" /\ A /\ UNCHANGED <<program, sqrtOnly, diceOnly, work, semaphore, readerOnly>>
SqrtStep(A) ==
    /\ program = "sqrt" /\ A
    /\ UNCHANGED <<program, arrived, csvOnly, diceOnly, work, semaphore, readerOnly>>
DiceStep(A) ==
    program = "dice" /\ A /\ UNCHANGED <<program, stage, csvOnly, sqrtOnly, work, semaphore, readerOnly>>
AlarmStep(A) ==
    program = "alarm" /\ A /\ UNCHANGED <<program, stage, arrived, csvOnly, sqrtOnly, diceOnly, readerOnly>>
ReaderStep(A) ==
    program = "readers" /\ A /\ UNCHANGED <<program, stage, arrived, csvOnly, sqrtOnly, diceOnly, semaphore>>

Next ==
    \/ CsvStep(Csv!Next)
    \/ SqrtStep(Sqrt!Next)
    \/ DiceStep(Dice!Next)
    \/ AlarmStep(Alarm!Next)
    \/ ReaderStep(Reader!Next)

\* What thread t, and what main, does of itself. A thread that spins on its
\* random cell is not made to pick the others, so the square roots are not here.
StepOf(t) ==
    \/ CsvStep(Csv!Step(t))
    \/ DiceStep(Dice!Step(t))
    \/ ReaderStep(Reader!Step(t))
MainStep ==
    \/ CsvStep(Csv!Main)
    \/ DiceStep(Dice!PrintScores)
    \/ ReaderStep(Reader!TestWork \/ Reader!Broadcast \/ Reader!Join \/ Reader!UnlockPool
                  \/ Reader!SetCondition \/ Reader!Signal)

\* The scheduler runs every thread. A reader finds the mutex free again and
\* again while others pass it on: strong fairness of the lock.
Fairness == WF_vars(MainStep) /\ \A t \in 1 .. N : SF_vars(StepOf(t))

Spec == Init /\ [][Next]_vars /\ Fairness

-----------------------------------------------------------------------------
(* Properties *)

\* The lines that are printed (CsvChunks).
LinesPrinted == program = "csv" => Csv!LinesPrinted

\* A wrong line ends the program (CsvChunks).
AllOrNothing == program = "csv" => Csv!AllOrNothing

\* tasks_left (SqrtTasks).
CellsCountedOnce == program = "sqrt" => Sqrt!CellsCountedOnce

\* The rolls of one round (Dice).
RollsOfOneRound == program = "dice" => Dice!RollsOfOneRound

\* Slots (AlarmPool).
SlotsBalance == program = "alarm" => Alarm!SlotsBalance

\* No reading without a request (Readers).
ReadsWereRequested == program = "readers" => Reader!ReadsWereRequested

\* main's joins return: the CSV readers and the dice game always end, all
\* their threads meeting at every barrier; the readers end after SIGINT, unless
\* one of them was between its test of work and its wait when main broadcast.
JoinsReturn == (program \notin {"sqrt", "alarm"} /\ main = "join") ~> (main # "join" \/ missed)
=============================================================================
