-------------------------- MODULE ThreadProgramProofs --------------------------
(***************************************************************************)
(* Theorems about the smaller thread programs, for every number of         *)
(* threads, chunks, cells and slots. The invariants of the five programs   *)
(* are parts of one, IInv, each under the condition that its program runs. *)
(***************************************************************************)
EXTENDS MCThreads, Sequences, FiniteSets, FiniteSetTheorems, TLAPS

\* The threads at one of the places of L.
At(T, L) == {t \in T : pc[t] \in L}

-----------------------------------------------------------------------------
(* The inductive invariant *)

\* AlarmPool: SlotsBalance is inductive as soon as the types are known.
AlarmInv ==
    /\ pc \in [Alarm!Alarms -> {"none", "sleep"}]
    /\ main \in {"input", "trywait", "create", "returned", "exit"}
    /\ semaphore \in Nat
    /\ Alarm!SlotsBalance

SqrtPCs == {"check", "pick", "lock", "work", "count", "unlock", "done"}
SqrtTypes ==
    /\ pc \in [Sqrt!Threads -> SqrtPCs]
    /\ index \in [Sqrt!Threads -> Sqrt!Cells]
    /\ mx_cells \in [Sqrt!Cells -> 0 .. N]
    /\ is_done \in SUBSET Sqrt!Cells

\* SqrtTasks: a cell belongs to the thread that works on it, counts it or is
\* about to unlock it ...
Holds == {"work", "count", "unlock"}
CellOwner ==
    \A t \in Sqrt!Threads, c \in Sqrt!Cells :
        mx_cells[c] = t <=> (pc[t] \in Holds /\ index[t] = c)

\* ... so a thread that found the cell open still finds it open.
CellOpen ==
    \A t \in Sqrt!Threads : pc[t] = "work" => index[t] \notin is_done

SqrtInv == SqrtTypes /\ CellOwner /\ CellOpen /\ Sqrt!CellsCountedOnce

\* Dice: the players are all before the first barrier, all before the second or
\* all done, in the same round, and arrived counts those that wait.
DiceInv ==
    /\ arrived \in Nat
    /\ round \in [Dice!Players -> Nat]
    /\ \A p, q \in Dice!Players : round[p] = round[q]
    /\ \/ /\ pc \in [Dice!Players -> {"roll", "barrier1", "at1"}]
          /\ arrived = Cardinality(At(Dice!Players, {"at1"}))
       \/ /\ pc \in [Dice!Players -> {"assign", "barrier2", "at2"}]
          /\ arrived = Cardinality(At(Dice!Players, {"at2"}))
       \/ /\ pc \in [Dice!Players -> {"done"}]
          /\ arrived = 0

ReaderPCs == {"lock", "test", "enter", "asleep", "relock", "take", "read", "exit"}
ReaderTypes ==
    /\ pc \in [Reader!Threads -> ReaderPCs]
    /\ main \in {"input", "fgets", "none", "unlock", "set", "signal", "join", "exit"}
    /\ condition \in {0, 1}
    /\ work \in {0, 1}
    /\ reads \in Nat /\ requests \in Nat

\* Readers: the mutex belongs to the reader that tests, enters the wait or takes a
\* request, or to do_work ...
MutexOwner ==
    /\ \A t \in Reader!Threads : mutex = t <=> pc[t] \in {"test", "enter", "take"}
    /\ mutex = Reader!DoWork <=> main \in {"none", "unlock"}

\* ... so the request that a reader has seen is there when it takes it.
RequestThere ==
    \A t \in Reader!Threads : pc[t] = "take" /\ work # 0 => condition = 1

ReaderInv == ReaderTypes /\ MutexOwner /\ RequestThere /\ Reader!ReadsWereRequested

CsvTypes ==
    /\ arrived \in Nat
    /\ global_error_flag \in {0, 1}
    /\ next_task_idx \in 0 .. M
    /\ idx \in [Csv!Threads -> Csv!Tasks \cup {0}]
    /\ starts \in SUBSET Nat
    /\ torn \in SUBSET Csv!Tasks

\* CsvChunks: the threads are all before the first barrier, all between the two or
\* all behind the second ...
BeforeFirst == {"lock", "read", "mismatch", "check", "barrier1", "at1"}
BeforeSecond == {"flag", "barrier2", "at2"}
BehindSecond == {"concat", "done"}
CsvPhases ==
    \/ /\ pc \in [Csv!Threads -> BeforeFirst]
       /\ arrived = Cardinality(At(Csv!Threads, {"at1"}))
    \/ /\ pc \in [Csv!Threads -> BeforeSecond]
       /\ arrived = Cardinality(At(Csv!Threads, {"at2"}))
    \/ /\ pc \in [Csv!Threads -> BehindSecond]
       /\ arrived = 0

\* ... a wrong line of a chunk that was taken, and not torn, is known to a thread that
\* will report it, or has been reported ...
WrongChunk(i) == Csv!LinesOf(i) \cap bad # {}
AtChunk(i) == \E t \in Csv!Threads : pc[t] \in {"read", "mismatch"} /\ idx[t] = i
WrongIsKnown ==
    \A i \in Csv!Tasks \ torn :
        i < next_task_idx /\ WrongChunk(i) => global_error_flag = 1 \/ AtChunk(i)

\* ... an error that is reported is of a wrong or a torn chunk, and so is one about to
\* be ...
ErrorIsWrong ==
    LET wrong == \E i \in Csv!Tasks : WrongChunk(i) \/ i \in torn
    IN  /\ global_error_flag = 1 => wrong
        /\ \A t \in Csv!Threads : pc[t] = "mismatch" => wrong

\* ... and a thread waits at the first barrier only when nothing is left to take,
\* and passes the second only when there is no error.
NothingToTake ==
    /\ \A t \in Csv!Threads :
          pc[t] \in {"barrier1", "at1"} \cup BeforeSecond \cup BehindSecond =>
              global_error_flag = 1 \/ next_task_idx = M
    /\ \A t \in Csv!Threads :
          pc[t] \in {"barrier2", "at2"} \cup BehindSecond => global_error_flag = 0

CsvInv ==
    /\ CsvTypes /\ CsvPhases /\ WrongIsKnown /\ ErrorIsWrong /\ NothingToTake
    /\ Csv!AllOrNothing

\* The file is read, not written.
CsvFile ==
    /\ data_size \in DataSizes
    /\ starts \in SUBSET (0 .. data_size - 1)
    /\ 0 \in starts
    /\ stage \in {3, 4, 5}

\* A chunk that was taken has the list of all its lines, or a thread is at it, or an
\* error was reported ...
ChunksRead ==
    \A i \in Csv!Tasks :
        i < next_task_idx =>
            global_error_flag = 1 \/ head[i] = Csv!ListOf(Csv!LinesOf(i)) \/ AtChunk(i)

\* ... until the one thread that concatenates has put all lists into the first.
AllLists == [i \in 1 .. M |-> Csv!ListOf(Csv!LinesOf(i - 1))]
AllDone == \A t \in Csv!Threads : pc[t] = "done"
CsvLists ==
    /\ head = [i \in Csv!Tasks |-> head[i]]
    /\ stage = 5 /\ AllDone => head[0] = Csv!FlattenSeq(AllLists)
    /\ stage # 5 \/ ~ AllDone => ChunksRead
    /\ \A t, u \in Csv!Threads : pc[t] = "concat" => stage = 5 /\ (u # t => pc[u] = "done")

\* Without barriers and errors, in stage 3, a thread ends when all chunks are taken.
CsvUnchecked ==
    stage = 3 =>
        /\ main # "failure" /\ global_error_flag = 0
        /\ next_task_idx \in 0 .. M /\ idx \in [Csv!Threads -> Csv!Tasks \cup {0}]
        /\ pc \in [Csv!Threads -> {"lock", "read", "done"}]
        /\ \A t \in Csv!Threads : pc[t] = "done" => next_task_idx = M

CsvPrints == CsvFile /\ CsvLists /\ CsvUnchecked /\ Csv!LinesPrinted

\* Stage 3 has no barriers and no errors.
IInv ==
    /\ program = "csv" => CsvPrints
    /\ program = "csv" /\ stage # 3 => CsvInv
    /\ program = "alarm" => AlarmInv
    /\ program = "sqrt" /\ stage = 4 => SqrtInv
    /\ program = "dice" => DiceInv
    /\ program = "readers" => ReaderInv

-----------------------------------------------------------------------------
(* Lemmas about counting *)

\* One element more, one element less.
LEMMA OneMore ==
    ASSUME NEW A, IsFiniteSet(A), NEW x, x \notin A
    PROVE  /\ IsFiniteSet(A \cup {x})
           /\ Cardinality(A \cup {x}) = Cardinality(A) + 1
           /\ Cardinality(A) \in Nat
BY FS_AddElement, FS_CardinalityType

LEMMA OneLess ==
    ASSUME NEW A, IsFiniteSet(A), NEW x \in A
    PROVE  /\ IsFiniteSet(A \ {x})
           /\ Cardinality(A \ {x}) = Cardinality(A) - 1
           /\ Cardinality(A) \in Nat
BY FS_RemoveElement, FS_CardinalityType

\* If all but one are counted, the ones counted are all but that one: who comes
\* last to a barrier finds all others there.
LEMMA AllOthers ==
    ASSUME NEW n \in Nat, NEW A \in SUBSET (1 .. n), NEW x \in 1 .. n, x \notin A,
           ~ Cardinality(A) < n - 1
    PROVE  A = (1 .. n) \ {x}
<1>1. IsFiniteSet(1 .. n) /\ Cardinality(1 .. n) = n
  BY FS_Interval
<1>2. /\ IsFiniteSet((1 .. n) \ {x})
      /\ Cardinality((1 .. n) \ {x}) = n - 1
  BY <1>1, FS_RemoveElement
<1> DEFINE Others == (1 .. n) \ {x}
<1>3. A \in SUBSET Others
  OBVIOUS
<1> HIDE DEF Others
<1>4. /\ IsFiniteSet(A)
      /\ Cardinality(A) <= Cardinality(Others)
      /\ Cardinality(Others) = Cardinality(A) => Others = A
  BY <1>2, <1>3, FS_Subset DEF Others
<1>5. Cardinality(A) \in Nat
  BY <1>4, FS_CardinalityType
<1>6. Others = A
  BY <1>2, <1>4, <1>5 DEF Others
<1> QED
  BY <1>6 DEF Others

LEMMA ThreadsFinite ==
    /\ IsFiniteSet(1 .. N) /\ Cardinality(1 .. N) = N
    /\ IsFiniteSet(1 .. K) /\ Cardinality(1 .. K) = K
    /\ IsFiniteSet(1 .. FS_NUM + 1)
<1>1. N \in Int /\ K \in Int /\ FS_NUM + 1 \in Int /\ N >= 1 /\ K >= 1 /\ 1 \in Int
  BY CountsAssumption
<1> QED
  BY <1>1, FS_Interval

\* The programs count with the operator of their own instance of FiniteSets.
LEMMA SameCardinality ==
    /\ \A S : Csv!Cardinality(S) = Cardinality(S)
    /\ \A S : Sqrt!Cardinality(S) = Cardinality(S)
    /\ \A S : Alarm!Cardinality(S) = Cardinality(S)
    /\ \A S : Reader!Cardinality(S) = Cardinality(S)
BY DEF Csv!Cardinality, Sqrt!Cardinality, Alarm!Cardinality, Reader!Cardinality, Cardinality

-----------------------------------------------------------------------------
(* AlarmPool *)

LEMMA AlarmInit == Alarm!Init => AlarmInv
<1> SUFFICES ASSUME Alarm!Init PROVE AlarmInv
  OBVIOUS
<1>1. {a \in Alarm!Alarms : pc[a] = "sleep"} = {}
  BY DEF Alarm!Init
<1> QED
  BY <1>1, FS_EmptySet, SameCardinality, CountsAssumption DEF Alarm!Init, AlarmInv, Alarm!SlotsBalance

LEMMA AlarmNext == AlarmInv /\ Alarm!Next => AlarmInv'
<1> SUFFICES ASSUME AlarmInv, Alarm!Next PROVE AlarmInv'
  OBVIOUS
<1> DEFINE Sleeping == {a \in Alarm!Alarms : pc[a] = "sleep"}
<1>1. IsFiniteSet(Sleeping) /\ Cardinality(Sleeping) \in Nat
  <2>1. Sleeping \in SUBSET (1 .. FS_NUM + 1)
    BY DEF Alarm!Alarms
  <2> QED
    BY <2>1, ThreadsFinite, FS_Subset, FS_CardinalityType
<1>2. FS_NUM \in Nat
  BY CountsAssumption
<1>3. /\ Cardinality(Sleeping) <= FS_NUM
      /\ main \notin {"returned", "exit"} =>
            semaphore + Cardinality(Sleeping) + (IF main = "create" THEN 1 ELSE 0) = FS_NUM
  BY SameCardinality DEF AlarmInv, Alarm!SlotsBalance
<1>4. SUFFICES /\ pc' \in [Alarm!Alarms -> {"none", "sleep"}]
               /\ main' \in {"input", "trywait", "create", "returned", "exit"}
               /\ semaphore' \in Nat
               /\ Cardinality(Sleeping') <= FS_NUM
               /\ main' \notin {"returned", "exit"} =>
                     semaphore' + Cardinality(Sleeping') + (IF main' = "create" THEN 1 ELSE 0)
                        = FS_NUM
  BY SameCardinality DEF AlarmInv, Alarm!SlotsBalance, Alarm!Alarms
<1>5. CASE UNCHANGED pc
  <2>1. Sleeping' = Sleeping
    BY <1>5
  <2> HIDE DEF Sleeping
  <2>2. CASE Alarm!Interrupt
    BY <1>1, <1>2, <1>3, <2>1, <2>2 DEF Alarm!Interrupt, AlarmInv
  <2>3. CASE Alarm!Input
    BY <1>1, <1>2, <1>3, <2>1, <2>3 DEF Alarm!Input, AlarmInv
  <2>4. CASE Alarm!TryWait
    BY <1>1, <1>2, <1>3, <2>1, <2>4 DEF Alarm!TryWait, AlarmInv
  <2>5. CASE Alarm!Return
    BY <1>1, <1>2, <1>3, <2>1, <2>5 DEF Alarm!Return, AlarmInv
  <2>6. CASE Alarm!Exit
    BY <1>1, <1>2, <1>3, <2>1, <2>6 DEF Alarm!Exit, AlarmInv
  <2>7. ASSUME NEW a \in Alarm!Alarms PROVE ~ Alarm!WakeUp(a) /\ ~ Alarm!Create
    BY <1>5 DEF Alarm!WakeUp, Alarm!Create, AlarmInv
  <2>8. 1 \in Alarm!Alarms
    BY <1>2 DEF Alarm!Alarms
  <2> QED
    BY <2>2, <2>3, <2>4, <2>5, <2>6, <2>7, <2>8 DEF Alarm!Next, Alarm!DoWork
<1>6. CASE Alarm!Create
  <2>1. PICK a \in Alarm!Alarms : pc[a] = "none" /\ pc' = [pc EXCEPT ![a] = "sleep"]
    BY <1>6 DEF Alarm!Create
  <2>2. pc' \in [Alarm!Alarms -> {"none", "sleep"}] /\ a \notin Sleeping
    BY <2>1 DEF AlarmInv
  <2>3. Sleeping' = Sleeping \cup {a}
    BY <2>1 DEF AlarmInv, Alarm!Alarms
  <2>4. Cardinality(Sleeping') = Cardinality(Sleeping) + 1
    BY <1>1, <2>2, <2>3, OneMore
  <2> HIDE DEF Sleeping
  <2> QED
    BY <1>1, <1>2, <1>3, <1>6, <2>2, <2>4 DEF Alarm!Create, AlarmInv
<1>7. CASE \E a \in Alarm!Alarms : Alarm!WakeUp(a)
  <2> PICK a \in Alarm!Alarms : Alarm!WakeUp(a)
    BY <1>7
  <2>1. pc' \in [Alarm!Alarms -> {"none", "sleep"}] /\ a \in Sleeping
    BY DEF Alarm!WakeUp, AlarmInv
  <2>2. Sleeping' = Sleeping \ {a}
    BY DEF Alarm!WakeUp, AlarmInv, Alarm!Alarms
  <2>3. Cardinality(Sleeping') = Cardinality(Sleeping) - 1
    BY <1>1, <2>1, <2>2, OneLess
  <2> HIDE DEF Sleeping
  <2> QED
    BY <1>1, <1>2, <1>3, <2>1, <2>3 DEF Alarm!WakeUp, AlarmInv
<1> QED
  BY <1>5, <1>6, <1>7
     DEF Alarm!Next, Alarm!DoWork, Alarm!Interrupt, Alarm!Input, Alarm!TryWait, Alarm!Return,
         Alarm!Exit

-----------------------------------------------------------------------------
(* SqrtTasks *)

\* The cells that are not done and the threads that have to count theirs are
\* finitely many.
LEMMA OpenFinite ==
    SqrtTypes => /\ IsFiniteSet(Sqrt!Cells \ is_done)
                 /\ IsFiniteSet(At(Sqrt!Threads, {"count"}))
                 /\ Cardinality(Sqrt!Cells \ is_done) \in Nat
                 /\ Cardinality(At(Sqrt!Threads, {"count"})) \in Nat
<1>1. /\ Sqrt!Cells \ is_done \in SUBSET (1 .. K)
      /\ At(Sqrt!Threads, {"count"}) \in SUBSET (1 .. N)
  BY DEF Sqrt!Cells, Sqrt!Threads, At
<1> QED
  BY <1>1, ThreadsFinite, FS_Subset, FS_CardinalityType

\* CellsCountedOnce in the terms of the proofs.
Counted ==
    /\ tasks_left = Cardinality(Sqrt!Cells \ is_done)
                    + Cardinality(At(Sqrt!Threads, {"count"}))
    /\ (\E t \in Sqrt!Threads : pc[t] = "done") => is_done = Sqrt!Cells

LEMMA CountedIsOnce == stage = 4 => (Sqrt!CellsCountedOnce <=> Counted)
<1>1. At(Sqrt!Threads, {"count"}) = {t \in Sqrt!Threads : pc[t] = "count"}
  BY DEF At
<1> QED
  BY <1>1, SameCardinality DEF Sqrt!CellsCountedOnce, Counted

LEMMA SqrtInit == Sqrt!Init /\ stage = 4 => SqrtInv
<1> SUFFICES ASSUME Sqrt!Arrays, stage = 4 PROVE SqrtInv
  BY DEF Sqrt!Init, Sqrt!Init3, Sqrt!Init4
<1>1. /\ N \in Nat \ {0} /\ K \in Nat \ {0}
      /\ 1 \in Sqrt!Cells /\ 1 \in Sqrt!Threads
  BY CountsAssumption DEF Sqrt!Cells, Sqrt!Threads
<1>2. SqrtTypes /\ \A t \in Sqrt!Threads : pc[t] = "check"
  BY <1>1 DEF Sqrt!Arrays, SqrtTypes, SqrtPCs, Sqrt!Free
<1>3. CellOwner /\ CellOpen
  BY <1>1, <1>2 DEF Sqrt!Arrays, CellOwner, CellOpen, Holds, Sqrt!Free, Sqrt!Threads
<1>4. At(Sqrt!Threads, {"count"}) = {} /\ Sqrt!Cells \ is_done = 1 .. K
  BY <1>2 DEF At, Sqrt!Arrays, Sqrt!Cells
<1>5. Cardinality(At(Sqrt!Threads, {"count"})) = 0 /\ Cardinality(Sqrt!Cells \ is_done) = K
  BY <1>4, ThreadsFinite, FS_EmptySet
<1>6. Counted
  BY <1>1, <1>2, <1>5 DEF Counted, Sqrt!Arrays
<1> QED
  BY <1>2, <1>3, <1>6, CountedIsOnce DEF SqrtInv

\* A thread gets a cell by locking it and keeps it until it unlocks it.
LEMMA SqrtOwner ==
    ASSUME SqrtTypes, CellOwner, stage = 4, Sqrt!Next
    PROVE  SqrtTypes' /\ CellOwner'
<1> USE DEF SqrtTypes, SqrtPCs, CellOwner, Holds, Sqrt!Goto, Sqrt!Cells, Sqrt!Threads
<1>1. ASSUME NEW t \in Sqrt!Threads, Sqrt!CheckLeft(t) PROVE SqrtTypes' /\ CellOwner'
  BY <1>1 DEF Sqrt!CheckLeft
<1>2. ASSUME NEW t \in Sqrt!Threads, Sqrt!Pick(t) PROVE SqrtTypes' /\ CellOwner'
  BY <1>2 DEF Sqrt!Pick
<1>3. ASSUME NEW t \in Sqrt!Threads, Sqrt!Lock(t) PROVE SqrtTypes' /\ CellOwner'
  BY <1>3 DEF Sqrt!Lock, Sqrt!Free
<1>4. ASSUME NEW t \in Sqrt!Threads, Sqrt!Work(t) PROVE SqrtTypes' /\ CellOwner'
  <2>1. SqrtTypes'
    <3>1. index[t] \in Sqrt!Cells /\ is_done' = is_done \cup {index[t]}
      BY <1>4 DEF Sqrt!Work
    <3>2. is_done' \in SUBSET Sqrt!Cells
      BY <3>1
    <3>3. pc' \in [Sqrt!Threads -> SqrtPCs] /\ UNCHANGED <<index, mx_cells>>
      BY <1>4 DEF Sqrt!Work
    <3> QED
      BY <3>2, <3>3
  <2>2. \A u \in Sqrt!Threads : pc'[u] \in Holds <=> pc[u] \in Holds
    BY <1>4 DEF Sqrt!Work
  <2>3. UNCHANGED <<index, mx_cells>>
    BY <1>4 DEF Sqrt!Work
  <2> QED
    BY <2>1, <2>2, <2>3
<1>5. ASSUME NEW t \in Sqrt!Threads, Sqrt!CountDown(t) PROVE SqrtTypes' /\ CellOwner'
  BY <1>5 DEF Sqrt!CountDown
<1>6. ASSUME NEW t \in Sqrt!Threads, Sqrt!Unlock(t) PROVE SqrtTypes' /\ CellOwner'
  <2>1. SqrtTypes'
    BY <1>6, CountsAssumption DEF Sqrt!Unlock, Sqrt!Free
  <2>2. ASSUME NEW u \in Sqrt!Threads, NEW c \in Sqrt!Cells
        PROVE  mx_cells'[c] = u <=> mx_cells[c] = u /\ u # t
    BY <1>6 DEF Sqrt!Unlock, Sqrt!Free
  <2>3. ASSUME NEW u \in Sqrt!Threads
        PROVE  pc'[u] \in Holds <=> pc[u] \in Holds /\ u # t
    BY <1>6 DEF Sqrt!Unlock
  <2>4. UNCHANGED index
    BY <1>6 DEF Sqrt!Unlock
  <2> QED
    BY <2>1, <2>2, <2>3, <2>4
<1>7. CASE Sqrt!PrintArrays
  BY <1>7 DEF Sqrt!PrintArrays
<1> QED
  BY <1>1, <1>2, <1>3, <1>4, <1>5, <1>6, <1>7
     DEF Sqrt!Next, Sqrt!Main, Sqrt!Join3, Sqrt!Join4, Sqrt!Step, Sqrt!Thread3, Sqrt!Thread4

\* Nobody else completes the cell of a thread that works on it.
LEMMA SqrtOpen ==
    ASSUME SqrtTypes, CellOwner, CellOpen, stage = 4, Sqrt!Next
    PROVE  CellOpen'
<1> USE DEF SqrtTypes, SqrtPCs, CellOpen, Sqrt!Goto
<1>1. ASSUME NEW t \in Sqrt!Threads, Sqrt!CheckLeft(t) PROVE CellOpen'
  BY <1>1 DEF Sqrt!CheckLeft
<1>2. ASSUME NEW t \in Sqrt!Threads, Sqrt!Pick(t) PROVE CellOpen'
  BY <1>2 DEF Sqrt!Pick
<1>3. ASSUME NEW t \in Sqrt!Threads, Sqrt!Lock(t) PROVE CellOpen'
  BY <1>3 DEF Sqrt!Lock
<1>4. ASSUME NEW t \in Sqrt!Threads, Sqrt!Work(t) PROVE CellOpen'
  <2> SUFFICES ASSUME NEW u \in Sqrt!Threads, pc'[u] = "work" PROVE index'[u] \notin is_done'
    OBVIOUS
  <2>1. u # t /\ pc[u] = "work" /\ pc[t] = "work"
    BY <1>4 DEF Sqrt!Work
  <2>2. mx_cells[index[t]] = t /\ mx_cells[index[u]] = u
    BY <2>1 DEF CellOwner, Holds
  <2>3. index[u] # index[t]
    BY <2>1, <2>2
  <2> QED
    BY <1>4, <2>1, <2>3 DEF Sqrt!Work
<1>5. ASSUME NEW t \in Sqrt!Threads, Sqrt!CountDown(t) PROVE CellOpen'
  BY <1>5 DEF Sqrt!CountDown
<1>6. ASSUME NEW t \in Sqrt!Threads, Sqrt!Unlock(t) PROVE CellOpen'
  BY <1>6 DEF Sqrt!Unlock
<1>7. CASE Sqrt!PrintArrays
  BY <1>7 DEF Sqrt!PrintArrays
<1> QED
  BY <1>1, <1>2, <1>3, <1>4, <1>5, <1>6, <1>7
     DEF Sqrt!Next, Sqrt!Main, Sqrt!Join3, Sqrt!Join4, Sqrt!Step, Sqrt!Thread3, Sqrt!Thread4

\* A cell that is completed becomes a thread that counts, which becomes one less
\* in tasks_left; a thread ends when there is neither.
LEMMA SqrtCounted ==
    ASSUME SqrtTypes, CellOpen, Counted, stage = 4, Sqrt!Next
    PROVE  Counted'
<1> DEFINE Open == Sqrt!Cells \ is_done
           Counting == At(Sqrt!Threads, {"count"})
<1>1. /\ IsFiniteSet(Open) /\ Cardinality(Open) \in Nat
      /\ IsFiniteSet(Counting) /\ Cardinality(Counting) \in Nat
  BY OpenFinite
<1>2. tasks_left = Cardinality(Open) + Cardinality(Counting)
  BY DEF Counted
<1> USE DEF SqrtTypes, SqrtPCs, Sqrt!Goto
<1>3. ASSUME UNCHANGED <<is_done, tasks_left>>,
             NEW t \in Sqrt!Threads, NEW l, pc' = [pc EXCEPT ![t] = l],
             pc[t] # "count", l # "count", l = "done" => is_done = Sqrt!Cells
      PROVE  Counted'
  <2>1. Open' = Open /\ Counting' = Counting
    BY <1>3 DEF At, Sqrt!Cells, Sqrt!Threads
  <2>2. (\E u \in Sqrt!Threads : pc'[u] = "done") => is_done = Sqrt!Cells
    BY <1>3 DEF Counted
  <2> QED
    BY <1>2, <1>3, <2>1, <2>2 DEF Counted, Sqrt!Cells, Sqrt!Threads
<1>4. ASSUME NEW t \in Sqrt!Threads, Sqrt!CheckLeft(t) PROVE Counted'
  <2>1. tasks_left <= 0 => Open = {}
    BY <1>1, <1>2, FS_EmptySet
  <2>2. tasks_left <= 0 => is_done = Sqrt!Cells
    BY <2>1
  <2> QED
    BY <1>3, <1>4, <2>2 DEF Sqrt!CheckLeft
<1>5. ASSUME NEW t \in Sqrt!Threads, Sqrt!Pick(t) PROVE Counted'
  BY <1>3, <1>5 DEF Sqrt!Pick
<1>6. ASSUME NEW t \in Sqrt!Threads, Sqrt!Lock(t) PROVE Counted'
  BY <1>3, <1>6 DEF Sqrt!Lock
<1>7. ASSUME NEW t \in Sqrt!Threads, Sqrt!Work(t) PROVE Counted'
  <2>1. index[t] \in Open /\ t \notin Counting
    BY <1>7 DEF Sqrt!Work, CellOpen, At
  <2>2. Open' = Open \ {index[t]} /\ Counting' = Counting \cup {t}
    BY <1>7 DEF Sqrt!Work, At, Sqrt!Cells, Sqrt!Threads
  <2>3. /\ Cardinality(Open') = Cardinality(Open) - 1
        /\ Cardinality(Counting') = Cardinality(Counting) + 1
    BY <1>1, <2>1, <2>2, OneMore, OneLess
  <2>4. ~ \E u \in Sqrt!Threads : pc'[u] = "done"
    BY <1>7, <2>1 DEF Sqrt!Work, Counted
  <2>5. tasks_left' = tasks_left
    BY <1>7 DEF Sqrt!Work
  <2> HIDE DEF Open, Counting
  <2>6. tasks_left' = Cardinality(Open') + Cardinality(Counting')
    BY <1>1, <1>2, <2>3, <2>5
  <2> QED
    BY <2>4, <2>6 DEF Counted, Open, Counting, Sqrt!Threads
<1>8. ASSUME NEW t \in Sqrt!Threads, Sqrt!CountDown(t) PROVE Counted'
  <2>1. t \in Counting
    BY <1>8 DEF Sqrt!CountDown, At
  <2>2. Open' = Open /\ Counting' = Counting \ {t}
    BY <1>8 DEF Sqrt!CountDown, At, Sqrt!Cells, Sqrt!Threads
  <2>3. Cardinality(Counting') = Cardinality(Counting) - 1
    BY <1>1, <2>1, <2>2, OneLess
  <2>4. (\E u \in Sqrt!Threads : pc'[u] = "done") => is_done' = Sqrt!Cells
    BY <1>8 DEF Sqrt!CountDown, Counted
  <2>5. tasks_left' = tasks_left - 1
    BY <1>8 DEF Sqrt!CountDown
  <2> HIDE DEF Open, Counting
  <2>6. tasks_left' = Cardinality(Open') + Cardinality(Counting')
    BY <1>1, <1>2, <2>2, <2>3, <2>5
  <2> QED
    BY <2>4, <2>6 DEF Counted, Open, Counting, Sqrt!Threads, Sqrt!Cells
<1>9. ASSUME NEW t \in Sqrt!Threads, Sqrt!Unlock(t) PROVE Counted'
  BY <1>3, <1>9 DEF Sqrt!Unlock
<1>10. CASE Sqrt!PrintArrays
  BY <1>10 DEF Sqrt!PrintArrays, Counted, At, Sqrt!Cells, Sqrt!Threads
<1> QED
  BY <1>4, <1>5, <1>6, <1>7, <1>8, <1>9, <1>10
     DEF Sqrt!Next, Sqrt!Main, Sqrt!Join3, Sqrt!Join4, Sqrt!Step, Sqrt!Thread3, Sqrt!Thread4

LEMMA SqrtNext == SqrtInv /\ stage = 4 /\ Sqrt!Next => SqrtInv' /\ stage' = stage
<1> SUFFICES ASSUME SqrtInv, stage = 4, Sqrt!Next PROVE SqrtInv' /\ stage' = stage
  OBVIOUS
<1>1. SqrtTypes /\ CellOwner /\ CellOpen /\ Counted
  BY CountedIsOnce DEF SqrtInv
<1>2. stage' = stage
  BY DEF Sqrt!Next, Sqrt!Main, Sqrt!Join3, Sqrt!Join4, Sqrt!Step, Sqrt!Thread3, Sqrt!Thread4,
         Sqrt!PrintArrays, Sqrt!CheckLeft, Sqrt!Pick, Sqrt!Lock, Sqrt!Work, Sqrt!CountDown,
         Sqrt!Unlock
<1>3. SqrtTypes' /\ CellOwner' /\ CellOpen' /\ Counted'
  BY <1>1, SqrtOwner, SqrtOpen, SqrtCounted
<1>4. At(Sqrt!Threads, {"count"})' = {t \in Sqrt!Threads : pc'[t] = "count"}
  BY DEF At, Sqrt!Threads
<1>5. Sqrt!CellsCountedOnce'
  BY <1>3, <1>4, SameCardinality DEF Sqrt!CellsCountedOnce, Counted, Sqrt!Threads, Sqrt!Cells
<1> QED
  BY <1>2, <1>3, <1>5 DEF SqrtInv

-----------------------------------------------------------------------------
(* Barriers *)

\* Those that wait at a barrier are finitely many.
LEMMA WaitersFinite ==
    ASSUME NEW L PROVE IsFiniteSet(At(1 .. N, L)) /\ Cardinality(At(1 .. N, L)) \in Nat
<1>1. At(1 .. N, L) \in SUBSET (1 .. N)
  BY DEF At
<1> QED
  BY <1>1, ThreadsFinite, FS_Subset, FS_CardinalityType

\* One thread more waits.
LEMMA OneMoreWaits ==
    ASSUME NEW P, pc \in [1 .. N -> P], NEW t \in 1 .. N, NEW l, pc[t] # l,
           pc' = [pc EXCEPT ![t] = l]
    PROVE  Cardinality(At(1 .. N, {l})') = Cardinality(At(1 .. N, {l})) + 1
<1>1. At(1 .. N, {l})' = At(1 .. N, {l}) \cup {t} /\ t \notin At(1 .. N, {l})
  BY DEF At
<1> QED
  BY <1>1, WaitersFinite, OneMore

\* A thread that neither waited nor waits then changes nothing.
LEMMA SameWait ==
    ASSUME NEW P, pc \in [1 .. N -> P], NEW t \in 1 .. N, NEW l, NEW k, pc[t] # l, k # l,
           pc' = [pc EXCEPT ![t] = k]
    PROVE  At(1 .. N, {l})' = At(1 .. N, {l})
BY DEF At

\* Who comes last finds all others waiting: a barrier releases nobody else.
LEMMA LastFindsAll ==
    ASSUME NEW t \in 1 .. N, NEW l, pc[t] # l,
           arrived = Cardinality(At(1 .. N, {l})), ~ arrived < N - 1
    PROVE  \A u \in 1 .. N : u # t => pc[u] = l
<1>1. At(1 .. N, {l}) = (1 .. N) \ {t}
  <2>1. N \in Nat
    BY CountsAssumption
  <2>2. At(1 .. N, {l}) \in SUBSET (1 .. N) /\ t \notin At(1 .. N, {l})
    BY DEF At
  <2> QED
    BY <2>1, <2>2, AllOthers
<1> QED
  BY <1>1 DEF At

\* Nobody waits when nobody is there.
LEMMA NobodyWaits ==
    ASSUME NEW l, \A t \in 1 .. N : pc[t] # l
    PROVE  Cardinality(At(1 .. N, {l})) = 0
<1>1. At(1 .. N, {l}) = {}
  BY DEF At
<1> QED
  BY <1>1, FS_EmptySet

-----------------------------------------------------------------------------
(* Dice *)

LEMMA DiceInit == Dice!Init => DiceInv
<1> SUFFICES ASSUME Dice!Init PROVE DiceInv
  OBVIOUS
<1>1. \A t \in 1 .. N : pc[t] # "at1"
  BY DEF Dice!Init, Dice!Players
<1>2. Cardinality(At(1 .. N, {"at1"})) = 0
  BY <1>1, NobodyWaits
<1> QED
  BY <1>2 DEF Dice!Init, DiceInv, Dice!Players

\* All players leave a barrier together, all waiters and the one that came last.
LEMMA DiceNext == DiceInv /\ Dice!Next => DiceInv'
<1> SUFFICES ASSUME DiceInv, Dice!Next PROVE DiceInv'
  OBVIOUS
<1> USE DEF Dice!Players
<1>0. /\ arrived \in Nat /\ round \in [1 .. N -> Nat]
      /\ \A p, q \in 1 .. N : round[p] = round[q]
  BY DEF DiceInv
<1>1. ASSUME NEW p \in 1 .. N, Dice!Roll(p) PROVE DiceInv'
  <2>1. pc \in [1 .. N -> {"roll", "barrier1", "at1"}] /\ arrived = Cardinality(At(1 .. N, {"at1"}))
    BY <1>1 DEF DiceInv, Dice!Roll
  <2>2. At(1 .. N, {"at1"})' = At(1 .. N, {"at1"})
    BY <1>1, <2>1, SameWait DEF Dice!Roll
  <2> QED
    BY <1>0, <1>1, <2>1, <2>2 DEF DiceInv, Dice!Roll
<1>2. ASSUME NEW p \in 1 .. N, Dice!Barrier1(p) PROVE DiceInv'
  <2>1. pc \in [1 .. N -> {"roll", "barrier1", "at1"}] /\ arrived = Cardinality(At(1 .. N, {"at1"}))
    BY <1>2 DEF DiceInv, Dice!Barrier1
  <2>2. CASE arrived < N - 1
    <3>1. arrived' = arrived + 1 /\ pc' = [pc EXCEPT ![p] = "at1"] /\ pc[p] # "at1"
      BY <1>2, <2>2 DEF Dice!Barrier1
    <3>2. arrived' = Cardinality(At(1 .. N, {"at1"})')
      BY <2>1, <3>1, OneMoreWaits
    <3> QED
      BY <1>0, <1>2, <2>1, <3>1, <3>2 DEF DiceInv, Dice!Barrier1
  <2>3. CASE ~ arrived < N - 1
    <3>1. /\ arrived' = 0 /\ UNCHANGED round
          /\ pc' \in [1 .. N -> {"assign", "barrier2", "at2"}]
          /\ \A q \in 1 .. N : pc'[q] # "at2"
      BY <1>2, <2>3 DEF Dice!Barrier1
    <3>2. At(1 .. N, {"at2"})' = {}
      BY <3>1 DEF At
    <3> QED
      BY <1>0, <3>1, <3>2, FS_EmptySet DEF DiceInv
  <2> QED
    BY <2>2, <2>3
<1>3. ASSUME NEW p \in 1 .. N, Dice!Assign(p) PROVE DiceInv'
  <2>1. pc \in [1 .. N -> {"assign", "barrier2", "at2"}] /\ arrived = Cardinality(At(1 .. N, {"at2"}))
    BY <1>3 DEF DiceInv, Dice!Assign
  <2>2. At(1 .. N, {"at2"})' = At(1 .. N, {"at2"})
    BY <1>3, <2>1, SameWait DEF Dice!Assign
  <2> QED
    BY <1>0, <1>3, <2>1, <2>2 DEF DiceInv, Dice!Assign
<1>4. ASSUME NEW p \in 1 .. N, Dice!Barrier2(p) PROVE DiceInv'
  <2>1. pc \in [1 .. N -> {"assign", "barrier2", "at2"}] /\ arrived = Cardinality(At(1 .. N, {"at2"}))
    BY <1>4 DEF DiceInv, Dice!Barrier2
  <2>2. CASE arrived < N - 1
    <3>1. /\ arrived' = arrived + 1 /\ pc' = [pc EXCEPT ![p] = "at2"] /\ pc[p] # "at2"
          /\ UNCHANGED round
      BY <1>4, <2>2 DEF Dice!Barrier2
    <3>2. arrived' = Cardinality(At(1 .. N, {"at2"})')
      BY <2>1, <3>1, OneMoreWaits
    <3> QED
      BY <1>0, <2>1, <3>1, <3>2 DEF DiceInv
  <2>3. CASE ~ arrived < N - 1
    <3>1. /\ arrived' = 0
          /\ round' = [q \in 1 .. N |-> round[q] + 1]
          /\ pc' = [q \in 1 .. N |-> Dice!AfterRound(round'[q])]
      BY <1>4, <2>3 DEF Dice!Barrier2
    <3>2. round' \in [1 .. N -> Nat] /\ \A q, r \in 1 .. N : round'[q] = round'[r]
      BY <1>0, <3>1
    <3>3. \/ pc' \in [1 .. N -> {"done"}]
          \/ pc' = [q \in 1 .. N |-> "roll"]
      BY <3>1, <3>2 DEF Dice!AfterRound
    <3>4. CASE pc' = [q \in 1 .. N |-> "roll"]
      <4>1. At(1 .. N, {"at1"})' = {} /\ pc' \in [1 .. N -> {"roll", "barrier1", "at1"}]
        BY <3>4 DEF At
      <4>2. arrived' = Cardinality(At(1 .. N, {"at1"})')
        BY <3>1, <4>1, FS_EmptySet
      <4> QED
        BY <3>1, <3>2, <4>1, <4>2 DEF DiceInv
    <3>5. CASE pc' \in [1 .. N -> {"done"}]
      BY <3>1, <3>2, <3>5 DEF DiceInv
    <3> QED
      BY <3>3, <3>4, <3>5
  <2> QED
    BY <2>2, <2>3
<1>5. CASE Dice!PrintScores
  BY <1>5 DEF Dice!PrintScores, DiceInv, At
<1> QED
  BY <1>1, <1>2, <1>3, <1>4, <1>5 DEF Dice!Next, Dice!Step

\* The model lets everybody go on when the last player comes to a barrier: all
\* others do wait at that barrier then.
LEMMA DiceBarriers ==
    ASSUME DiceInv, NEW p \in Dice!Players, ~ arrived < N - 1
    PROVE  /\ Dice!Barrier1(p) => \A q \in Dice!Players : q # p => pc[q] = "at1"
           /\ Dice!Barrier2(p) => \A q \in Dice!Players : q # p => pc[q] = "at2"
<1>1. pc[p] = "barrier1" => arrived = Cardinality(At(1 .. N, {"at1"}))
  BY DEF DiceInv, Dice!Players
<1>2. pc[p] = "barrier2" => arrived = Cardinality(At(1 .. N, {"at2"}))
  BY DEF DiceInv, Dice!Players
<1> QED
  BY <1>1, <1>2, LastFindsAll DEF Dice!Barrier1, Dice!Barrier2, Dice!Players

\* A player gives the points while all others are behind the first barrier and
\* before the second.
LEMMA DiceOneRound == DiceInv => Dice!RollsOfOneRound
BY DEF DiceInv, Dice!RollsOfOneRound, Dice!Players

-----------------------------------------------------------------------------
(* Readers *)

\* ReadsWereRequested in the terms of the proofs.
IdleCounted == idlethreads = Cardinality(At(Reader!Threads, ReaderPCs \ {"lock", "read"}))

LEMMA RequestedIs ==
    ReaderTypes => (Reader!ReadsWereRequested <=> IdleCounted /\ reads + condition <= requests)
<1> SUFFICES ASSUME ReaderTypes
             PROVE  Reader!ReadsWereRequested <=> IdleCounted /\ reads + condition <= requests
  OBVIOUS
<1>1. At(Reader!Threads, ReaderPCs \ {"lock", "read"})
         = {t \in Reader!Threads : pc[t] \notin {"lock", "read"}}
  BY DEF At, ReaderTypes
<1> QED
  BY <1>1, SameCardinality DEF Reader!ReadsWereRequested, IdleCounted

LEMMA ReaderInit == Reader!Init => ReaderInv
<1> SUFFICES ASSUME Reader!Init PROVE ReaderInv
  OBVIOUS
<1>1. ReaderTypes /\ MutexOwner /\ RequestThere
  BY CountsAssumption
     DEF Reader!Init, ReaderTypes, ReaderPCs, MutexOwner, RequestThere, Reader!Free, Reader!DoWork,
         Reader!Threads
<1>2. At(Reader!Threads, ReaderPCs \ {"lock", "read"}) = {}
  BY DEF At, Reader!Init, ReaderPCs
<1>3. IdleCounted
  BY <1>2, FS_EmptySet DEF IdleCounted, Reader!Init
<1>4. reads + condition <= requests
  BY DEF Reader!Init
<1> QED
  BY <1>1, <1>3, <1>4, RequestedIs DEF ReaderInv

\* Only the owner of the mutex tests, enters the wait and takes requests, and a
\* request that was seen under the mutex is not taken by anybody else.
LEMMA ReaderOwner ==
    ASSUME ReaderTypes, MutexOwner, RequestThere, Reader!Next
    PROVE  ReaderTypes' /\ MutexOwner' /\ RequestThere'
<1> DEFINE Goal == ReaderTypes' /\ MutexOwner' /\ RequestThere'
<1> USE DEF ReaderTypes, ReaderPCs, MutexOwner, RequestThere, Reader!Goto, Reader!Free,
            Reader!DoWork, Reader!Threads
<1>0. N \in Nat
  BY CountsAssumption
<1>1. ASSUME NEW t \in Reader!Threads, Reader!Idle(t) PROVE Goal
  BY <1>0, <1>1 DEF Reader!Idle
<1>2. ASSUME NEW t \in Reader!Threads, Reader!Test(t) PROVE Goal
  BY <1>0, <1>2 DEF Reader!Test
<1>3. ASSUME NEW t \in Reader!Threads, Reader!Wait(t) PROVE Goal
  BY <1>0, <1>3 DEF Reader!Wait
<1>4. ASSUME NEW t \in Reader!Threads, Reader!Spurious(t) PROVE Goal
  BY <1>0, <1>4 DEF Reader!Spurious
<1>5. ASSUME NEW t \in Reader!Threads, Reader!Relock(t) PROVE Goal
  BY <1>0, <1>5 DEF Reader!Relock
<1>6. ASSUME NEW t \in Reader!Threads, Reader!TakeRequest(t) PROVE Goal
  BY <1>0, <1>6 DEF Reader!TakeRequest, Reader!ClearCondition
<1>7. ASSUME NEW t \in Reader!Threads, Reader!ReadDone(t) PROVE Goal
  BY <1>0, <1>7 DEF Reader!ReadDone
<1>8. CASE Reader!Request
  BY <1>0, <1>8 DEF Reader!Request
<1>9. CASE Reader!UnlockPool
  BY <1>0, <1>9 DEF Reader!UnlockPool
<1>10. CASE Reader!SetCondition
  BY <1>0, <1>10 DEF Reader!SetCondition
<1>11. CASE Reader!Signal
  BY <1>0, <1>11 DEF Reader!Signal, Reader!Asleep
<1>12. CASE Reader!Broadcast
  BY <1>0, <1>12 DEF Reader!Broadcast, Reader!Asleep
<1>13. CASE Reader!Join
  BY <1>0, <1>13 DEF Reader!Join
<1>14. CASE Reader!Interrupt
  BY <1>0, <1>14 DEF Reader!Interrupt
<1>15. CASE Reader!TestWork \/ Reader!Interrupted
  BY <1>0, <1>15 DEF Reader!TestWork, Reader!Interrupted
<1> QED
  BY <1>1, <1>2, <1>3, <1>4, <1>5, <1>6, <1>7, <1>8, <1>9, <1>10, <1>11, <1>12, <1>13, <1>14, <1>15
     DEF Reader!Next, Reader!MainStep, Reader!Step

\* Who takes a request takes one that was made.
LEMMA ReaderRequests ==
    ASSUME ReaderTypes, RequestThere, reads + condition <= requests, Reader!Next
    PROVE  reads' + condition' <= requests'
<1> USE DEF ReaderTypes
<1>1. ASSUME NEW t \in Reader!Threads, Reader!TakeRequest(t) PROVE reads' + condition' <= requests'
  BY <1>1 DEF Reader!TakeRequest, Reader!ClearCondition, RequestThere
<1>2. CASE Reader!SetCondition
  BY <1>2 DEF Reader!SetCondition
<1>3. CASE UNCHANGED <<reads, condition, requests>>
  BY <1>3
<1> QED
  BY <1>1, <1>2, <1>3
     DEF Reader!Next, Reader!MainStep, Reader!Step, Reader!Idle, Reader!Test, Reader!Wait,
         Reader!Spurious, Reader!Relock, Reader!ReadDone, Reader!TestWork, Reader!Interrupted,
         Reader!Request, Reader!UnlockPool, Reader!Signal, Reader!Broadcast, Reader!Join, Reader!Interrupt

\* idlethreads counts the readers that are neither at work nor on their way back.
LEMMA ReaderIdle ==
    ASSUME ReaderTypes, IdleCounted, Reader!Next
    PROVE  IdleCounted'
<1> DEFINE IdlePCs == ReaderPCs \ {"lock", "read"}
           Idlers == At(Reader!Threads, IdlePCs)
<1>1. IsFiniteSet(Idlers) /\ Cardinality(Idlers) \in Nat
  BY WaitersFinite DEF Reader!Threads
<1>2. ASSUME NEW t \in Reader!Threads, Reader!Idle(t) PROVE IdleCounted'
  <2>1. Idlers' = Idlers \cup {t} /\ t \notin Idlers
    BY <1>2 DEF Reader!Idle, Reader!Goto, At, ReaderPCs, ReaderTypes, Reader!Threads
  <2>2. Cardinality(Idlers') = Cardinality(Idlers) + 1
    BY <1>1, <2>1, OneMore
  <2> QED
    BY <1>2, <2>2 DEF Reader!Idle, IdleCounted, Reader!Threads, ReaderPCs
<1>3. ASSUME NEW t \in Reader!Threads, Reader!TakeRequest(t), work # 0 PROVE IdleCounted'
  <2>1. Idlers' = Idlers \ {t} /\ t \in Idlers
    BY <1>3 DEF Reader!TakeRequest, Reader!Goto, At, ReaderPCs, ReaderTypes, Reader!Threads
  <2>2. Cardinality(Idlers') = Cardinality(Idlers) - 1
    BY <1>1, <2>1, OneLess
  <2> QED
    BY <1>3, <2>2 DEF Reader!TakeRequest, IdleCounted, Reader!Threads, ReaderPCs
<1>4. ASSUME UNCHANGED idlethreads,
             \A t \in Reader!Threads : pc'[t] \in IdlePCs <=> pc[t] \in IdlePCs
      PROVE  IdleCounted'
  <2>1. Idlers' = Idlers
    BY <1>4 DEF At, Reader!Threads, ReaderPCs
  <2> QED
    BY <1>4, <2>1 DEF IdleCounted, Reader!Threads, ReaderPCs
<1> USE DEF ReaderTypes, ReaderPCs, Reader!Goto
<1>5. ASSUME NEW t \in Reader!Threads, Reader!TakeRequest(t), work = 0 PROVE IdleCounted'
  BY <1>4, <1>5 DEF Reader!TakeRequest
<1>6. ASSUME NEW t \in Reader!Threads, Reader!Test(t) PROVE IdleCounted'
  BY <1>4, <1>6 DEF Reader!Test
<1>7. ASSUME NEW t \in Reader!Threads, Reader!Wait(t) PROVE IdleCounted'
  BY <1>4, <1>7 DEF Reader!Wait
<1>8. ASSUME NEW t \in Reader!Threads, Reader!Spurious(t) PROVE IdleCounted'
  BY <1>4, <1>8 DEF Reader!Spurious
<1>9. ASSUME NEW t \in Reader!Threads, Reader!Relock(t) PROVE IdleCounted'
  BY <1>4, <1>9 DEF Reader!Relock
<1>10. ASSUME NEW t \in Reader!Threads, Reader!ReadDone(t) PROVE IdleCounted'
  BY <1>4, <1>10 DEF Reader!ReadDone
<1>11. CASE Reader!Signal
  BY <1>4, <1>11 DEF Reader!Signal, Reader!Asleep
<1>12. CASE Reader!Broadcast
  BY <1>4, <1>12 DEF Reader!Broadcast, Reader!Asleep
<1>13. CASE UNCHANGED <<pc, idlethreads>>
  BY <1>4, <1>13
<1> QED
  BY <1>2, <1>3, <1>5, <1>6, <1>7, <1>8, <1>9, <1>10, <1>11, <1>12, <1>13
     DEF Reader!Next, Reader!MainStep, Reader!Step, Reader!TestWork, Reader!Interrupted,
         Reader!Request, Reader!UnlockPool, Reader!SetCondition, Reader!Join, Reader!Interrupt

LEMMA ReaderNext == ReaderInv /\ Reader!Next => ReaderInv'
<1> SUFFICES ASSUME ReaderInv, Reader!Next PROVE ReaderInv'
  OBVIOUS
<1>1. ReaderTypes /\ MutexOwner /\ RequestThere /\ IdleCounted /\ reads + condition <= requests
  BY RequestedIs DEF ReaderInv
<1>2. /\ ReaderTypes' /\ MutexOwner' /\ RequestThere' /\ IdleCounted'
      /\ reads' + condition' <= requests'
  BY <1>1, ReaderOwner, ReaderRequests, ReaderIdle
<1>3. At(Reader!Threads, ReaderPCs \ {"lock", "read"})'
         = {t \in Reader!Threads : pc'[t] \notin {"lock", "read"}}
  BY <1>2 DEF At, ReaderTypes, Reader!Threads, ReaderPCs
<1>4. Reader!ReadsWereRequested'
  BY <1>2, <1>3, SameCardinality DEF Reader!ReadsWereRequested, IdleCounted, Reader!Threads, ReaderPCs
<1> QED
  BY <1>2, <1>4 DEF ReaderInv

-----------------------------------------------------------------------------
(* CsvChunks: the lists *)

\* Naturals are well-founded.
LEMMA Smallest == ASSUME NEW T, T \subseteq Nat, T # {} PROVE \E x \in T : \A y \in T : x <= y
<1>1. PICK x \in T : \A y \in T : ~ (<<y, x>> \in OpToRel(<, Nat))
  BY WFMin, NatLessThanWellFounded
<1>2. \A y \in T : ~ (y < x)
  BY <1>1 DEF OpToRel
<1> QED
  BY <1>2

\* q lists the set S: every element once.
Lists(q, S) ==
    /\ q \in Seq(S)
    /\ \A j, k \in 1 .. Len(q) : q[j] = q[k] => j = k
    /\ \A x \in S : \E k \in 1 .. Len(q) : q[k] = x

\* A finite set of numbers has a list from the largest to the smallest: each goes
\* where the count of those that are not smaller says.
LEMMA DescendingExists ==
    ASSUME NEW S \in SUBSET Nat, IsFiniteSet(S), NEW n, n = Cardinality(S)
    PROVE  \E q \in [1 .. n -> S] : \A j, k \in 1 .. n : j < k => q[j] > q[k]
<1> DEFINE Above(s) == {r \in S : r >= s}
           rank == [s \in S |-> Cardinality(Above(s))]
<1>1. n \in Nat /\ IsFiniteSet(1 .. n) /\ Cardinality(1 .. n) = n
  BY FS_Interval, FS_CardinalityType
<1>2. ASSUME NEW s \in S
      PROVE  IsFiniteSet(Above(s)) /\ Cardinality(Above(s)) \in 1 .. n
  <2>1. Above(s) \in SUBSET S /\ s \in Above(s)
    OBVIOUS
  <2> HIDE DEF Above
  <2>2. IsFiniteSet(Above(s)) /\ Cardinality(Above(s)) <= n /\ Cardinality(Above(s)) \in Nat
    BY <2>1, FS_Subset, FS_CardinalityType
  <2>3. Cardinality(Above(s)) # 0
    BY <2>1, <2>2, FS_EmptySet
  <2> QED
    BY <1>1, <2>2, <2>3
<1>3. ASSUME NEW r \in S, NEW s \in S, r > s PROVE rank[r] < rank[s]
  <2>0. \A x, y, z \in S : x > y => (z >= x => z >= y) /\ y >= y /\ ~ y >= x
    OBVIOUS
  <2>1. Above(r) \in SUBSET Above(s) /\ s \in Above(s) /\ s \notin Above(r)
    BY <1>3, <2>0
  <2> HIDE DEF Above
  <2>2. /\ Cardinality(Above(r)) <= Cardinality(Above(s))
        /\ Cardinality(Above(r)) # Cardinality(Above(s))
    BY <1>2, <2>1, FS_Subset
  <2>3. Cardinality(Above(r)) \in Nat /\ Cardinality(Above(s)) \in Nat
    BY <1>1, <1>2
  <2> QED
    BY <2>2, <2>3
<1>4. rank \in [S -> 1 .. n]
  BY <1>2
<1> HIDE DEF rank, Above
<1>5. \A r, s \in S : rank[r] = rank[s] => r = s
  <2> SUFFICES ASSUME NEW r \in S, NEW s \in S, r # s PROVE rank[r] # rank[s]
    OBVIOUS
  <2>1. r > s \/ s > r
    OBVIOUS
  <2>2. rank[r] < rank[s] \/ rank[s] < rank[r]
    BY <1>3, <2>1
  <2>3. rank[r] \in Nat /\ rank[s] \in Nat
    BY <1>1, <1>4
  <2> QED
    BY <2>2, <2>3
<1>6. rank \in Surjection(S, 1 .. n)
  <2>1. rank \in Injection(S, 1 .. n)
    BY <1>4, <1>5 DEF Injection, IsInjective
  <2> QED
    BY <1>1, <2>1, FS_Injection
<1> DEFINE q == [i \in 1 .. n |-> CHOOSE s \in S : rank[s] = i]
<1>7. \A i \in 1 .. n : q[i] \in S /\ rank[q[i]] = i
  BY <1>6 DEF Surjection
<1>8. q \in [1 .. n -> S]
  BY <1>7
<1> HIDE DEF q
<1>9. ASSUME NEW j \in 1 .. n, NEW k \in 1 .. n, j < k PROVE q[j] > q[k]
  <2>1. q[j] \in Nat /\ q[k] \in Nat
    BY <1>7
  <2>2. q[k] > q[j] => k < j
    BY <1>3, <1>7
  <2>3. q[j] # q[k]
    BY <1>7, <1>9
  <2> QED
    BY <1>1, <1>9, <2>1, <2>2, <2>3
<1> QED
  BY <1>8, <1>9

\* add_line, once per line: the list holds the lines of the chunk.
LEMMA ListIs ==
    ASSUME NEW S \in SUBSET Nat, IsFiniteSet(S)
    PROVE  Lists(Csv!ListOf(S), S)
<1> DEFINE n == Cardinality(S)
           q == Csv!ListOf(S)
<1>1. n \in Nat /\ IsFiniteSet(1 .. n) /\ Cardinality(1 .. n) = n
  BY FS_Interval, FS_CardinalityType
<1>2. q = CHOOSE f \in [1 .. n -> S] : \A j, k \in DOMAIN f : j < k => f[j] > f[k]
  BY SameCardinality DEF Csv!ListOf
<1>3. q \in [1 .. n -> S] /\ \A j, k \in 1 .. n : j < k => q[j] > q[k]
  BY <1>2, DescendingExists
<1> HIDE DEF q, n
<1>4. \A j, k \in 1 .. n : q[j] = q[k] => j = k
  <2> SUFFICES ASSUME NEW j \in 1 .. n, NEW k \in 1 .. n, j # k PROVE q[j] # q[k]
    OBVIOUS
  <2>0. j < k \/ k < j
    BY <1>1
  <2>1. q[j] \in Nat /\ q[k] \in Nat /\ (j < k \/ k < j)
    BY <1>3, <2>0
  <2> QED
    BY <1>3, <2>1
<1>5. \A x \in S : \E k \in 1 .. n : q[k] = x
  <2>1. q \in Injection(1 .. n, S)
    BY <1>3, <1>4 DEF Injection, IsInjective
  <2>2. q \in Surjection(1 .. n, S)
    BY <1>1, <2>1, FS_Injection DEF n
  <2> QED
    BY <2>2 DEF Surjection
<1>6. q \in Seq(S) /\ Len(q) = n
  BY <1>1, <1>3
<1> QED
  BY <1>4, <1>5, <1>6 DEF Lists, q

\* Two lists of different elements, one behind the other.
LEMMA ListsJoin ==
    ASSUME NEW A, NEW B, NEW p, NEW q, Lists(p, A), Lists(q, B), A \cap B = {}
    PROVE  Lists(p \o q, A \cup B)
<1> DEFINE r == p \o q
<1>1. p \in Seq(A) /\ q \in Seq(B)
  BY DEF Lists
<1>2. /\ r \in Seq(A \cup B) /\ Len(r) = Len(p) + Len(q) /\ Len(p) \in Nat /\ Len(q) \in Nat
      /\ \A k \in 1 .. Len(p) : r[k] = p[k] /\ p[k] \in A
      /\ \A k \in 1 .. Len(q) : r[Len(p) + k] = q[k] /\ q[k] \in B
  BY <1>1
<1> HIDE DEF r
<1>3. \A k \in 1 .. Len(r) : k \in 1 .. Len(p) \/ k - Len(p) \in 1 .. Len(q)
  BY <1>2
<1>4. ASSUME NEW j \in 1 .. Len(r), NEW k \in 1 .. Len(r), r[j] = r[k] PROVE j = k
  <2>1. CASE j \in 1 .. Len(p) /\ k \in 1 .. Len(p)
    BY <1>2, <1>4, <2>1 DEF Lists
  <2>2. CASE j - Len(p) \in 1 .. Len(q) /\ k - Len(p) \in 1 .. Len(q)
    <3>1. r[j] = q[j - Len(p)] /\ r[k] = q[k - Len(p)]
      <4>1. j = Len(p) + (j - Len(p)) /\ k = Len(p) + (k - Len(p))
        BY <1>2
      <4> QED
        BY <1>2, <2>2, <4>1
    <3>2. j - Len(p) = k - Len(p)
      BY <1>4, <2>2, <3>1 DEF Lists
    <3> QED
      BY <1>2, <3>2
  <2>3. ASSUME NEW x \in 1 .. Len(p), NEW y \in 1 .. Len(r), y - Len(p) \in 1 .. Len(q)
        PROVE  r[x] # r[y]
    <3>1. y = Len(p) + (y - Len(p))
      BY <1>2
    <3>2. r[x] \in A /\ r[y] \in B
      BY <1>2, <2>3, <3>1
    <3> QED
      BY <3>2
  <2> QED
    BY <1>3, <1>4, <2>1, <2>2, <2>3
<1>5. ASSUME NEW x \in A \cup B PROVE \E k \in 1 .. Len(r) : r[k] = x
  <2>1. CASE x \in A
    <3>1. PICK k \in 1 .. Len(p) : p[k] = x
      BY <2>1 DEF Lists
    <3> QED
      BY <1>2, <3>1
  <2>2. CASE x \in B
    <3>1. PICK k \in 1 .. Len(q) : q[k] = x
      BY <2>2 DEF Lists
    <3>2. Len(p) + k \in 1 .. Len(r) /\ r[Len(p) + k] = x
      BY <1>2, <3>1
    <3> QED
      BY <3>2
  <2> QED
    BY <2>1, <2>2
<1> QED
  BY <1>2, <1>4, <1>5 DEF Lists, r

\* FlattenSeq, which puts the parts behind one another.
UpTo(f, parts, n) ==
    f = [i \in 1 .. n |-> IF i = 1 THEN parts[i] ELSE f[i - 1] \o parts[i]]

\* The recursion has a solution: a longer one extends a shorter one.
LEMMA JoinedExists == ASSUME NEW parts, NEW n \in Nat PROVE \E f : UpTo(f, parts, n)
<1> DEFINE T == {m \in Nat : ~ \E f : UpTo(f, parts, m)}
<1> SUFFICES ASSUME T # {} PROVE FALSE
  OBVIOUS
<1>1. PICK m \in T : \A k \in T : m <= k
  BY Smallest
<1>2. CASE m = 0
  <2>1. UpTo([i \in 1 .. 0 |-> 0], parts, 0)
    BY DEF UpTo
  <2> QED
    BY <1>1, <1>2, <2>1
<1>3. CASE m # 0
  <2>1. m - 1 \in Nat /\ m - 1 \notin T
    BY <1>1, <1>3
  <2>2. PICK f : UpTo(f, parts, m - 1)
    BY <2>1
  <2> DEFINE g == [i \in 1 .. m |-> IF i = m THEN IF m = 1 THEN parts[m] ELSE f[m - 1] \o parts[m]
                                    ELSE f[i]]
  <2>3. \A i \in 1 .. m : g[i] = IF i = 1 THEN parts[i] ELSE g[i - 1] \o parts[i]
    <3> SUFFICES ASSUME NEW i \in 1 .. m
                 PROVE  g[i] = IF i = 1 THEN parts[i] ELSE g[i - 1] \o parts[i]
      OBVIOUS
    <3>1. CASE i = m
      BY <3>1
    <3>2. CASE i # m
      <4>1. i \in 1 .. m - 1 /\ (i # 1 => i - 1 \in 1 .. m /\ i - 1 # m)
        BY <3>2
      <4>2. f[i] = IF i = 1 THEN parts[i] ELSE f[i - 1] \o parts[i]
        BY <2>2, <4>1 DEF UpTo
      <4> QED
        BY <3>2, <4>1, <4>2
    <3> QED
      BY <3>1, <3>2
  <2>4. g = [i \in 1 .. m |-> g[i]]
    OBVIOUS
  <2> HIDE DEF g
  <2>5. UpTo(g, parts, m)
    BY <2>3, <2>4 DEF UpTo
  <2> QED
    BY <1>1, <2>5
<1> QED
  BY <1>2, <1>3

\* The elements of the first i sets.
Together(sets, i) == UNION {sets[j] : j \in 1 .. i}

\* What is joined up to i lists what the parts up to i list, if no two of them
\* have an element in common.
LEMMA JoinedLists ==
    ASSUME NEW n \in Nat, NEW parts, NEW f, UpTo(f, parts, n),
           NEW V, NEW sets \in [1 .. n -> SUBSET V],
           \A i \in 1 .. n : Lists(parts[i], sets[i]),
           \A i, j \in 1 .. n : i # j => sets[i] \cap sets[j] = {}
    PROVE  \A i \in 1 .. n : Lists(f[i], Together(sets, i))
<1> DEFINE T == {i \in 1 .. n : ~ Lists(f[i], Together(sets, i))}
<1> SUFFICES ASSUME T # {} PROVE FALSE
  OBVIOUS
<1>1. PICK i \in T : \A k \in T : i <= k
  <2>1. T \subseteq Nat
    OBVIOUS
  <2> HIDE DEF T
  <2> QED
    BY <2>1, Smallest
<1>2. CASE i = 1
  <2>1. f[1] = parts[1] /\ 1 \in 1 .. n
    BY <1>1, <1>2 DEF UpTo
  <2>2. Together(sets, 1) = sets[1]
    BY DEF Together
  <2> QED
    BY <1>1, <1>2, <2>1, <2>2
<1>3. CASE i # 1
  <2>0. i - 1 \in 1 .. n /\ i \in 1 .. n
    BY <1>1, <1>3
  <2>1. i - 1 \notin T
    <3> HIDE DEF T
    <3> QED
      BY <1>1, <2>0
  <2>2. f[i] = f[i - 1] \o parts[i]
    BY <1>3, <2>0 DEF UpTo
  <2>3. Lists(f[i - 1], Together(sets, i - 1)) /\ Lists(parts[i], sets[i])
    BY <2>0, <2>1
  <2>4. Together(sets, i) = Together(sets, i - 1) \cup sets[i]
    BY <2>0 DEF Together
  <2>5. Together(sets, i - 1) \cap sets[i] = {}
    BY <2>0 DEF Together
  <2>6. Lists(f[i], Together(sets, i))
    BY <2>2, <2>3, <2>4, <2>5, ListsJoin
  <2> QED
    BY <1>1, <2>6
<1> QED
  BY <1>2, <1>3

\* The lines that FlattenSeq returns are those of all the parts.
LEMMA FlattenLists ==
    ASSUME NEW n \in Nat \ {0}, NEW parts, Len(parts) = n,
           NEW V, NEW sets \in [1 .. n -> SUBSET V],
           \A i \in 1 .. n : Lists(parts[i], sets[i]),
           \A i, j \in 1 .. n : i # j => sets[i] \cap sets[j] = {}
    PROVE  Lists(Csv!FlattenSeq(parts), Together(sets, n))
<1>1. Csv!FlattenSeq(parts) = (CHOOSE f : UpTo(f, parts, n))[n]
  BY DEF Csv!FlattenSeq, UpTo
<1>2. PICK f : UpTo(f, parts, n) /\ Csv!FlattenSeq(parts) = f[n]
  BY <1>1, JoinedExists
<1>3. n \in Nat /\ n \in 1 .. n
  OBVIOUS
<1>4. \A i \in 1 .. n : Lists(f[i], Together(sets, i))
  BY <1>2, <1>3, JoinedLists
<1> QED
  BY <1>2, <1>3, <1>4

-----------------------------------------------------------------------------
(* CsvChunks: the lines of the chunks *)

\* The borders of the chunks ascend, the last one is not behind the data.
LEMMA Borders ==
    ASSUME CsvFile
    PROVE  /\ data_size \in Nat
           /\ \A i \in Nat : Csv!offset(i) \in Nat
           /\ \A i, j \in Nat : i <= j => Csv!offset(i) <= Csv!offset(j)
<1> DEFINE q == data_size \div M
<1>1. data_size \in Nat /\ M \in Nat \ {0}
  BY CountsAssumption DEF CsvFile
<1>2. q \in Nat
  BY <1>1
<1>3. \A i \in Nat : Csv!offset(i) = i * q
  BY DEF Csv!offset
<1> HIDE DEF q
<1>4. \A i, j \in Nat : i <= j => i * q <= j * q
  <2> SUFFICES ASSUME NEW i \in Nat, NEW j \in Nat, i <= j PROVE i * q <= j * q
    OBVIOUS
  <2>1. PICK d \in Nat : j = i + d
    <3>1. j - i \in Nat /\ j = i + (j - i)
      OBVIOUS
    <3> QED
      BY <3>1
  <2>2. j * q = i * q + d * q
    BY <1>2, <2>1
  <2>3. d * q \in Nat /\ i * q \in Nat
    BY <1>2
  <2> QED
    BY <2>2, <2>3
<1> QED
  BY <1>1, <1>2, <1>3, <1>4

\* getline ends at the next line, or at the end of the data.
LEMMA NextLineIs ==
    ASSUME CsvFile, NEW p \in Nat
    PROVE  \A s \in starts : Csv!NextLine(p) <= s <=> p < s
<1> DEFINE Ahead == {s \in starts : s > p} \cup {data_size}
<1>1. data_size \in Nat /\ \A s \in starts : s \in Nat /\ s < data_size
  BY CountsAssumption DEF CsvFile
<1>2. Ahead \subseteq Nat /\ Ahead # {}
  BY <1>1
<1>3. Csv!NextLine(p) = CHOOSE x \in Ahead : \A y \in Ahead : x <= y
  BY DEF Csv!NextLine, Csv!Min
<1>4. \E x \in Ahead : \A y \in Ahead : x <= y
  <2> HIDE DEF Ahead
  <2> QED
    BY <1>2, Smallest
<1>5. Csv!NextLine(p) \in Ahead /\ \A y \in Ahead : Csv!NextLine(p) <= y
  <2> HIDE DEF Ahead
  <2> QED
    BY <1>3, <1>4
<1> QED
  BY <1>1, <1>2, <1>5

\* The lines of a chunk are those that begin in it, for all chunks but the first
\* without one that begins exactly at the border.
LEMMA LinesOfChunk ==
    ASSUME CsvFile, NEW i \in Csv!Tasks
    PROVE  /\ Csv!LinesOf(i) = {s \in starts : (i = 0 \/ Csv!offset(i) < s) /\ s < Csv!EndBoundry(i)}
           /\ Csv!LinesOf(i) \in SUBSET Nat /\ IsFiniteSet(Csv!LinesOf(i))
<1>1. i \in Nat /\ Csv!offset(i) \in Nat /\ starts \subseteq Nat
  BY Borders DEF Csv!Tasks, CsvFile
<1>2. \A s \in starts : Csv!FirstLine(i) <= s <=> i = 0 \/ Csv!offset(i) < s
  BY <1>1, NextLineIs DEF Csv!FirstLine
<1>3. Csv!LinesOf(i) = {s \in starts : (i = 0 \/ Csv!offset(i) < s) /\ s < Csv!EndBoundry(i)}
  BY <1>2 DEF Csv!LinesOf
<1>4. IsFiniteSet(0 .. data_size - 1)
  BY Borders, FS_Interval
<1>5. Csv!LinesOf(i) \in SUBSET (0 .. data_size - 1)
  BY <1>3 DEF CsvFile
<1>6. IsFiniteSet(Csv!LinesOf(i))
  BY <1>4, <1>5, FS_Subset
<1> QED
  BY <1>1, <1>3, <1>6

\* No line is in two chunks.
LEMMA ChunksDisjoint ==
    ASSUME CsvFile, NEW i \in Csv!Tasks, NEW j \in Csv!Tasks, i # j
    PROVE  Csv!LinesOf(i) \cap Csv!LinesOf(j) = {}
<1>1. ASSUME NEW k \in Csv!Tasks, NEW l \in Csv!Tasks, k < l
      PROVE  Csv!LinesOf(k) \cap Csv!LinesOf(l) = {}
  <2>1. k \in Nat /\ l \in Nat /\ k + 1 \in Nat /\ k + 1 <= l /\ k # M - 1 /\ l # 0 /\ l - 1 \in Nat
    BY <1>1, CountsAssumption DEF Csv!Tasks
  <2>2. /\ Csv!EndBoundry(k) = Csv!offset(k + 1) /\ Csv!offset(k + 1) <= Csv!offset(l)
        /\ Csv!offset(k + 1) \in Nat /\ Csv!offset(l) \in Nat
    BY <2>1, Borders DEF Csv!EndBoundry
  <2>3. \A s \in Nat : ~ (s < Csv!offset(k + 1) /\ Csv!offset(l) < s)
    BY <2>2
  <2>4. starts \subseteq Nat
    BY Borders DEF CsvFile
  <2> QED
    BY <2>1, <2>2, <2>3, <2>4, LinesOfChunk
<1>2. i < j \/ j < i
  BY DEF Csv!Tasks
<1> QED
  BY <1>1, <1>2

\* The chunks together have all lines but those that begin at a border.
LEMMA ChunksCover ==
    ASSUME CsvFile
    PROVE  UNION {Csv!LinesOf(i) : i \in Csv!Tasks} = starts \ {Csv!offset(i) : i \in Csv!Tasks \ {0}}
<1>0. /\ data_size \in Nat /\ M \in Nat \ {0}
      /\ \A i \in Nat : Csv!offset(i) \in Nat
      /\ \A i, j \in Nat : i <= j => Csv!offset(i) <= Csv!offset(j)
      /\ \A s \in starts : s \in Nat /\ s < data_size
  BY Borders, CountsAssumption DEF CsvFile
<1>1. ASSUME NEW i \in Csv!Tasks, NEW s \in Csv!LinesOf(i), NEW j \in Csv!Tasks \ {0}
      PROVE  s # Csv!offset(j)
  <2>1. /\ s \in starts /\ s \in Nat /\ (i = 0 \/ Csv!offset(i) < s) /\ s < Csv!EndBoundry(i)
        /\ i \in Nat /\ j \in Nat /\ i + 1 \in Nat /\ j >= 1 /\ j <= M - 1
    BY <1>0, LinesOfChunk DEF Csv!Tasks
  <2>2. CASE j <= i
    <3>1. Csv!offset(j) <= Csv!offset(i) /\ Csv!offset(i) < s
      BY <1>0, <2>1, <2>2
    <3> QED
      BY <1>0, <2>1, <3>1
  <2>3. CASE i < j
    <3>1. Csv!EndBoundry(i) = Csv!offset(i + 1)
      BY <1>0, <2>1, <2>3 DEF Csv!EndBoundry
    <3>2. Csv!offset(i + 1) <= Csv!offset(j)
      BY <1>0, <2>1, <2>3
    <3> QED
      BY <1>0, <2>1, <3>1, <3>2
  <2> QED
    BY <2>1, <2>2, <2>3
<1>2. ASSUME NEW s \in starts, \A j \in Csv!Tasks \ {0} : s # Csv!offset(j)
      PROVE  \E i \in Csv!Tasks : s \in Csv!LinesOf(i)
  <2> DEFINE T == {i \in Csv!Tasks : s < Csv!EndBoundry(i)}
  <2>1. M - 1 \in T
    BY <1>0 DEF Csv!Tasks, Csv!EndBoundry
  <2>2. T \subseteq Nat
    BY <1>0 DEF Csv!Tasks
  <2>3. PICK i \in T : \A k \in T : i <= k
    <3> HIDE DEF T
    <3> QED
      BY <2>1, <2>2, Smallest
  <2>4. CASE i = 0
    BY <2>3, <2>4, LinesOfChunk
  <2>5. CASE i # 0
    <3>1. i \in Nat /\ i - 1 \in Csv!Tasks /\ i - 1 # M - 1 /\ (i - 1) + 1 = i /\ ~ i <= i - 1
      BY <1>0, <2>3, <2>5 DEF Csv!Tasks
    <3>2. ~ s < Csv!EndBoundry(i - 1)
      BY <2>3, <3>1
    <3>3. Csv!EndBoundry(i - 1) = Csv!offset(i)
      BY <3>1 DEF Csv!EndBoundry
    <3>4. Csv!offset(i) < s
      <4>1. s # Csv!offset(i)
        BY <1>2, <2>3, <2>5
      <4> QED
        BY <1>0, <3>1, <3>2, <3>3, <4>1
    <3> QED
      BY <2>3, <3>4, LinesOfChunk
  <2> QED
    BY <2>4, <2>5
<1>3. \A i \in Csv!Tasks : Csv!LinesOf(i) \subseteq starts
  BY LinesOfChunk
<1> QED
  BY <1>1, <1>2, <1>3

\* The first chunk misses its first line only when chunks have no bytes.
LEMMA FirstChunk ==
    ASSUME CsvFile, M > 1, Csv!LinesOf(0) = {}
    PROVE  data_size < M
<1>1. 0 \in Csv!Tasks /\ M \in Nat \ {0} /\ data_size \in Nat /\ Csv!offset(1) \in Nat
  BY Borders, CountsAssumption DEF Csv!Tasks
<1>2. ~ 0 < Csv!EndBoundry(0)
  BY <1>1, LinesOfChunk DEF CsvFile
<1>3. Csv!EndBoundry(0) = Csv!offset(1)
  BY <1>1 DEF Csv!EndBoundry
<1>4. Csv!offset(1) = data_size \div M
  BY <1>1 DEF Csv!offset
<1> QED
  BY <1>1, <1>2, <1>3, <1>4

\* So what is printed, the lists of all chunks behind one another, has every line
\* once but those that begin at a border.
LEMMA PrintedLines ==
    ASSUME CsvFile, NEW q, q = Csv!FlattenSeq(AllLists)
    PROVE  /\ Csv!IsInjective(q)
           /\ {q[k] : k \in DOMAIN q} = starts \ {Csv!offset(i) : i \in Csv!Tasks \ {0}}
<1> DEFINE sets == [i \in 1 .. M |-> Csv!LinesOf(i - 1)]
<1>1. M \in Nat \ {0} /\ \A i \in 1 .. M : i - 1 \in Csv!Tasks
  BY CountsAssumption DEF Csv!Tasks
<1>2. sets \in [1 .. M -> SUBSET Nat]
  BY <1>1, LinesOfChunk
<1>3. \A i \in 1 .. M : Lists(AllLists[i], sets[i])
  BY <1>1, LinesOfChunk, ListIs DEF AllLists
<1>4. \A i, j \in 1 .. M : i # j => sets[i] \cap sets[j] = {}
  <2> SUFFICES ASSUME NEW i \in 1 .. M, NEW j \in 1 .. M, i # j
               PROVE  sets[i] \cap sets[j] = {}
    OBVIOUS
  <2>1. i - 1 \in Csv!Tasks /\ j - 1 \in Csv!Tasks /\ i - 1 # j - 1
    BY <1>1
  <2> QED
    BY <2>1, ChunksDisjoint
<1>5. Len(AllLists) = M
  BY <1>1 DEF AllLists
<1>6. Together(sets, M) = UNION {Csv!LinesOf(i) : i \in Csv!Tasks}
  <2>1. \A i \in Csv!Tasks : i + 1 \in 1 .. M /\ sets[i + 1] = Csv!LinesOf(i)
    BY <1>1 DEF Csv!Tasks
  <2>2. \A i \in 1 .. M : sets[i] = Csv!LinesOf(i - 1)
    OBVIOUS
  <2> HIDE DEF sets
  <2> QED
    BY <1>1, <2>1, <2>2 DEF Together
<1> HIDE DEF sets
<1>7. Lists(q, Together(sets, M))
  BY <1>1, <1>2, <1>3, <1>4, <1>5, FlattenLists
<1>8. DOMAIN q = 1 .. Len(q)
  BY <1>7 DEF Lists
<1>9. {q[k] : k \in DOMAIN q} = Together(sets, M)
  BY <1>7, <1>8 DEF Lists
<1>10. Csv!IsInjective(q)
  BY <1>7, <1>8 DEF Lists, Csv!IsInjective
<1> QED
  BY <1>6, <1>9, <1>10, ChunksCover

-----------------------------------------------------------------------------
(* CsvChunks: the error flag and the barriers *)

\* The file does not change: neither do its lines, nor which of them are wrong.
LEMMA LinesStay ==
    ASSUME UNCHANGED Csv!Data
    PROVE  /\ \A i : Csv!LinesOf(i)' = Csv!LinesOf(i) /\ Csv!offset(i)' = Csv!offset(i)
           /\ UNCHANGED <<stage, data_size, starts, bad>>
BY DEF Csv!Data, Csv!LinesOf, Csv!FirstLine, Csv!EndBoundry, Csv!NextLine, Csv!offset

LEMMA FileStays ==
    ASSUME UNCHANGED Csv!Data
    PROVE  \A i : WrongChunk(i)' <=> WrongChunk(i)
BY LinesStay DEF WrongChunk

\* What a reader finds wrong: the wrong lines of its chunk, or any of a torn one. It
\* stops before the first, and lists all lines if there is none.
LEMMA FoundIs ==
    ASSUME stage # 3, NEW i, NEW wrong \in Csv!FoundWrong(i)
    PROVE  /\ wrong # {} => WrongChunk(i) \/ i \in torn
           /\ i \notin torn /\ WrongChunk(i) => wrong # {}
BY DEF Csv!FoundWrong, WrongChunk

LEMMA NoneFound ==
    /\ stage = 3 => \A i : Csv!FoundWrong(i) = {{}}
    /\ \A i : Csv!Before(i, {}) = Csv!LinesOf(i)
BY DEF Csv!FoundWrong, Csv!Before

LEMMA CsvInit == Csv!Init /\ stage # 3 => CsvInv
<1> SUFFICES ASSUME Csv!Chunks, stage # 3 PROVE CsvInv
  BY DEF Csv!Init, Csv!Init3, Csv!Init4, Csv!Init5
<1>1. /\ starts \in SUBSET (0 .. data_size - 1) /\ main = "join" /\ arrived = 0
      /\ pc = [t \in Csv!Threads |-> "lock"] /\ next_task_idx = 0
      /\ idx = [t \in Csv!Threads |-> 0] /\ global_error_flag = 0 /\ torn = {}
  BY DEF Csv!Chunks
<1>2. CsvTypes
  BY <1>1, CountsAssumption DEF CsvTypes
<1>3. Cardinality(At(Csv!Threads, {"at1"})) = 0
  BY <1>1, NobodyWaits DEF Csv!Threads
<1>4. CsvPhases
  BY <1>1, <1>3 DEF CsvPhases, BeforeFirst
<1>5. WrongIsKnown /\ ErrorIsWrong
  BY <1>1 DEF WrongIsKnown, ErrorIsWrong, Csv!Tasks
<1>6. NothingToTake /\ Csv!AllOrNothing
  BY <1>1 DEF NothingToTake, Csv!AllOrNothing, BeforeSecond, BehindSecond
<1> QED
  BY <1>2, <1>4, <1>5, <1>6 DEF CsvInv

CsvActions(t) ==
    \/ Csv!Take(t) \/ Csv!ReadChunk(t) \/ Csv!Mismatch(t) \/ Csv!CheckFlag(t)
    \/ Csv!Barrier1(t) \/ Csv!ReadFlag(t) \/ Csv!Barrier2(t) \/ Csv!Concat(t)

\* What every step of the three programs does, and leaves alone.
LEMMA CsvDispatch ==
    ASSUME Csv!Next
    PROVE  /\ UNCHANGED Csv!Data
           /\ main = "join" /\ torn \subseteq torn'
           /\ Csv!PrintLists \/ Csv!TornHeap \/ \E t \in Csv!Threads : CsvActions(t)
<1>1. Csv!PrintLists \/ Csv!TornHeap \/ \E t \in Csv!Threads : CsvActions(t)
  BY DEF Csv!Next, Csv!Main, Csv!Join3, Csv!Join4, Csv!Join5, Csv!Step, Csv!Thread3, Csv!Thread4,
         Csv!Thread5, Csv!Checked, CsvActions
<1> QED
  BY <1>1
     DEF CsvActions, Csv!PrintLists, Csv!TornHeap, Csv!Take, Csv!Tear, Csv!ReadChunk, Csv!Mismatch,
         Csv!CheckFlag, Csv!Barrier1, Csv!Barrier2, Csv!BarrierWait, Csv!ReadFlag, Csv!Concat

LEMMA CsvTypesStep ==
    ASSUME CsvTypes, stage # 3, Csv!Next
    PROVE  CsvTypes'
<1> USE DEF CsvTypes, Csv!Tasks
<1>0. M \in Nat \ {0} /\ N \in Nat \ {0}
  BY CountsAssumption
<1>1. ASSUME NEW t \in Csv!Threads, Csv!Take(t) PROVE CsvTypes'
  <2>1. Csv!BeingCounted \subseteq Csv!Tasks
    BY <1>0 DEF Csv!BeingCounted
  <2>2. next_task_idx < M => next_task_idx \in Csv!Tasks
    BY <1>0
  <2>3. torn' \in SUBSET Csv!Tasks
    BY <1>1, <2>1, <2>2 DEF Csv!Take, Csv!Tear
  <2> QED
    BY <1>0, <1>1, <2>3 DEF Csv!Take, Csv!Data
<1>2. ASSUME NEW t \in Csv!Threads, Csv!ReadChunk(t) PROVE CsvTypes'
  BY <1>2 DEF Csv!ReadChunk, Csv!Data
<1>3. ASSUME NEW t \in Csv!Threads, Csv!Mismatch(t) PROVE CsvTypes'
  BY <1>3 DEF Csv!Mismatch, Csv!Data
<1>4. ASSUME NEW t \in Csv!Threads, Csv!CheckFlag(t) PROVE CsvTypes'
  BY <1>4 DEF Csv!CheckFlag, Csv!Data
<1>5. ASSUME NEW t \in Csv!Threads, Csv!Barrier1(t) \/ Csv!Barrier2(t) PROVE CsvTypes'
  <2>1. /\ arrived' = arrived + 1 \/ arrived' = 0
        /\ UNCHANGED <<Csv!Data, next_task_idx, idx, global_error_flag, torn>>
    BY <1>5 DEF Csv!Barrier1, Csv!Barrier2, Csv!BarrierWait
  <2> QED
    BY <2>1 DEF Csv!Data
<1>6. ASSUME NEW t \in Csv!Threads, Csv!ReadFlag(t) PROVE CsvTypes'
  BY <1>6 DEF Csv!ReadFlag, Csv!Data
<1>7. ASSUME NEW t \in Csv!Threads, Csv!Concat(t) PROVE CsvTypes'
  BY <1>7 DEF Csv!Concat, Csv!Data
<1>8. CASE Csv!PrintLists \/ Csv!TornHeap
  BY <1>8 DEF Csv!PrintLists, Csv!TornHeap, Csv!Data
<1> QED
  BY <1>1, <1>2, <1>3, <1>4, <1>5, <1>6, <1>7, <1>8, CsvDispatch DEF CsvActions

\* A barrier counts one more, or the last thread finds all others at it.
LEMMA CsvBarrier ==
    ASSUME NEW t \in Csv!Threads, NEW at, NEW in, NEW to, NEW serial, at # in,
           Csv!BarrierWait(t, at, in, to, serial), arrived = Cardinality(At(Csv!Threads, {in}))
    PROVE  \/ arrived' = arrived + 1 /\ pc' = [pc EXCEPT ![t] = in]
           \/ /\ arrived' = 0
              /\ \A u \in Csv!Threads : u # t => pc[u] = in
              /\ pc' \in [Csv!Threads -> {to, serial}]
<1>1. pc[t] = at /\ t \in 1 .. N
  BY DEF Csv!BarrierWait, Csv!Threads
<1>2. CASE arrived < N - 1
  BY <1>2 DEF Csv!BarrierWait, Csv!Goto
<1>3. CASE ~ arrived < N - 1
  <2>1. \A u \in Csv!Threads : u # t => pc[u] = in
    BY <1>1, <1>3, LastFindsAll DEF Csv!Threads
  <2>2. arrived' = 0
    BY <1>3 DEF Csv!BarrierWait
  <2>3. PICK s \in Csv!Threads : pc' = [u \in Csv!Threads |-> IF u = s THEN serial ELSE to]
    BY <1>3 DEF Csv!BarrierWait
  <2> QED
    BY <2>1, <2>2, <2>3
<1> QED
  BY <1>2, <1>3

\* A step before the first barrier that does not come to it.
LEMMA BeforeFirstStep ==
    ASSUME CsvPhases, NEW t \in Csv!Threads, pc[t] \in BeforeFirst \ {"at1"},
           NEW l \in BeforeFirst \ {"at1"}, pc' = [pc EXCEPT ![t] = l], UNCHANGED arrived
    PROVE  CsvPhases'
<1>1. pc \in [1 .. N -> BeforeFirst] /\ arrived = Cardinality(At(1 .. N, {"at1"}))
  BY DEF CsvPhases, BeforeFirst, BeforeSecond, BehindSecond, Csv!Threads
<1>2. pc' \in [1 .. N -> BeforeFirst]
  BY <1>1 DEF Csv!Threads
<1>3. At(1 .. N, {"at1"})' = At(1 .. N, {"at1"})
  BY <1>1, SameWait DEF Csv!Threads
<1> QED
  BY <1>1, <1>2, <1>3 DEF CsvPhases, Csv!Threads

\* All threads are on the same side of each barrier.
LEMMA CsvPhasesStep ==
    ASSUME CsvTypes, CsvPhases, stage # 3, Csv!Next
    PROVE  CsvPhases'
<1> USE DEF Csv!Goto
<1>1. ASSUME NEW t \in Csv!Threads, Csv!Take(t) PROVE CsvPhases'
  BY <1>1, BeforeFirstStep DEF Csv!Take, BeforeFirst
<1>2. ASSUME NEW t \in Csv!Threads, Csv!ReadChunk(t) PROVE CsvPhases'
  <2>1. \E l \in {"mismatch", "check"} : pc' = [pc EXCEPT ![t] = l]
    BY <1>2 DEF Csv!ReadChunk
  <2> QED
    BY <1>2, <2>1, BeforeFirstStep DEF Csv!ReadChunk, BeforeFirst
<1>3. ASSUME NEW t \in Csv!Threads, Csv!Mismatch(t) PROVE CsvPhases'
  BY <1>3, BeforeFirstStep DEF Csv!Mismatch, BeforeFirst
<1>4. ASSUME NEW t \in Csv!Threads, Csv!CheckFlag(t) PROVE CsvPhases'
  BY <1>4, BeforeFirstStep DEF Csv!CheckFlag, BeforeFirst
<1>5. ASSUME NEW t \in Csv!Threads, Csv!Barrier1(t) PROVE CsvPhases'
  <2>1. /\ pc \in [1 .. N -> BeforeFirst] /\ pc[t] = "barrier1" /\ t \in 1 .. N
        /\ arrived = Cardinality(At(1 .. N, {"at1"}))
    BY <1>5 DEF CsvPhases, Csv!Barrier1, Csv!BarrierWait, BeforeSecond, BehindSecond, Csv!Threads
  <2>2. CASE arrived' = arrived + 1 /\ pc' = [pc EXCEPT ![t] = "at1"]
    <3>1. Cardinality(At(1 .. N, {"at1"})') = Cardinality(At(1 .. N, {"at1"})) + 1
      BY <2>1, <2>2, OneMoreWaits
    <3>2. pc' \in [1 .. N -> BeforeFirst]
      BY <2>1, <2>2 DEF BeforeFirst
    <3> QED
      BY <2>1, <2>2, <3>1, <3>2 DEF CsvPhases, Csv!Threads
  <2>3. CASE arrived' = 0 /\ pc' \in [Csv!Threads -> {"flag", "flag"}]
    <3>1. At(1 .. N, {"at2"})' = {} /\ pc' \in [Csv!Threads -> BeforeSecond]
      BY <2>3 DEF At, BeforeSecond, Csv!Threads
    <3> QED
      BY <2>3, <3>1, FS_EmptySet DEF CsvPhases, Csv!Threads
  <2> QED
    BY <1>5, <2>1, <2>2, <2>3, CsvBarrier DEF Csv!Barrier1, Csv!Threads
<1>6. ASSUME NEW t \in Csv!Threads, Csv!ReadFlag(t) PROVE CsvPhases'
  <2>1. /\ pc \in [1 .. N -> BeforeSecond] /\ pc[t] = "flag" /\ t \in 1 .. N
        /\ arrived = Cardinality(At(1 .. N, {"at2"}))
    BY <1>6 DEF CsvPhases, Csv!ReadFlag, BeforeFirst, BehindSecond, Csv!Threads
  <2>2. CASE pc' = [pc EXCEPT ![t] = "barrier2"] /\ UNCHANGED arrived
    <3>1. At(1 .. N, {"at2"})' = At(1 .. N, {"at2"})
      BY <2>1, <2>2, SameWait
    <3>2. pc' \in [1 .. N -> BeforeSecond]
      BY <2>1, <2>2 DEF BeforeSecond
    <3> QED
      BY <2>1, <2>2, <3>1, <3>2 DEF CsvPhases, Csv!Threads
  <2>3. CASE UNCHANGED <<pc, arrived>>
    BY <2>3 DEF CsvPhases, At, Csv!Threads
  <2> QED
    BY <1>6, <2>2, <2>3 DEF Csv!ReadFlag
<1>7. ASSUME NEW t \in Csv!Threads, Csv!Barrier2(t) PROVE CsvPhases'
  <2>1. /\ pc \in [1 .. N -> BeforeSecond] /\ pc[t] = "barrier2" /\ t \in 1 .. N
        /\ arrived = Cardinality(At(1 .. N, {"at2"}))
    BY <1>7 DEF CsvPhases, Csv!Barrier2, Csv!BarrierWait, BeforeFirst, BehindSecond, Csv!Threads
  <2>2. CASE arrived' = arrived + 1 /\ pc' = [pc EXCEPT ![t] = "at2"]
    <3>1. Cardinality(At(1 .. N, {"at2"})') = Cardinality(At(1 .. N, {"at2"})) + 1
      BY <2>1, <2>2, OneMoreWaits
    <3>2. pc' \in [1 .. N -> BeforeSecond]
      BY <2>1, <2>2 DEF BeforeSecond
    <3> QED
      BY <2>1, <2>2, <3>1, <3>2 DEF CsvPhases, Csv!Threads
  <2>3. CASE arrived' = 0 /\ pc' \in [Csv!Threads -> {"done", "concat"}]
    BY <2>3 DEF CsvPhases, BehindSecond, Csv!Threads
  <2>4. arrived' = 0 /\ pc' \in [Csv!Threads -> {"done", IF stage = 5 THEN "concat" ELSE "done"}]
           => arrived' = 0 /\ pc' \in [Csv!Threads -> {"done", "concat"}]
    OBVIOUS
  <2> QED
    BY <1>7, <2>1, <2>2, <2>3, <2>4, CsvBarrier DEF Csv!Barrier2, Csv!Threads
<1>8. ASSUME NEW t \in Csv!Threads, Csv!Concat(t) PROVE CsvPhases'
  <2>1. pc \in [Csv!Threads -> BehindSecond] /\ arrived = 0
    BY <1>8 DEF CsvPhases, Csv!Concat, BeforeFirst, BeforeSecond
  <2>2. pc' \in [Csv!Threads -> BehindSecond] /\ arrived' = 0
    BY <1>8, <2>1 DEF Csv!Concat, BehindSecond
  <2> QED
    BY <2>2 DEF CsvPhases, Csv!Threads
<1>9. CASE Csv!PrintLists \/ Csv!TornHeap
  BY <1>9 DEF Csv!PrintLists, Csv!TornHeap, CsvPhases, At, Csv!Threads
<1> QED
  BY <1>1, <1>2, <1>3, <1>4, <1>5, <1>6, <1>7, <1>8, <1>9, CsvDispatch DEF CsvActions

\* A reader that finds a wrong line reports it: no wrong line of a chunk that is not
\* torn is forgotten, and nothing else is reported.
LEMMA CsvWrongStep ==
    ASSUME CsvTypes, CsvPhases, WrongIsKnown, ErrorIsWrong, stage # 3, Csv!Next
    PROVE  WrongIsKnown' /\ ErrorIsWrong'
<1> DEFINE Goal == WrongIsKnown' /\ ErrorIsWrong'
<1>1. /\ \A i : WrongChunk(i)' <=> WrongChunk(i)
      /\ \E S : pc \in [Csv!Threads -> S]
  BY CsvDispatch, FileStays DEF CsvPhases
<1> HIDE DEF Goal
<1> USE DEF CsvTypes, Csv!Goto, WrongIsKnown, ErrorIsWrong, AtChunk
<1>2. torn \subseteq torn'
  BY CsvDispatch
<1>3. ASSUME NEW t \in Csv!Threads, Csv!Take(t) PROVE Goal
  BY <1>1, <1>2, <1>3 DEF Csv!Take, Csv!Tasks, Goal
<1>4. ASSUME NEW t \in Csv!Threads, Csv!ReadChunk(t) PROVE Goal
  <2>1. PICK l \in {"mismatch", "check"} :
           /\ pc[t] = "read" /\ UNCHANGED <<idx, next_task_idx, global_error_flag, torn>>
           /\ pc' = [pc EXCEPT ![t] = l]
           /\ l = "mismatch" => WrongChunk(idx[t]) \/ idx[t] \in torn
           /\ idx[t] \notin torn /\ WrongChunk(idx[t]) => l = "mismatch"
    <3>1. PICK wrong \in Csv!FoundWrong(idx[t]) :
             pc' = [pc EXCEPT ![t] = IF wrong # {} THEN "mismatch" ELSE "check"]
      BY <1>4 DEF Csv!ReadChunk
    <3> QED
      BY <1>4, <3>1, FoundIs DEF Csv!ReadChunk
  <2>2. idx[t] \in Csv!Tasks
    BY CountsAssumption DEF Csv!Tasks
  <2> QED
    BY <1>1, <2>1, <2>2 DEF Goal
<1>5. ASSUME NEW t \in Csv!Threads, Csv!Mismatch(t) PROVE Goal
  BY <1>1, <1>5 DEF Csv!Mismatch, Goal
<1>6. ASSUME NEW t \in Csv!Threads, Csv!CheckFlag(t) PROVE Goal
  BY <1>1, <1>6 DEF Csv!CheckFlag, Goal
<1>7. ASSUME NEW t \in Csv!Threads, Csv!Barrier1(t) PROVE Goal
  <2>1. /\ \A u \in Csv!Threads : pc'[u] \in {"read", "mismatch"} => pc'[u] = pc[u]
        /\ \A u \in Csv!Threads : pc[u] \in {"read", "mismatch"} => pc'[u] = pc[u]
        /\ UNCHANGED <<idx, next_task_idx, global_error_flag, torn>>
    <3>1. pc[t] = "barrier1" /\ arrived = Cardinality(At(Csv!Threads, {"at1"}))
      BY <1>7 DEF CsvPhases, Csv!Barrier1, Csv!BarrierWait, BeforeSecond, BehindSecond
    <3>2. \/ pc' = [pc EXCEPT ![t] = "at1"]
          \/ /\ \A u \in Csv!Threads : u # t => pc[u] = "at1"
             /\ pc' \in [Csv!Threads -> {"flag", "flag"}]
      BY <1>7, <3>1, CsvBarrier DEF Csv!Barrier1
    <3>3. UNCHANGED <<idx, next_task_idx, global_error_flag, torn>>
      BY <1>7 DEF Csv!Barrier1, Csv!BarrierWait
    <3> QED
      BY <1>1, <3>1, <3>2, <3>3
  <2> QED
    BY <1>1, <2>1 DEF Goal
<1>8. ASSUME NEW t \in Csv!Threads, Csv!ReadFlag(t) PROVE Goal
  BY <1>1, <1>8 DEF Csv!ReadFlag, Goal
<1>9. ASSUME NEW t \in Csv!Threads, Csv!Barrier2(t) \/ Csv!Concat(t) PROVE Goal
  <2>1. \A u \in Csv!Threads : pc[u] \in BeforeSecond \cup BehindSecond
    BY <1>9
       DEF CsvPhases, BeforeFirst, BeforeSecond, BehindSecond, Csv!Barrier2, Csv!BarrierWait, Csv!Concat
  <2>2. CsvPhases' /\ UNCHANGED <<idx, next_task_idx, global_error_flag, torn>>
    BY <1>9, CsvPhasesStep DEF Csv!Barrier2, Csv!BarrierWait, Csv!Concat
  <2>3. \A u \in Csv!Threads : pc'[u] \notin {"read", "mismatch"}
    <3>1. CASE Csv!Barrier2(t)
      BY <1>1, <3>1, <2>1 DEF Csv!Barrier2, Csv!BarrierWait, BeforeSecond, BehindSecond
    <3>2. CASE Csv!Concat(t)
      BY <1>1, <3>2, <2>1 DEF Csv!Concat, BeforeSecond, BehindSecond
    <3> QED
      BY <1>9, <3>1, <3>2
  <2> QED
    BY <1>1, <2>1, <2>2, <2>3 DEF Goal, BeforeSecond, BehindSecond
<1>10. CASE Csv!PrintLists \/ Csv!TornHeap
  BY <1>1, <1>10 DEF Csv!PrintLists, Csv!TornHeap, Goal
<1> QED
  BY <1>3, <1>4, <1>5, <1>6, <1>7, <1>8, <1>9, <1>10, CsvDispatch DEF CsvActions, Goal

\* Only who finds nothing to take waits at the first barrier, and an error that is
\* read there ends the program.
LEMMA CsvNothingStep ==
    ASSUME CsvTypes, CsvPhases, NothingToTake, stage # 3, Csv!Next
    PROVE  NothingToTake'
<1> USE DEF CsvTypes, Csv!Goto, NothingToTake, BeforeSecond, BehindSecond
<1>1. \E S : pc \in [Csv!Threads -> S]
  BY DEF CsvPhases
<1>2. ASSUME NEW t \in Csv!Threads, Csv!Take(t) PROVE NothingToTake'
  BY <1>1, <1>2, CountsAssumption DEF Csv!Take, Csv!Threads
<1>3. ASSUME NEW t \in Csv!Threads, Csv!ReadChunk(t) PROVE NothingToTake'
  <2>1. \E l \in {"mismatch", "check"} : pc' = [pc EXCEPT ![t] = l]
    BY <1>3 DEF Csv!ReadChunk
  <2>2. UNCHANGED <<next_task_idx, global_error_flag>>
    BY <1>3 DEF Csv!ReadChunk
  <2> QED
    BY <1>1, <2>1, <2>2 DEF Csv!Threads
<1>4. ASSUME NEW t \in Csv!Threads, Csv!Mismatch(t) PROVE NothingToTake'
  <2>1. pc \in [Csv!Threads -> BeforeFirst]
    BY <1>4 DEF CsvPhases, Csv!Mismatch, BeforeFirst
  <2> QED
    BY <1>4, <2>1 DEF Csv!Mismatch, BeforeFirst, Csv!Threads
<1>5. ASSUME NEW t \in Csv!Threads, Csv!CheckFlag(t) PROVE NothingToTake'
  BY <1>1, <1>5 DEF Csv!CheckFlag, Csv!Threads
<1>6. ASSUME NEW t \in Csv!Threads, Csv!Barrier1(t) PROVE NothingToTake'
  <2>1. pc[t] = "barrier1" /\ arrived = Cardinality(At(Csv!Threads, {"at1"}))
    BY <1>6 DEF CsvPhases, Csv!Barrier1, Csv!BarrierWait
  <2>2. \/ pc' = [pc EXCEPT ![t] = "at1"]
        \/ /\ \A u \in Csv!Threads : u # t => pc[u] = "at1"
           /\ pc' \in [Csv!Threads -> {"flag", "flag"}]
    BY <1>6, <2>1, CsvBarrier DEF Csv!Barrier1
  <2>3. UNCHANGED <<next_task_idx, global_error_flag>>
    BY <1>6 DEF Csv!Barrier1, Csv!BarrierWait
  <2> QED
    BY <1>1, <2>1, <2>2, <2>3 DEF Csv!Threads
<1>7. ASSUME NEW t \in Csv!Threads, Csv!ReadFlag(t) PROVE NothingToTake'
  BY <1>1, <1>7 DEF Csv!ReadFlag, Csv!Threads
<1>8. ASSUME NEW t \in Csv!Threads, Csv!Barrier2(t) PROVE NothingToTake'
  <2>1. pc \in [Csv!Threads -> BeforeSecond] /\ pc[t] = "barrier2"
    BY <1>8 DEF CsvPhases, Csv!Barrier2, Csv!BarrierWait, BeforeFirst
  <2>2. global_error_flag = 0 /\ next_task_idx = M
    BY <2>1
  <2>3. UNCHANGED <<next_task_idx, global_error_flag>>
    BY <1>8 DEF Csv!Barrier2, Csv!BarrierWait
  <2> QED
    BY <2>2, <2>3 DEF Csv!Threads
<1>9. ASSUME NEW t \in Csv!Threads, Csv!Concat(t) PROVE NothingToTake'
  <2>1. pc[t] = "concat" /\ UNCHANGED <<next_task_idx, global_error_flag>>
    BY <1>9 DEF Csv!Concat
  <2>2. global_error_flag = 0 /\ next_task_idx = M
    BY <2>1
  <2> QED
    BY <2>1, <2>2 DEF Csv!Threads
<1>10. CASE Csv!PrintLists \/ Csv!TornHeap
  BY <1>10 DEF Csv!PrintLists, Csv!TornHeap, Csv!Threads
<1> QED
  BY <1>2, <1>3, <1>4, <1>5, <1>6, <1>7, <1>8, <1>9, <1>10, CsvDispatch DEF CsvActions

\* Behind the second barrier all chunks have been read, and of those that were not torn
\* none was wrong.
LEMMA CsvAllRead ==
    ASSUME CsvTypes, CsvPhases, WrongIsKnown, NothingToTake,
           NEW t \in Csv!Threads, pc[t] \in BehindSecond
    PROVE  global_error_flag = 0 /\ \A i \in Csv!Tasks \ torn : ~ WrongChunk(i)
<1>1. pc \in [Csv!Threads -> BehindSecond]
  BY DEF CsvPhases, BeforeFirst, BeforeSecond, BehindSecond
<1>2. global_error_flag = 0 /\ next_task_idx = M
  BY DEF NothingToTake, BehindSecond
<1>3. \A u \in Csv!Threads : pc[u] \notin {"read", "mismatch"}
  BY <1>1 DEF BehindSecond
<1>4. \A i \in Csv!Tasks : i < M
  BY CountsAssumption DEF Csv!Tasks
<1> QED
  BY <1>2, <1>3, <1>4 DEF WrongIsKnown, AtChunk

LEMMA CsvAllOrNothingStep ==
    ASSUME CsvTypes, CsvPhases, WrongIsKnown, ErrorIsWrong, NothingToTake, stage # 3, Csv!Next
    PROVE  Csv!AllOrNothing'
<1> DEFINE Wrong == \E i \in Csv!Tasks : WrongChunk(i) \/ i \in torn
           Right == global_error_flag = 0 /\ \A i \in Csv!Tasks \ torn : ~ WrongChunk(i)
<1>1. /\ UNCHANGED Csv!Data /\ UNCHANGED stage /\ main = "join"
      /\ \A i : WrongChunk(i)' <=> WrongChunk(i)
  BY CsvDispatch, FileStays, LinesStay
<1>2. UNCHANGED <<torn, global_error_flag>> => (Wrong' <=> Wrong) /\ (Right' <=> Right)
  BY <1>1 DEF Csv!Tasks
<1>3. (main' = "failure" => Wrong') /\ (main' = "printed" => Right') => Csv!AllOrNothing'
  BY <1>1 DEF Csv!AllOrNothing, WrongChunk
<1> HIDE DEF Wrong, Right
<1>4. CASE main' \in {"join", "crash"}
  BY <1>3, <1>4
<1>5. ASSUME NEW t \in Csv!Threads, Csv!ReadFlag(t), main' \notin {"join", "crash"}
      PROVE  Csv!AllOrNothing'
  <2>1. main' = "failure" /\ global_error_flag = 1 /\ UNCHANGED <<torn, global_error_flag>>
    BY <1>1, <1>5 DEF Csv!ReadFlag
  <2>2. Wrong
    BY <2>1 DEF ErrorIsWrong, Wrong
  <2> QED
    BY <1>2, <1>3, <2>1, <2>2
<1>6. CASE Csv!PrintLists
  <2>1. 1 \in Csv!Threads
    BY CountsAssumption DEF Csv!Threads
  <2>2. main' = "printed" /\ pc[1] \in BehindSecond /\ UNCHANGED <<torn, global_error_flag>>
    BY <1>6, <2>1 DEF Csv!PrintLists, BehindSecond
  <2>3. Right
    BY <2>1, <2>2, CsvAllRead DEF Right
  <2> QED
    BY <1>2, <1>3, <2>2, <2>3
<1>7. CASE Csv!TornHeap
  BY <1>4, <1>7 DEF Csv!TornHeap
<1>8. ASSUME NEW t \in Csv!Threads, CsvActions(t), ~ Csv!ReadFlag(t)
      PROVE  main' \in {"join", "crash"}
  BY <1>1, <1>8
     DEF CsvActions, Csv!Take, Csv!ReadChunk, Csv!Mismatch, Csv!CheckFlag, Csv!Barrier1,
         Csv!Barrier2, Csv!BarrierWait, Csv!Concat
<1> QED
  BY <1>4, <1>5, <1>6, <1>7, <1>8, CsvDispatch

LEMMA CsvNext == CsvInv /\ stage # 3 /\ Csv!Next => CsvInv' /\ stage' = stage
<1> SUFFICES ASSUME CsvInv, stage # 3, Csv!Next PROVE CsvInv' /\ stage' = stage
  OBVIOUS
<1>1. /\ CsvTypes /\ CsvPhases /\ WrongIsKnown /\ ErrorIsWrong /\ NothingToTake
      /\ Csv!AllOrNothing
  BY DEF CsvInv
<1>2. /\ CsvTypes' /\ CsvPhases' /\ WrongIsKnown' /\ ErrorIsWrong' /\ NothingToTake'
      /\ Csv!AllOrNothing'
  BY <1>1, CsvTypesStep, CsvPhasesStep, CsvWrongStep, CsvNothingStep, CsvAllOrNothingStep
<1>3. stage' = stage
  BY CsvDispatch DEF Csv!Data
<1> QED
  BY <1>2, <1>3 DEF CsvInv

LEMMA CsvPrintsInit == Csv!Init => CsvPrints
<1> SUFFICES ASSUME Csv!Chunks, stage \in {3, 4, 5} PROVE CsvPrints
  BY DEF Csv!Init, Csv!Init3, Csv!Init4, Csv!Init5
<1>0. M \in Nat \ {0} /\ 1 \in Csv!Threads
  BY CountsAssumption DEF Csv!Threads
<1>1. CsvFile
  BY DEF Csv!Chunks, CsvFile
<1>2. /\ head = [i \in Csv!Tasks |-> <<>>] /\ main = "join" /\ next_task_idx = 0
      /\ pc = [t \in Csv!Threads |-> "lock"] /\ idx = [t \in Csv!Threads |-> 0]
      /\ global_error_flag = 0
  BY DEF Csv!Chunks
<1>3. ChunksRead /\ ~ AllDone
  BY <1>0, <1>2 DEF ChunksRead, AllDone, Csv!Tasks
<1>4. CsvLists
  BY <1>2, <1>3 DEF CsvLists
<1>5. CsvUnchecked /\ Csv!LinesPrinted
  BY <1>0, <1>2 DEF CsvUnchecked, Csv!LinesPrinted
<1> QED
  BY <1>1, <1>4, <1>5 DEF CsvPrints

\* In stage 3 threads only take and read.
LEMMA CsvUncheckedStep ==
    ASSUME CsvFile, CsvUnchecked, Csv!Next PROVE CsvUnchecked'
<1> SUFFICES ASSUME stage = 3 PROVE CsvUnchecked'
  BY CsvDispatch, LinesStay DEF CsvUnchecked
<1> USE DEF CsvUnchecked, Csv!Goto
<1>0. UNCHANGED stage /\ M \in Nat \ {0}
  BY CsvDispatch, LinesStay, CountsAssumption
<1>1. Csv!PrintLists \/ Csv!TornHeap \/ \E t \in Csv!Threads : Csv!Take(t) \/ Csv!ReadChunk(t)
  BY DEF Csv!Next, Csv!Main, Csv!Join3, Csv!Join4, Csv!Join5, Csv!Step, Csv!Thread3, Csv!Thread4,
         Csv!Thread5
<1>2. ASSUME NEW t \in Csv!Threads, Csv!Take(t) PROVE CsvUnchecked'
  <2>1. CASE next_task_idx < M
    <3>1. next_task_idx \in Csv!Tasks /\ next_task_idx + 1 \in 0 .. M
      BY <1>0, <2>1 DEF Csv!Tasks
    <3>2. /\ pc' = [pc EXCEPT ![t] = "read"] /\ idx' = [idx EXCEPT ![t] = next_task_idx]
          /\ next_task_idx' = next_task_idx + 1 /\ UNCHANGED <<main, global_error_flag>>
      BY <1>2, <2>1 DEF Csv!Take
    <3>3. \A u \in Csv!Threads : pc[u] # "done"
      BY <1>0, <2>1
    <3>4. /\ pc' \in [Csv!Threads -> {"lock", "read", "done"}]
          /\ idx' \in [Csv!Threads -> Csv!Tasks \cup {0}]
          /\ \A u \in Csv!Threads : pc'[u] # "done"
      BY <3>1, <3>2, <3>3
    <3> QED
      BY <1>0, <3>1, <3>2, <3>4 DEF Csv!Threads, Csv!Tasks
  <2>2. CASE ~ next_task_idx < M
    <3>1. next_task_idx = M
      BY <1>0, <2>2
    <3>2. pc' = [pc EXCEPT ![t] = "done"] /\ UNCHANGED <<main, next_task_idx, idx, global_error_flag>>
      BY <1>2, <2>2 DEF Csv!Take
    <3> QED
      BY <1>0, <3>1, <3>2 DEF Csv!Threads, Csv!Tasks
  <2> QED
    BY <2>1, <2>2
<1>3. ASSUME NEW t \in Csv!Threads, Csv!ReadChunk(t) PROVE CsvUnchecked'
  <2>1. Csv!FoundWrong(idx[t]) = {{}}
    BY NoneFound
  <2>2. /\ pc' = [pc EXCEPT ![t] = "lock"]
        /\ UNCHANGED <<main, next_task_idx, idx, global_error_flag>>
    BY <1>3, <2>1 DEF Csv!ReadChunk
  <2> QED
    BY <1>0, <2>2 DEF Csv!Threads, Csv!Tasks
<1>4. CASE Csv!PrintLists \/ Csv!TornHeap
  BY <1>0, <1>4 DEF Csv!PrintLists, Csv!TornHeap, Csv!Threads, Csv!Tasks
<1> QED
  BY <1>1, <1>2, <1>3, <1>4

\* When all threads are behind the second barrier, or done in stage 3, every chunk
\* has its list.
LEMMA ListsThere ==
    ASSUME CsvPrints, stage # 3 => CsvInv, stage # 5 \/ ~ AllDone,
           \A t \in Csv!Threads : pc[t] \in BehindSecond
    PROVE  [i \in 1 .. M |-> head[i - 1]] = AllLists
<1>1. ChunksRead /\ M \in Nat \ {0} /\ 1 \in Csv!Threads
  BY CountsAssumption DEF CsvPrints, CsvLists, Csv!Threads
<1>2. \A i : ~ AtChunk(i)
  BY DEF BehindSecond, AtChunk
<1>3. next_task_idx = M /\ global_error_flag = 0
  <2>1. CASE stage = 3
    <3>1. pc[1] = "done"
      BY <1>1, <2>1 DEF CsvPrints, CsvUnchecked, BehindSecond
    <3> QED
      BY <1>1, <2>1, <3>1 DEF CsvPrints, CsvUnchecked
  <2>2. CASE stage # 3
    <3>1. CsvTypes /\ NothingToTake
      BY <2>2 DEF CsvInv
    <3> QED
      BY <1>1, <3>1 DEF NothingToTake
  <2> QED
    BY <2>1, <2>2
<1>4. \A i \in Csv!Tasks : head[i] = Csv!ListOf(Csv!LinesOf(i))
  BY <1>1, <1>2, <1>3 DEF ChunksRead, Csv!Tasks
<1>5. \A i \in 1 .. M : i - 1 \in Csv!Tasks
  BY <1>1 DEF Csv!Tasks
<1> QED
  BY <1>4, <1>5 DEF AllLists

\* The file does not change: neither do the lists to be made of it.
LEMMA ListsStay ==
    ASSUME UNCHANGED Csv!Data
    PROVE  /\ \A i : Csv!ListOf(Csv!LinesOf(i))' = Csv!ListOf(Csv!LinesOf(i))
           /\ AllLists' = AllLists
<1>1. \A i : Csv!ListOf(Csv!LinesOf(i))' = Csv!ListOf(Csv!LinesOf(i))
  BY LinesStay
<1> QED
  BY <1>1 DEF AllLists

\* What is read stays read while the readers stay at their chunks.
LEMMA ChunksStay ==
    ASSUME ChunksRead, UNCHANGED Csv!Data, UNCHANGED <<next_task_idx, idx, head, global_error_flag>>,
           \A u \in Csv!Threads : pc[u] \in {"read", "mismatch"} => pc'[u] = pc[u]
    PROVE  ChunksRead'
<1>1. \A i : AtChunk(i) => AtChunk(i)'
  BY DEF AtChunk, Csv!Threads
<1> QED
  BY <1>1, ListsStay DEF ChunksRead, Csv!Tasks

LEMMA CsvListsStutter ==
    ASSUME CsvLists, UNCHANGED Csv!Data, UNCHANGED <<pc, next_task_idx, idx, head, global_error_flag>>
    PROVE  CsvLists'
<1>1. UNCHANGED stage /\ AllLists' = AllLists /\ (AllDone' <=> AllDone)
  BY ListsStay, LinesStay DEF AllDone, Csv!Threads
<1>2. ChunksRead => ChunksRead'
  BY ChunksStay
<1>3. Csv!FlattenSeq(AllLists)' = Csv!FlattenSeq(AllLists)
  BY <1>1
<1> QED
  BY <1>1, <1>2, <1>3 DEF CsvLists, Csv!Threads, Csv!Tasks

\* One thread before the second barrier goes on to another place before it.
LEMMA ListsGoOn ==
    ASSUME CsvLists, UNCHANGED Csv!Data, NEW t \in Csv!Threads, NEW S, pc \in [Csv!Threads -> S],
           pc[t] \notin {"done", "concat"}, NEW l, l # "concat", stage # 3 => l # "done",
           pc' = [pc EXCEPT ![t] = l], ChunksRead', head' = [i \in Csv!Tasks |-> head'[i]]
    PROVE  CsvLists'
<1>1. UNCHANGED stage
  BY LinesStay
<1>2. stage = 5 => ~ AllDone'
  BY DEF AllDone, Csv!Threads
<1>3. \A u \in Csv!Threads : pc'[u] # "concat"
  BY DEF CsvLists
<1> QED
  BY <1>1, <1>2, <1>3 DEF CsvLists, Csv!Threads, Csv!Tasks

\* A step of a thread leaves every chunk that was taken with its list, or with a
\* thread at it, or an error reported; concat leaves all lists in the first.
LEMMA CsvListsStep ==
    ASSUME CsvPrints, stage # 3 => CsvInv, Csv!Next
    PROVE  CsvLists'
<1> USE DEF Csv!Goto
<1>0. /\ CsvFile /\ CsvLists /\ CsvUnchecked /\ UNCHANGED Csv!Data /\ UNCHANGED stage
      /\ M \in Nat \ {0} /\ N \in Nat \ {0} /\ 1 \in Csv!Threads /\ 0 \in Csv!Tasks
      /\ next_task_idx \in Nat /\ idx \in [Csv!Threads -> Csv!Tasks \cup {0}]
      /\ head = [i \in Csv!Tasks |-> head[i]]
  BY CountsAssumption, CsvDispatch, LinesStay
     DEF CsvPrints, CsvLists, CsvUnchecked, CsvInv, CsvTypes, Csv!Threads, Csv!Tasks
<1>1. PICK S : pc \in [Csv!Threads -> S]
  BY <1>0 DEF CsvUnchecked, CsvInv, CsvPhases
<1>2. \A t \in Csv!Threads : pc[t] # "done" => ChunksRead
  BY <1>0 DEF CsvLists, AllDone
<1>3. ASSUME NEW t \in Csv!Threads, Csv!Take(t) PROVE CsvLists'
  <2>1. ChunksRead /\ pc[t] = "lock" /\ UNCHANGED <<head, global_error_flag>>
    BY <1>2, <1>3 DEF Csv!Take
  <2>2. CASE global_error_flag = 0 /\ next_task_idx < M
    <3>1. /\ idx' = [idx EXCEPT ![t] = next_task_idx] /\ next_task_idx' = next_task_idx + 1
          /\ pc' = [pc EXCEPT ![t] = "read"]
      BY <1>3, <2>2 DEF Csv!Take
    <3>2. ASSUME NEW i \in Csv!Tasks, i < next_task_idx'
          PROVE  \/ global_error_flag = 1
                 \/ head[i] = Csv!ListOf(Csv!LinesOf(i))
                 \/ \E u \in Csv!Threads : pc'[u] \in {"read", "mismatch"} /\ idx'[u] = i
      <4>1. CASE i = next_task_idx
        BY <1>0, <1>1, <3>1, <4>1
      <4>2. CASE i # next_task_idx
        <5>1. i < next_task_idx
          BY <1>0, <3>1, <3>2, <4>2 DEF Csv!Tasks
        <5> QED
          BY <1>0, <1>1, <2>1, <3>1, <5>1 DEF ChunksRead, AtChunk
      <4> QED
        BY <4>1, <4>2
    <3>3. ChunksRead'
      BY <1>0, <2>1, <3>2, ListsStay DEF ChunksRead, AtChunk, Csv!Tasks, Csv!Threads
    <3> QED
      BY <1>0, <1>1, <2>1, <3>1, <3>3, ListsGoOn
  <2>3. CASE ~ (global_error_flag = 0 /\ next_task_idx < M)
    <3>1. /\ pc' = [pc EXCEPT ![t] = IF stage = 3 THEN "done" ELSE "barrier1"]
          /\ UNCHANGED <<idx, next_task_idx>>
      BY <1>3, <2>3 DEF Csv!Take
    <3>2. ChunksRead'
      BY <1>0, <1>1, <2>1, <3>1, ChunksStay
    <3> QED
      BY <1>0, <1>1, <2>1, <3>1, <3>2, ListsGoOn
  <2> QED
    BY <2>2, <2>3
<1>4. ASSUME NEW t \in Csv!Threads, Csv!ReadChunk(t) PROVE CsvLists'
  <2>1. PICK wrong \in Csv!FoundWrong(idx[t]) :
           /\ ChunksRead /\ pc[t] = "read" /\ UNCHANGED <<idx, next_task_idx, global_error_flag>>
           /\ head' = [head EXCEPT ![idx[t]] = Csv!ListOf(Csv!Before(idx[t], wrong))]
           /\ pc' = [pc EXCEPT ![t] = IF wrong # {} THEN "mismatch"
                                      ELSE IF stage = 3 THEN "lock" ELSE "check"]
    BY <1>2, <1>4 DEF Csv!ReadChunk
  <2>2. PICK l \in {"mismatch", "lock", "check"} :
           pc' = [pc EXCEPT ![t] = l] /\ (l # "mismatch" => wrong = {})
    BY <2>1
  <2>3. ASSUME NEW i \in Csv!Tasks, i < next_task_idx
        PROVE  \/ global_error_flag = 1
               \/ head'[i] = Csv!ListOf(Csv!LinesOf(i))
               \/ \E u \in Csv!Threads : pc'[u] \in {"read", "mismatch"} /\ idx'[u] = i
    <3>1. CASE i = idx[t] /\ l = "mismatch"
      BY <1>1, <2>1, <2>2, <3>1
    <3>2. CASE i = idx[t] /\ l # "mismatch"
      BY <1>0, <2>1, <2>2, <3>2, NoneFound
    <3>3. CASE i # idx[t]
      <4>1. head'[i] = head[i]
        BY <1>0, <2>1, <3>3
      <4> QED
        BY <1>0, <1>1, <2>1, <2>2, <2>3, <3>3, <4>1 DEF ChunksRead, AtChunk
    <3> QED
      BY <3>1, <3>2, <3>3
  <2>4. ChunksRead'
    BY <1>0, <2>1, <2>3, ListsStay DEF ChunksRead, AtChunk, Csv!Tasks, Csv!Threads
  <2>5. head' = [i \in Csv!Tasks |-> head'[i]]
    BY <1>0, <2>1
  <2> QED
    BY <1>0, <1>1, <2>1, <2>2, <2>4, <2>5, ListsGoOn
<1>5. ASSUME NEW t \in Csv!Threads, Csv!Mismatch(t) \/ Csv!CheckFlag(t) PROVE CsvLists'
  <2>1. /\ pc[t] \in {"mismatch", "check"} /\ UNCHANGED <<idx, next_task_idx, head>>
        /\ \E l \in {"check", "barrier1", "lock"} : pc' = [pc EXCEPT ![t] = l]
    BY <1>5 DEF Csv!Mismatch, Csv!CheckFlag
  <2>2. ChunksRead'
    <3>1. CASE Csv!Mismatch(t)
      BY <3>1 DEF Csv!Mismatch, ChunksRead
    <3>2. CASE Csv!CheckFlag(t)
      <4>1. pc[t] = "check" /\ UNCHANGED global_error_flag
        BY <3>2 DEF Csv!CheckFlag
      <4> QED
        BY <1>0, <1>1, <1>2, <2>1, <4>1, ChunksStay
    <3> QED
      BY <1>5, <3>1, <3>2
  <2> QED
    BY <1>0, <1>1, <2>1, <2>2, ListsGoOn
<1>6. ASSUME NEW t \in Csv!Threads, Csv!Barrier1(t) \/ Csv!Barrier2(t) PROVE CsvLists'
  <2>0. stage # 3 /\ CsvInv
    BY <1>0, <1>6 DEF CsvUnchecked, Csv!Barrier1, Csv!Barrier2, Csv!BarrierWait
  <2>1. /\ pc[t] \in {"barrier1", "barrier2"} /\ ChunksRead
        /\ UNCHANGED <<idx, next_task_idx, head, global_error_flag>>
    BY <1>2, <1>6 DEF Csv!Barrier1, Csv!Barrier2, Csv!BarrierWait
  <2>2. CASE \E l \in {"at1", "at2"} : pc' = [pc EXCEPT ![t] = l]
    <3>1. ChunksRead'
      BY <1>0, <1>1, <2>1, <2>2, ChunksStay
    <3> QED
      BY <1>0, <1>1, <2>0, <2>1, <2>2, <3>1, ListsGoOn
  <2>3. ASSUME ~ \E l \in {"at1", "at2"} : pc' = [pc EXCEPT ![t] = l]
        PROVE  /\ ~ arrived < N - 1
               /\ \A u \in Csv!Threads : pc[u] \notin {"read", "mismatch"}
    <3>1. ~ arrived < N - 1
      BY <1>6, <2>3 DEF Csv!Barrier1, Csv!Barrier2, Csv!BarrierWait
    <3>2. CASE Csv!Barrier1(t)
      <4>1. arrived = Cardinality(At(1 .. N, {"at1"})) /\ pc[t] = "barrier1" /\ t \in 1 .. N
        BY <2>0, <3>2
           DEF CsvInv, CsvPhases, Csv!Barrier1, Csv!BarrierWait, BeforeSecond, BehindSecond, Csv!Threads
      <4>2. \A u \in 1 .. N : u # t => pc[u] = "at1"
        BY <3>1, <4>1, LastFindsAll
      <4> QED
        BY <3>1, <4>1, <4>2 DEF Csv!Threads
    <3>3. CASE Csv!Barrier2(t)
      <4>1. pc \in [Csv!Threads -> BeforeSecond]
        BY <2>0, <3>3 DEF CsvInv, CsvPhases, Csv!Barrier2, Csv!BarrierWait, BeforeFirst, BehindSecond
      <4> QED
        BY <3>1, <4>1 DEF BeforeSecond
    <3> QED
      BY <1>6, <3>2, <3>3
  <2>4. CASE /\ ~ arrived < N - 1
             /\ \A u \in Csv!Threads : pc[u] \notin {"read", "mismatch"}
    <3>1. ChunksRead'
      BY <1>0, <2>1, <2>4, ChunksStay
    <3>2. CASE Csv!Barrier1(t)
      <4>1. \A u \in Csv!Threads : pc'[u] = "flag"
        BY <2>4, <3>2 DEF Csv!Barrier1, Csv!BarrierWait
      <4>2. ~ AllDone'
        BY <1>0, <4>1 DEF AllDone, Csv!Threads
      <4> QED
        BY <1>0, <2>1, <3>1, <4>1, <4>2 DEF CsvLists, Csv!Threads, Csv!Tasks
    <3>3. CASE Csv!Barrier2(t)
      <4>1. PICK s \in Csv!Threads :
                pc' = [u \in Csv!Threads |->
                          IF u = s THEN IF stage = 5 THEN "concat" ELSE "done" ELSE "done"]
        BY <2>4, <3>3 DEF Csv!Barrier2, Csv!BarrierWait
      <4>2. stage = 5 => ~ AllDone'
        BY <4>1 DEF AllDone, Csv!Threads
      <4>3. \A u, v \in Csv!Threads : pc'[u] = "concat" => stage = 5 /\ (v # u => pc'[v] = "done")
        BY <4>1
      <4> QED
        BY <1>0, <2>1, <3>1, <4>2, <4>3 DEF CsvLists, Csv!Threads, Csv!Tasks
    <3> QED
      BY <1>6, <3>2, <3>3
  <2> QED
    BY <2>2, <2>3, <2>4
<1>7. ASSUME NEW t \in Csv!Threads, Csv!ReadFlag(t) PROVE CsvLists'
  <2>1. pc[t] = "flag" /\ UNCHANGED <<idx, next_task_idx, head, global_error_flag>>
    BY <1>7 DEF Csv!ReadFlag
  <2>2. CASE UNCHANGED pc
    BY <1>0, <2>1, <2>2, CsvListsStutter
  <2>3. CASE pc' = [pc EXCEPT ![t] = "barrier2"]
    <3>1. ChunksRead'
      BY <1>0, <1>1, <1>2, <2>1, <2>3, ChunksStay
    <3> QED
      BY <1>0, <1>1, <2>1, <2>3, <3>1, ListsGoOn
  <2> QED
    BY <1>7, <2>2, <2>3 DEF Csv!ReadFlag
<1>8. ASSUME NEW t \in Csv!Threads, Csv!Concat(t) PROVE CsvLists'
  <2>1. pc[t] = "concat" /\ stage = 5 /\ \A u \in Csv!Threads : u # t => pc[u] = "done"
    BY <1>0, <1>8 DEF Csv!Concat, CsvLists
  <2>2. CASE UNCHANGED <<pc, head>>
    BY <1>0, <1>8, <2>2, CsvListsStutter DEF Csv!Concat
  <2>3. CASE /\ head' = [head EXCEPT ![0] = Csv!FlattenSeq([i \in 1 .. M |-> head[i - 1]])]
             /\ pc' = [pc EXCEPT ![t] = "done"]
    <3>1. \A u \in Csv!Threads : pc[u] \in BehindSecond
      BY <2>1 DEF BehindSecond
    <3>2. ~ AllDone
      BY <2>1 DEF AllDone
    <3>3. [i \in 1 .. M |-> head[i - 1]] = AllLists
      BY <3>1, <3>2, ListsThere
    <3>4. head'[0] = Csv!FlattenSeq(AllLists)
      BY <1>0, <2>3, <3>3
    <3>5. Csv!FlattenSeq(AllLists)' = Csv!FlattenSeq(AllLists)
      BY <1>0, ListsStay
    <3>6. \A u \in Csv!Threads : pc'[u] = "done"
      BY <1>1, <2>1, <2>3
    <3>7. head' = [i \in Csv!Tasks |-> head'[i]]
      BY <1>0, <2>3
    <3> QED
      BY <1>0, <2>1, <3>4, <3>5, <3>6, <3>7 DEF CsvLists, AllDone, Csv!Threads, Csv!Tasks
  <2> QED
    BY <1>8, <2>2, <2>3 DEF Csv!Concat
<1>9. CASE Csv!PrintLists \/ Csv!TornHeap
  BY <1>0, <1>9, CsvListsStutter DEF Csv!PrintLists, Csv!TornHeap
<1> QED
  BY <1>3, <1>4, <1>5, <1>6, <1>7, <1>8, <1>9, CsvDispatch DEF CsvActions

\* main prints when every thread is done: then all lists are there, behind one
\* another in stage 5; concat ends in a NULL head only when chunks have no bytes. The
\* other crash is of torn chunks.
LEMMA LinesPrintedStep ==
    ASSUME CsvPrints, stage # 3 => CsvInv, Csv!Next
    PROVE  Csv!LinesPrinted'
<1>0. /\ CsvFile /\ CsvLists /\ UNCHANGED Csv!Data /\ M \in Nat \ {0}
      /\ \A i : Csv!offset(i)' = Csv!offset(i)
      /\ UNCHANGED <<stage, starts, data_size>>
  BY CountsAssumption, CsvDispatch, LinesStay DEF CsvPrints
<1>1. CASE Csv!PrintLists
  <2>1. AllDone /\ UNCHANGED head /\ main' = "printed"
    BY <1>1 DEF Csv!PrintLists, AllDone
  <2>2. Csv!Printed = Csv!FlattenSeq(AllLists)
    <3>1. CASE stage = 5
      BY <1>0, <2>1, <3>1 DEF CsvLists, Csv!Printed
    <3>2. CASE stage # 5
      <4>1. \A t \in Csv!Threads : pc[t] \in BehindSecond
        BY <2>1 DEF AllDone, BehindSecond
      <4> QED
        BY <3>2, <4>1, ListsThere DEF Csv!Printed
    <3> QED
      BY <3>1, <3>2
  <2>3. Csv!Printed' = Csv!Printed
    BY <1>0, <2>1 DEF Csv!Printed
  <2>4. /\ Csv!IsInjective(Csv!Printed)
        /\ {Csv!Printed[k] : k \in DOMAIN Csv!Printed}
              = starts \ {Csv!offset(i) : i \in Csv!Tasks \ {0}}
    BY <1>0, <2>2, PrintedLines
  <2> QED
    BY <1>0, <2>1, <2>3, <2>4 DEF Csv!LinesPrinted, Csv!Tasks, Csv!IsInjective
<1>2. ASSUME NEW t \in Csv!Threads, Csv!Concat(t) PROVE Csv!LinesPrinted'
  <2>1. CASE UNCHANGED main
    BY <1>2, <2>1 DEF Csv!LinesPrinted, Csv!Concat
  <2>2. CASE ~ UNCHANGED main
    <3>1. main' = "crash" /\ head[0] = <<>> /\ M > 1 /\ pc[t] = "concat"
      BY <1>2, <2>2 DEF Csv!Concat
    <3>2. /\ \A u \in Csv!Threads : pc[u] \in BehindSecond
          /\ ~ AllDone
      BY <1>0, <3>1 DEF CsvLists, BehindSecond, AllDone
    <3>3. [i \in 1 .. M |-> head[i - 1]] = AllLists
      BY <3>2, ListsThere
    <3>4. 1 \in 1 .. M /\ 0 \in Csv!Tasks /\ 1 - 1 = 0
      BY <1>0 DEF Csv!Tasks
    <3>5. Csv!ListOf(Csv!LinesOf(0)) = <<>>
      <4>1. AllLists[1] = Csv!ListOf(Csv!LinesOf(0))
        BY <3>4 DEF AllLists
      <4>2. [i \in 1 .. M |-> head[i - 1]][1] = head[0]
        BY <3>4
      <4> QED
        BY <3>1, <3>3, <4>1, <4>2
    <3>6. Lists(<<>>, Csv!LinesOf(0))
      BY <1>0, <3>4, <3>5, LinesOfChunk, ListIs
    <3>7. Csv!LinesOf(0) = {}
      BY <3>6 DEF Lists
    <3>8. data_size < M
      BY <1>0, <3>1, <3>7, FirstChunk
    <3> QED
      BY <1>0, <3>1, <3>8 DEF Csv!LinesPrinted
  <2> QED
    BY <2>1, <2>2
<1>3. ASSUME NEW t \in Csv!Threads, CsvActions(t), ~ Csv!Concat(t) PROVE Csv!LinesPrinted'
  <2>1. main' \in {"join", "failure"}
    BY <1>3
       DEF CsvActions, Csv!Take, Csv!ReadChunk, Csv!Mismatch, Csv!CheckFlag, Csv!Barrier1,
           Csv!Barrier2, Csv!BarrierWait, Csv!ReadFlag
  <2> QED
    BY <2>1 DEF Csv!LinesPrinted
<1>4. CASE Csv!TornHeap
  BY <1>4 DEF Csv!TornHeap, Csv!LinesPrinted
<1> QED
  BY <1>1, <1>2, <1>3, <1>4, CsvDispatch

LEMMA CsvPrintsStep ==
    ASSUME CsvPrints, stage # 3 => CsvInv, Csv!Next
    PROVE  CsvPrints' /\ UNCHANGED stage
<1>1. CsvFile' /\ UNCHANGED stage
  BY CsvDispatch, LinesStay DEF CsvPrints, CsvFile
<1>2. CsvUnchecked'
  BY CsvUncheckedStep DEF CsvPrints
<1> QED
  BY <1>1, <1>2, CsvListsStep, LinesPrintedStep DEF CsvPrints

LEMMA CsvPrintsStutter ==
    ASSUME CsvPrints, UNCHANGED <<Csv!Data, main, pc, next_task_idx, idx, head, global_error_flag, torn>>
    PROVE  CsvPrints'
<1>1. CsvFile /\ CsvLists /\ CsvUnchecked /\ Csv!LinesPrinted /\ UNCHANGED Csv!Data
  BY DEF CsvPrints
<1>2. UNCHANGED <<stage, data_size, starts>> /\ \A i : Csv!offset(i)' = Csv!offset(i)
  BY <1>1, LinesStay
<1>3. CsvFile' /\ CsvUnchecked'
  BY <1>1, <1>2 DEF CsvFile, CsvUnchecked, Csv!Threads, Csv!Tasks
<1>4. CsvLists'
  BY <1>1, CsvListsStutter
<1>5. Csv!Printed' = Csv!Printed
  BY <1>2 DEF Csv!Printed
<1>6. Csv!LinesPrinted'
  BY <1>1, <1>2, <1>5 DEF Csv!LinesPrinted, Csv!Tasks, Csv!IsInjective
<1> QED
  BY <1>3, <1>4, <1>6 DEF CsvPrints

-----------------------------------------------------------------------------
(* The five programs together *)

LEMMA Initially == Init => IInv
<1> SUFFICES ASSUME Init PROVE IInv
  OBVIOUS
<1>1. /\ program = "csv" => Csv!Init
      /\ program = "sqrt" => Sqrt!Init
      /\ program = "dice" => Dice!Init
      /\ program = "alarm" => Alarm!Init
      /\ program = "readers" => Reader!Init
  BY DEF Init
<1> QED
  BY <1>1, CsvInit, CsvPrintsInit, SqrtInit, DiceInit, AlarmInit, ReaderInit DEF IInv

LEMMA Inductive == IInv /\ [Next]_vars => IInv'
<1> SUFFICES ASSUME IInv, [Next]_vars PROVE IInv'
  OBVIOUS
<1>1. CASE CsvStep(Csv!Next)
  <2>1. program = "csv" /\ program' = "csv" /\ Csv!Next
    BY <1>1 DEF CsvStep
  <2>2. CsvPrints /\ (stage # 3 => CsvInv)
    BY <2>1 DEF IInv
  <2>3. CsvPrints' /\ UNCHANGED stage /\ (stage # 3 => CsvInv')
    BY <2>1, <2>2, CsvPrintsStep, CsvNext
  <2> QED
    BY <2>1, <2>3 DEF IInv
<1>2. CASE SqrtStep(Sqrt!Next)
  <2>1. program = "sqrt" /\ program' = "sqrt" /\ Sqrt!Next
    BY <1>2 DEF SqrtStep
  <2>2. stage' = stage
    BY <2>1
       DEF Sqrt!Next, Sqrt!Main, Sqrt!Join3, Sqrt!Join4, Sqrt!Step, Sqrt!Thread3, Sqrt!Thread4,
           Sqrt!PrintArrays, Sqrt!CheckLeft, Sqrt!Pick, Sqrt!Lock, Sqrt!Work, Sqrt!CountDown,
           Sqrt!Unlock
  <2> QED
    BY <2>1, <2>2, SqrtNext DEF IInv
<1>3. CASE DiceStep(Dice!Next)
  BY <1>3, DiceNext DEF DiceStep, IInv
<1>4. CASE AlarmStep(Alarm!Next)
  BY <1>4, AlarmNext DEF AlarmStep, IInv
<1>5. CASE ReaderStep(Reader!Next)
  BY <1>5, ReaderNext DEF ReaderStep, IInv
<1>6. CASE UNCHANGED vars
  <2> USE <1>6 DEF vars, csvOnly, sqrtOnly, diceOnly, readerOnly
  <2>1. CsvInv => CsvInv'
    <3>1. \A i : WrongChunk(i)' <=> WrongChunk(i)
      BY FileStays DEF Csv!Data
    <3>2. ErrorIsWrong /\ WrongIsKnown => ErrorIsWrong' /\ WrongIsKnown'
      BY <3>1 DEF ErrorIsWrong, WrongIsKnown, AtChunk, Csv!Tasks, Csv!Threads
    <3>3. Csv!AllOrNothing => Csv!AllOrNothing'
      BY <3>1 DEF Csv!AllOrNothing, WrongChunk, Csv!Tasks
    <3>4. CsvPhases /\ NothingToTake => CsvPhases' /\ NothingToTake'
      BY DEF CsvPhases, NothingToTake, At, Csv!Threads
    <3> QED
      BY <3>2, <3>3, <3>4 DEF CsvInv, CsvTypes, Csv!Threads, Csv!Tasks
  <2>2. SqrtInv => SqrtInv'
    BY DEF SqrtInv, SqrtTypes, CellOwner, CellOpen, Sqrt!CellsCountedOnce, Sqrt!Threads, Sqrt!Cells
  <2>3. DiceInv => DiceInv'
    BY DEF DiceInv, At, Dice!Players
  <2>4. AlarmInv => AlarmInv'
    BY DEF AlarmInv, Alarm!SlotsBalance, Alarm!Alarms
  <2>5. ReaderInv => ReaderInv'
    BY DEF ReaderInv, ReaderTypes, MutexOwner, RequestThere, Reader!ReadsWereRequested, Reader!Threads,
           Reader!DoWork
  <2>6. CsvPrints => CsvPrints'
    BY CsvPrintsStutter DEF Csv!Data
  <2> QED
    BY <2>1, <2>2, <2>3, <2>4, <2>5, <2>6 DEF IInv
<1> QED
  BY <1>1, <1>2, <1>3, <1>4, <1>5, <1>6 DEF Next

\* Whichever program runs, its part of the invariant always holds.
THEOREM Invariance == Spec => []IInv
BY Initially, Inductive, PTL DEF Spec

-----------------------------------------------------------------------------
(* The properties of the programs *)

\* The CSV reader of task1_4.c and task1_5.c fails only because of a chunk that holds a
\* wrong line or was torn by another thread's strtok, and prints only when no error was
\* reported and every chunk with a wrong line was torn: for every number of threads and
\* chunks and every file.
THEOREM CsvAllOrNothing == Spec => []AllOrNothing
<1>1. IInv => AllOrNothing
  <2>1. CASE stage = 3
    BY <2>1 DEF IInv, CsvPrints, CsvUnchecked, AllOrNothing, Csv!AllOrNothing
  <2>2. CASE stage # 3
    BY <2>2 DEF IInv, CsvInv, AllOrNothing
  <2> QED
    BY <2>1, <2>2
<1> QED
  BY <1>1, Invariance, PTL

\* What the CSV reader prints, in each of its stages, is every line of the file once but
\* those that begin exactly at the border of two chunks, also when chunks were torn; and
\* concat meets a NULL head only when the chunks have no bytes, so the other crashes are of
\* torn chunks: for every number of threads and chunks and every file, whoever takes which
\* chunk when.
THEOREM CsvLinesPrinted == Spec => []LinesPrinted
<1>1. IInv => LinesPrinted
  BY DEF IInv, CsvPrints, LinesPrinted
<1> QED
  BY <1>1, Invariance, PTL

\* The square roots: every cell is computed and counted once, and no thread of
\* task1_4.c ends before all cells are done.
THEOREM SqrtCountedOnce == Spec => []CellsCountedOnce
<1>1. IInv => CellsCountedOnce
  BY DEF IInv, SqrtInv, CellsCountedOnce, Sqrt!CellsCountedOnce
<1> QED
  BY <1>1, Invariance, PTL

\* The dice: points are given while everybody has rolled for the same round and
\* nobody has gone on.
THEOREM DiceRollsOfOneRound == Spec => []RollsOfOneRound
<1>1. IInv => RollsOfOneRound
  BY DiceOneRound DEF IInv, RollsOfOneRound
<1> QED
  BY <1>1, Invariance, PTL

\* The alarms: the slots are conserved until do_work returns.
THEOREM AlarmSlotsBalance == Spec => []SlotsBalance
<1>1. IInv => SlotsBalance
  BY DEF IInv, AlarmInv, SlotsBalance
<1> QED
  BY <1>1, Invariance, PTL

\* The reader pool: no request is taken twice, and idlethreads is exact.
THEOREM ReaderRequested == Spec => []ReadsWereRequested
<1>1. IInv => ReadsWereRequested
  BY DEF IInv, ReaderInv, ReadsWereRequested
<1> QED
  BY <1>1, Invariance, PTL

-----------------------------------------------------------------------------
(* The joins *)

\* What a thread of each program can do now.
CsvRuns(t) ==
    \/ pc[t] \in {"lock", "read"}
    \/ stage # 3 /\ pc[t] \in {"mismatch", "check", "barrier1", "flag", "barrier2"}
    \/ stage = 5 /\ pc[t] = "concat"
SqrtRuns(t) ==
    \/ pc[t] \in {"pick", "work", "unlock"}
    \/ stage = 4 /\ pc[t] \in {"check", "count"}
    \/ pc[t] = "lock" /\ mx_cells[IF stage = 4 THEN index[t] ELSE 1] = Sqrt!Free
DiceRuns(t) == pc[t] \in {"roll", "barrier1", "assign", "barrier2"}
ReaderRuns(t) ==
    \/ pc[t] \in {"test", "enter", "take", "read"}
    \/ pc[t] \in {"lock", "relock"} /\ mutex = Reader!Free

Runs(t) ==
    \/ program = "csv" /\ CsvRuns(t)
    \/ program = "sqrt" /\ SqrtRuns(t)
    \/ program = "dice" /\ DiceRuns(t)
    \/ program = "readers" /\ ReaderRuns(t)

\* While main joins its threads, one of them can go on or all have ended, unless a
\* reader missed the broadcast.
JoinsGoOn ==
    main = "join" =>
        \/ \A t \in 1 .. N : pc[t] \in {"done", "exit"}
        \/ \E t \in 1 .. N : Runs(t)
        \/ program = "readers" /\ missed

\* A barrier opens before all wait at it.
BarrierNotFull == arrived \in Nat /\ arrived < N

\* tasl1_3.c: the one mutex is with a thread that works or is about to unlock it.
OneMutex ==
    /\ pc \in [Sqrt!Threads -> {"pick", "lock", "work", "unlock", "done"}]
    /\ mx_cells \in [Sqrt!Cells -> 0 .. N]
    /\ \A t \in Sqrt!Threads : mx_cells[1] = t => pc[t] \in {"work", "unlock"}

\* Once main has broadcast the end, nobody sleeps who has heard it, and nobody goes to
\* sleep again.
BroadcastHeard ==
    /\ mutex \in Reader!Threads \cup {Reader!Free, Reader!DoWork}
    /\ main \in {"join", "exit"} =>
          /\ work = 0
          /\ missed \/ \A t \in Reader!Threads : pc[t] \notin {"enter", "asleep"}

JoinInv ==
    /\ program \in {"csv", "sqrt", "dice", "alarm", "readers"}
    /\ program \in {"csv", "dice"} => BarrierNotFull
    /\ program = "sqrt" => stage \in {3, 4}
    /\ program = "sqrt" /\ stage = 3 => OneMutex
    /\ program = "readers" => BroadcastHeard

LEMMA JoinInit == Init => JoinInv
<1> SUFFICES ASSUME Init PROVE JoinInv
  OBVIOUS
<1>1. /\ program = "csv" => Csv!Init
      /\ program = "sqrt" => Sqrt!Init
      /\ program = "dice" => Dice!Init
      /\ program = "readers" => Reader!Init
  BY DEF Init
<1>2. N \in Nat \ {0}
  BY CountsAssumption
<1>3. program \in {"csv", "dice"} => BarrierNotFull
  BY <1>1, <1>2
     DEF BarrierNotFull, Csv!Init, Csv!Init3, Csv!Init4, Csv!Init5, Csv!Chunks, Dice!Init
<1>4. program = "sqrt" => stage \in {3, 4} /\ (stage = 3 => OneMutex)
  BY <1>1, <1>2, CountsAssumption
     DEF OneMutex, Sqrt!Init, Sqrt!Init3, Sqrt!Init4, Sqrt!Arrays, Sqrt!Threads, Sqrt!Cells, Sqrt!Free
<1>5. program = "readers" => BroadcastHeard
  BY <1>1 DEF BroadcastHeard, Reader!Init, Reader!Free
<1> QED
  BY <1>3, <1>4, <1>5 DEF JoinInv, Init

\* A thread that comes to a barrier adds one or opens it.
LEMMA CsvNotFull ==
    ASSUME BarrierNotFull, Csv!Next
    PROVE  BarrierNotFull'
<1>0. N \in Nat \ {0}
  BY CountsAssumption
<1>1. CASE Csv!Main \/ Csv!TornHeap
  BY <1>1
     DEF BarrierNotFull, Csv!Main, Csv!Join3, Csv!Join4, Csv!Join5, Csv!PrintLists, Csv!TornHeap
<1>2. ASSUME NEW t \in Csv!Threads, Csv!Barrier1(t) \/ Csv!Barrier2(t) PROVE BarrierNotFull'
  BY <1>0, <1>2 DEF BarrierNotFull, Csv!Barrier1, Csv!Barrier2, Csv!BarrierWait
<1>3. ASSUME NEW t \in Csv!Threads,
             \/ Csv!Take(t) \/ Csv!ReadChunk(t) \/ Csv!Mismatch(t) \/ Csv!CheckFlag(t)
             \/ Csv!ReadFlag(t) \/ Csv!Concat(t)
      PROVE  BarrierNotFull'
  BY <1>3
     DEF BarrierNotFull, Csv!Take, Csv!ReadChunk, Csv!Mismatch, Csv!CheckFlag, Csv!ReadFlag, Csv!Concat
<1> QED
  BY <1>1, <1>2, <1>3
     DEF Csv!Next, Csv!Step, Csv!Thread3, Csv!Thread4, Csv!Thread5, Csv!Checked

LEMMA DiceNotFull ==
    ASSUME BarrierNotFull, Dice!Next
    PROVE  BarrierNotFull'
<1>0. N \in Nat \ {0}
  BY CountsAssumption
<1>1. ASSUME NEW p \in Dice!Players, Dice!Barrier1(p) \/ Dice!Barrier2(p) PROVE BarrierNotFull'
  BY <1>0, <1>1 DEF BarrierNotFull, Dice!Barrier1, Dice!Barrier2
<1>2. ASSUME NEW p \in Dice!Players, Dice!Roll(p) \/ Dice!Assign(p) PROVE BarrierNotFull'
  BY <1>2 DEF BarrierNotFull, Dice!Roll, Dice!Assign
<1>3. CASE Dice!PrintScores
  BY <1>3 DEF BarrierNotFull, Dice!PrintScores
<1> QED
  BY <1>1, <1>2, <1>3 DEF Dice!Next, Dice!Step

LEMMA OneMutexStep ==
    ASSUME OneMutex, stage = 3, Sqrt!Next
    PROVE  OneMutex' /\ stage' = stage
<1> USE DEF OneMutex, Sqrt!Threads, Sqrt!Cells, Sqrt!Free, Sqrt!Goto
<1>0. N \in Nat \ {0} /\ K \in Nat \ {0} /\ 1 \in 1 .. K
  BY CountsAssumption
<1>1. ASSUME NEW t \in Sqrt!Threads, Sqrt!Pick(t) PROVE OneMutex' /\ stage' = stage
  BY <1>0, <1>1 DEF Sqrt!Pick
<1>2. ASSUME NEW t \in Sqrt!Threads, Sqrt!Lock(t) PROVE OneMutex' /\ stage' = stage
  BY <1>0, <1>2 DEF Sqrt!Lock
<1>3. ASSUME NEW t \in Sqrt!Threads, Sqrt!Work(t) PROVE OneMutex' /\ stage' = stage
  BY <1>0, <1>3 DEF Sqrt!Work
<1>4. ASSUME NEW t \in Sqrt!Threads, Sqrt!Unlock(t) PROVE OneMutex' /\ stage' = stage
  BY <1>0, <1>4 DEF Sqrt!Unlock
<1>5. CASE Sqrt!PrintArrays
  BY <1>5 DEF Sqrt!PrintArrays
<1> QED
  BY <1>1, <1>2, <1>3, <1>4, <1>5
     DEF Sqrt!Next, Sqrt!Main, Sqrt!Join3, Sqrt!Join4, Sqrt!Step, Sqrt!Thread3, Sqrt!Thread4

\* After SIGINT a reader that tests work does not wait.
LEMMA HeardStep ==
    ASSUME ReaderInv, BroadcastHeard, Reader!Next
    PROVE  BroadcastHeard'
<1> USE DEF BroadcastHeard, Reader!Threads, Reader!Goto, Reader!Free, Reader!DoWork
<1>0. /\ pc \in [1 .. N -> ReaderPCs] /\ work \in {0, 1}
      /\ main \in {"input", "fgets", "none", "unlock", "set", "signal", "join", "exit"}
  BY DEF ReaderInv, ReaderTypes
<1>1. CASE Reader!Interrupt
  BY <1>0, <1>1 DEF Reader!Interrupt
<1>2. CASE Reader!Request \/ Reader!UnlockPool \/ Reader!SetCondition \/ Reader!Signal
  BY <1>0, <1>2 DEF Reader!Request, Reader!UnlockPool, Reader!SetCondition, Reader!Signal
<1>3. CASE Reader!Broadcast
  BY <1>0, <1>3 DEF Reader!Broadcast, Reader!Asleep
<1>4. CASE Reader!Join
  BY <1>0, <1>4 DEF Reader!Join
<1>5. ASSUME NEW t \in 1 .. N, Reader!Test(t) PROVE BroadcastHeard'
  BY <1>0, <1>5 DEF Reader!Test
<1>6. ASSUME NEW t \in 1 .. N, Reader!TakeRequest(t) PROVE BroadcastHeard'
  BY <1>0, <1>6 DEF Reader!TakeRequest
<1>7. ASSUME NEW t \in 1 .. N, Reader!Wait(t) PROVE BroadcastHeard'
  BY <1>0, <1>7 DEF Reader!Wait
<1>8. ASSUME NEW t \in 1 .. N, Reader!Spurious(t) \/ Reader!ReadDone(t) PROVE BroadcastHeard'
  BY <1>0, <1>8 DEF Reader!Spurious, Reader!ReadDone
<1>9. ASSUME NEW t \in 1 .. N, Reader!Idle(t) \/ Reader!Relock(t) PROVE BroadcastHeard'
  BY <1>0, <1>9 DEF Reader!Idle, Reader!Relock
<1>10. CASE Reader!TestWork \/ Reader!Interrupted
  BY <1>0, <1>10 DEF Reader!TestWork, Reader!Interrupted
<1> QED
  BY <1>1, <1>2, <1>3, <1>4, <1>5, <1>6, <1>7, <1>8, <1>9, <1>10
     DEF Reader!Next, Reader!MainStep, Reader!Step

LEMMA JoinStep == IInv /\ JoinInv /\ [Next]_vars => JoinInv'
<1> SUFFICES ASSUME IInv, JoinInv, [Next]_vars PROVE JoinInv'
  OBVIOUS
<1>1. CASE CsvStep(Csv!Next)
  BY <1>1, CsvNotFull DEF CsvStep, JoinInv
<1>2. CASE SqrtStep(Sqrt!Next)
  <2>1. stage' = stage
    BY <1>2
       DEF SqrtStep, Sqrt!Next, Sqrt!Main, Sqrt!Join3, Sqrt!Join4, Sqrt!Step, Sqrt!Thread3,
           Sqrt!Thread4, Sqrt!PrintArrays, Sqrt!CheckLeft, Sqrt!Pick, Sqrt!Lock, Sqrt!Work,
           Sqrt!CountDown, Sqrt!Unlock
  <2> QED
    BY <1>2, <2>1, OneMutexStep DEF SqrtStep, JoinInv
<1>3. CASE DiceStep(Dice!Next)
  BY <1>3, DiceNotFull DEF DiceStep, JoinInv
<1>4. CASE AlarmStep(Alarm!Next)
  BY <1>4 DEF AlarmStep, JoinInv
<1>5. CASE ReaderStep(Reader!Next)
  BY <1>5, HeardStep DEF ReaderStep, JoinInv, IInv
<1>6. CASE UNCHANGED vars
  BY <1>6
     DEF vars, csvOnly, sqrtOnly, diceOnly, readerOnly, JoinInv, BarrierNotFull, OneMutex,
         BroadcastHeard, Sqrt!Threads, Sqrt!Cells, Reader!Threads, Reader!Free, Reader!DoWork
<1> QED
  BY <1>1, <1>2, <1>3, <1>4, <1>5, <1>6 DEF Next

\* At a barrier that is not full somebody is missing.
LEMMA SomebodyMissing ==
    ASSUME NEW l, BarrierNotFull, arrived = Cardinality(At(1 .. N, {l}))
    PROVE  \E t \in 1 .. N : pc[t] # l
<1> SUFFICES ASSUME \A t \in 1 .. N : pc[t] = l PROVE FALSE
  OBVIOUS
<1>1. At(1 .. N, {l}) = 1 .. N
  BY DEF At
<1>2. Cardinality(1 .. N) = N
  BY CountsAssumption, FS_Interval
<1> QED
  BY <1>1, <1>2, CountsAssumption DEF BarrierNotFull

\* main joins its threads, and until the last has ended one of them can go on, for every
\* number of threads, chunks, cells and rounds, every file and every choice of cells:
\* nobody is left behind at a barrier (task1_4.c, task1_5.c and the dice game), the
\* mutexes of the square roots do not block each other, and of the readers none
\* sleeps on after SIGINT but one that was between its test of work and its wait.
THEOREM JoinsNeverStuck == Spec => []JoinsGoOn
<1>1. ASSUME IInv, JoinInv PROVE JoinsGoOn
  <2> SUFFICES ASSUME main = "join", \A t \in 1 .. N : ~ Runs(t), ~ (program = "readers" /\ missed)
               PROVE  \A t \in 1 .. N : pc[t] \in {"done", "exit"}
    BY DEF JoinsGoOn
  <2> USE DEF Csv!Threads, Sqrt!Threads, Dice!Players, Reader!Threads
  <2>1. CASE program = "csv" /\ stage = 3
    BY <1>1, <2>1 DEF Runs, CsvRuns, IInv, CsvPrints, CsvUnchecked
  <2>2. CASE program = "csv" /\ stage # 3
    <3>1. CsvPhases /\ BarrierNotFull
      BY <1>1, <2>2 DEF IInv, CsvInv, JoinInv
    <3>2. \A t \in 1 .. N : pc[t] \notin {"lock", "read", "mismatch", "check", "barrier1", "flag", "barrier2"}
      BY <2>2 DEF Runs, CsvRuns
    <3>3. \A t \in 1 .. N : pc[t] # "concat"
      BY <1>1, <2>2 DEF Runs, CsvRuns, IInv, CsvPrints, CsvLists
    <3>4. CASE pc \in [1 .. N -> BeforeFirst] /\ arrived = Cardinality(At(1 .. N, {"at1"}))
      BY <3>1, <3>2, <3>4, SomebodyMissing DEF BeforeFirst
    <3>5. CASE pc \in [1 .. N -> BeforeSecond] /\ arrived = Cardinality(At(1 .. N, {"at2"}))
      BY <3>1, <3>2, <3>5, SomebodyMissing DEF BeforeSecond
    <3> QED
      BY <3>1, <3>3, <3>4, <3>5 DEF CsvPhases, BehindSecond
  <2>3. CASE program = "sqrt"
    <3>0. 1 \in 1 .. K /\ N \in Nat
      BY CountsAssumption
    <3>1. CASE stage = 4
      <4>1. SqrtTypes /\ CellOwner
        BY <1>1, <2>3, <3>1 DEF IInv, SqrtInv
      <4>2. \A t \in 1 .. N : pc[t] \in {"lock", "done"}
        BY <2>3, <3>1, <4>1 DEF Runs, SqrtRuns, SqrtTypes, SqrtPCs
      <4>3. ASSUME NEW t \in 1 .. N, pc[t] = "lock" PROVE FALSE
        <5>1. index[t] \in Sqrt!Cells /\ mx_cells[index[t]] \in 0 .. N /\ mx_cells[index[t]] # 0
          BY <2>3, <3>1, <4>1, <4>3 DEF Runs, SqrtRuns, SqrtTypes, Sqrt!Free
        <5>2. mx_cells[index[t]] \in 1 .. N
          BY <3>0, <5>1
        <5> QED
          BY <4>1, <4>2, <5>1, <5>2 DEF CellOwner, Holds
      <4> QED
        BY <4>2, <4>3
    <3>2. CASE stage = 3
      <4>1. OneMutex
        BY <1>1, <2>3, <3>2 DEF JoinInv
      <4>2. \A t \in 1 .. N : pc[t] \in {"lock", "done"}
        BY <2>3, <3>2, <4>1 DEF Runs, SqrtRuns, OneMutex
      <4>3. ASSUME NEW t \in 1 .. N, pc[t] = "lock" PROVE FALSE
        <5>1. mx_cells[1] \in 0 .. N /\ mx_cells[1] # 0
          BY <2>3, <3>0, <3>2, <4>1, <4>3 DEF Runs, SqrtRuns, OneMutex, Sqrt!Cells, Sqrt!Free
        <5>2. mx_cells[1] \in 1 .. N
          BY <3>0, <5>1
        <5> QED
          BY <4>1, <4>2, <5>2 DEF OneMutex
      <4> QED
        BY <4>2, <4>3
    <3> QED
      BY <1>1, <2>3, <3>1, <3>2 DEF JoinInv
  <2>4. CASE program = "dice"
    <3>1. DiceInv /\ BarrierNotFull
      BY <1>1, <2>4 DEF IInv, JoinInv
    <3>2. \A t \in 1 .. N : pc[t] \notin {"roll", "barrier1", "assign", "barrier2"}
      BY <2>4 DEF Runs, DiceRuns
    <3>3. CASE pc \in [1 .. N -> {"roll", "barrier1", "at1"}] /\ arrived = Cardinality(At(1 .. N, {"at1"}))
      BY <3>1, <3>2, <3>3, SomebodyMissing
    <3>4. CASE pc \in [1 .. N -> {"assign", "barrier2", "at2"}] /\ arrived = Cardinality(At(1 .. N, {"at2"}))
      BY <3>1, <3>2, <3>4, SomebodyMissing
    <3> QED
      BY <3>1, <3>3, <3>4 DEF DiceInv
  <2>5. CASE program = "readers"
    <3>1. ReaderInv /\ BroadcastHeard
      BY <1>1, <2>5 DEF IInv, JoinInv
    <3>2. \A t \in 1 .. N : pc[t] \in {"lock", "relock", "exit"}
      BY <2>5, <3>1 DEF Runs, ReaderRuns, ReaderInv, ReaderTypes, ReaderPCs, BroadcastHeard
    <3>3. mutex = Reader!Free
      BY <2>5, <3>1, <3>2 DEF ReaderInv, MutexOwner, BroadcastHeard
    <3> QED
      BY <2>5, <3>2, <3>3 DEF Runs, ReaderRuns
  <2>6. CASE program = "alarm"
    BY <1>1, <2>6 DEF IInv, AlarmInv
  <2> QED
    BY <1>1, <2>1, <2>2, <2>3, <2>4, <2>5, <2>6 DEF JoinInv
<1> QED
  BY <1>1, JoinInit, JoinStep, Invariance, PTL DEF Spec
=============================================================================
