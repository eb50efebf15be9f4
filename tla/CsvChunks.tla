------------------------------ MODULE CsvChunks ------------------------------
(***************************************************************************)
(* The CSV reader of Lab4/Task1: N threads take the M chunks of a file and *)
(* make a list of the lines of each. stage 5 is task1_5.c (the lists are   *)
(* concatenated), stage 4 task1_4.c (a line with the wrong number of       *)
(* commas ends the program) and stage 3 task1_3.c (no check, no barrier).  *)
(*                                                                         *)
(* A line is the offset of its first byte behind the header. The file does *)
(* not change and a list belongs to whoever took its chunk, so a chunk is  *)
(* read in two steps, its begin (Take) and its end (ReadChunk). One thing  *)
(* the readers of stages 4 and 5 share without a lock: count_tokens calls  *)
(* strtok, which keeps its place in one static variable of the process.    *)
(* Two chunks whose reading overlaps are torn: any of their lines may be   *)
(* found right or wrong, and as one thread's strtok reads and writes in a  *)
(* copy that another has freed, the program may crash. (It may also cut    *)
(* the text of a line that is listed; texts are not modelled.)             *)
(***************************************************************************)
EXTENDS Naturals, FiniteSets, Sequences, SequencesExt

CONSTANTS
    N, M,
    DataSizes         \* bound: the values of data_size

VARIABLES stage, pc,
    main,             \* "join", or how the program ended
    arrived,          \* how many threads wait at the barrier
    data_size,
    starts,           \* where a line begins
    bad,              \* the lines with a wrong number of commas
    next_task_idx,
    idx,              \* of each thread
    head,             \* the list of each task
    global_error_flag,
    torn              \* the tasks that were read while another was read

Threads == 1 .. N
Tasks == 0 .. M - 1

\* main cuts the data; the last chunk also has what the division leaves over.
offset(i) == i * (data_size \div M)
EndBoundry(i) == IF i = M - 1 THEN data_size ELSE offset(i + 1)

\* main: the header is read, the data cut into M chunks, the threads created.
Chunks ==
    /\ data_size \in DataSizes
    /\ starts \in {S \in SUBSET (0 .. data_size - 1) : 0 \in S}
    /\ bad \in {{}} \cup {{s} : s \in starts}
    /\ main = "join"
    /\ arrived = 0
    /\ pc = [t \in Threads |-> "lock"]
    /\ next_task_idx = 0
    /\ idx = [t \in Threads |-> 0]
    /\ head = [i \in Tasks |-> <<>>]
    /\ global_error_flag = 0
    /\ torn = {}

\* main of task1_3.c, task1_4.c and task1_5.c up to the joins
Init3 == stage = 3 /\ Chunks
Init4 == stage = 4 /\ Chunks
Init5 == stage = 5 /\ Chunks
Init == Init3 \/ Init4 \/ Init5

\* Where getline stops that begins at byte p.
NextLine(p) == Min({s \in starts : s > p} \cup {data_size})

\* Mutant: the discarding getline is not only for idx > 0.
AlwaysDiscard(i) == NextLine(offset(i))

\* Chunks but the first throw away the rest of the line they begin in.
FirstLine(i) == IF i = 0 THEN 0 ELSE NextLine(offset(i))

\* while(ftell(fp) < end_boundry)
LinesOf(i) == {s \in starts : FirstLine(i) <= s /\ s < EndBoundry(i)}

\* The tasks in whose lines some thread counts tokens now. Stage 3 counts none.
BeingCounted ==
    {idx[t] : t \in {u \in Threads : stage # 3 /\ pc[u] = "read" /\ LinesOf(idx[u]) # {}}}

\* Task i is begun: it and those being counted tear each other.
Tear(i) ==
    torn' = IF BeingCounted = {} \/ LinesOf(i) = {} THEN torn ELSE torn \cup BeingCounted \cup {i}

\* count_tokens: which lines of a chunk are found to have a wrong number of commas.
FoundWrong(i) ==
    IF stage = 3 THEN {{}} ELSE IF i \in torn THEN SUBSET LinesOf(i) ELSE {bad \cap LinesOf(i)}

\* The lines before the first one that is found wrong.
Before(i, wrong) == {s \in LinesOf(i) : \A b \in wrong : s < b}

\* add_line puts each line in front of the list.
ListOf(S) ==
    CHOOSE q \in [1 .. Cardinality(S) -> S] : \A j, k \in DOMAIN q : j < k => q[j] > q[k]

Goto(t, l) == pc' = [pc EXCEPT ![t] = l]
Data == <<stage, data_size, starts, bad>>

\* Under task_mutex: the next task, unless there was an error or there is none.
Take(t) ==
    /\ pc[t] = "lock"
    /\ main = "join"
    /\ IF global_error_flag = 0 /\ next_task_idx < M
       THEN /\ idx' = [idx EXCEPT ![t] = next_task_idx]
            /\ next_task_idx' = next_task_idx + 1
            /\ Tear(next_task_idx)
            /\ Goto(t, "read")
       ELSE /\ Goto(t, IF stage = 3 THEN "done" ELSE "barrier1")
            /\ UNCHANGED <<idx, next_task_idx, torn>>
    /\ UNCHANGED <<Data, main, arrived, head, global_error_flag>>

\* The lines are listed up to the first that is found wrong.
ReadChunk(t) ==
    /\ pc[t] = "read"
    /\ main = "join"
    /\ \E wrong \in FoundWrong(idx[t]) :
          /\ head' = [head EXCEPT ![idx[t]] = ListOf(Before(idx[t], wrong))]
          /\ Goto(t, IF wrong # {} THEN "mismatch" ELSE IF stage = 3 THEN "lock" ELSE "check")
    /\ UNCHANGED <<Data, main, arrived, next_task_idx, idx, global_error_flag, torn>>

\* strtok in memory that was freed: malloc or free may end the program, then or later.
TornHeap ==
    /\ main = "join"
    /\ torn # {}
    /\ main' = "crash"
    /\ UNCHANGED <<Data, pc, arrived, next_task_idx, idx, head, global_error_flag, torn>>

\* Under task_mutex: report the line, once.
Mismatch(t) ==
    /\ pc[t] = "mismatch"
    /\ main = "join"
    /\ global_error_flag' = 1
    /\ Goto(t, "check")
    /\ UNCHANGED <<Data, main, arrived, next_task_idx, idx, head, torn>>

\* Under task_mutex, after each chunk.
CheckFlag(t) ==
    /\ pc[t] = "check"
    /\ main = "join"
    /\ Goto(t, IF global_error_flag = 1 THEN "barrier1" ELSE "lock")
    /\ UNCHANGED <<Data, main, arrived, next_task_idx, idx, head, global_error_flag, torn>>

\* pthread_barrier_wait: the last to come lets all go on to `to`, one of them,
\* any of them, as the serial thread to `serial`.
BarrierWait(t, at, in, to, serial) ==
    /\ pc[t] = at
    /\ main = "join"
    /\ IF arrived < N - 1
       THEN arrived' = arrived + 1 /\ Goto(t, in)
       ELSE /\ arrived' = 0
            /\ \E s \in Threads : pc' = [u \in Threads |-> IF u = s THEN serial ELSE to]
    /\ UNCHANGED <<Data, main, next_task_idx, idx, head, global_error_flag, torn>>

Barrier1(t) == BarrierWait(t, "barrier1", "at1", "flag", "flag")
Barrier2(t) == BarrierWait(t, "barrier2", "at2", "done", IF stage = 5 THEN "concat" ELSE "done")

\* Mutant: the thread returns, the program goes on.
ReturnOnError(t) ==
    /\ pc[t] = "flag"
    /\ main = "join"
    /\ Goto(t, IF global_error_flag = 1 THEN "done" ELSE "barrier2")
    /\ UNCHANGED <<Data, main, arrived, next_task_idx, idx, head, global_error_flag, torn>>

\* if(error_exists) exit(EXIT_FAILURE)
ReadFlag(t) ==
    /\ pc[t] = "flag"
    /\ main = "join"
    /\ IF global_error_flag = 1
       THEN main' = "failure" /\ UNCHANGED pc
       ELSE Goto(t, "barrier2") /\ UNCHANGED main
    /\ UNCHANGED <<Data, arrived, next_task_idx, idx, head, global_error_flag, torn>>

\* The serial thread appends the lists to task 0's, whose head concat follows
\* even when it is NULL.
Concat(t) ==
    /\ pc[t] = "concat"
    /\ main = "join"
    /\ IF head[0] = <<>> /\ M > 1
       THEN main' = "crash" /\ UNCHANGED <<pc, head>>
       ELSE /\ head' = [head EXCEPT ![0] = FlattenSeq([i \in 1 .. M |-> head[i - 1]])]
            /\ Goto(t, "done")
            /\ UNCHANGED main
    /\ UNCHANGED <<Data, arrived, next_task_idx, idx, global_error_flag, torn>>

\* The joins return: main prints the lists (stage 5: task 0's list).
PrintLists ==
    /\ main = "join"
    /\ \A t \in Threads : pc[t] = "done"
    /\ main' = "printed"
    /\ UNCHANGED <<Data, pc, arrived, next_task_idx, idx, head, global_error_flag, torn>>

\* The joins and what follows them in main of task1_3.c, task1_4.c and task1_5.c
Join3 == stage = 3 /\ PrintLists
Join4 == stage = 4 /\ PrintLists
Join5 == stage = 5 /\ PrintLists
Main == Join3 \/ Join4 \/ Join5

\* thread_func of task1_3.c, task1_4.c and task1_5.c
Thread3(t) == stage = 3 /\ (Take(t) \/ ReadChunk(t))
Checked(t) ==
    \/ Take(t) \/ ReadChunk(t) \/ Mismatch(t) \/ CheckFlag(t)
    \/ Barrier1(t) \/ ReadFlag(t) \/ Barrier2(t)
Thread4(t) == stage = 4 /\ Checked(t)
Thread5(t) == stage = 5 /\ (Checked(t) \/ Concat(t))

Step(t) == Thread3(t) \/ Thread4(t) \/ Thread5(t)
Next == Main \/ TornHeap \/ \E t \in Threads : Step(t)

Printed ==
    IF stage = 5 THEN head[0] ELSE FlattenSeq([i \in 1 .. M |-> head[i - 1]])

\* What main prints is every line once, except the lines that begin exactly
\* where a chunk after the first begins: the chunk before stops there, and the
\* chunk itself throws its first line away. It is so even if chunks were torn: a
\* line that is not listed was found wrong, and then nothing is printed. concat
\* meets a NULL head exactly when the chunks have no bytes, so that the first
\* line is such a line too.
LinesPrinted ==
    /\ main = "printed" =>
          /\ IsInjective(Printed)
          /\ {Printed[k] : k \in DOMAIN Printed} = starts \ {offset(i) : i \in Tasks \ {0}}
    /\ main = "crash" => data_size < M \/ torn # {}

\* All or nothing: the program fails only because of a chunk that holds a line with
\* the wrong number of commas, or that was torn. It prints only if nobody has
\* reported an error, and no chunk with a wrong line comes through that was not
\* torn: no thread passes the second barrier while another has an error. Of
\* stages 4 and 5.
AllOrNothing ==
    LET wrong(i) == LinesOf(i) \cap bad # {}
    IN  /\ main = "failure" => stage # 3 /\ \E i \in Tasks : wrong(i) \/ i \in torn
        /\ main = "printed" /\ stage # 3 =>
              global_error_flag = 0 /\ \A i \in Tasks \ torn : ~ wrong(i)
=============================================================================
