------------------------------ MODULE Students ------------------------------
(***************************************************************************)
(* Lab2/Task2: a teacher process and student processes. A student works on *)
(* P parts; after each it sends SIGUSR1 to the teacher and sleeps until    *)
(* the teacher's SIGUSR2 accepts the part.                                 *)
(*                                                                         *)
(* stage 4 is main4.c, which counts the students' issues and receives them *)
(* in their exit statuses; stage 3 is main3.c, without issues; stage 2 is  *)
(* main2.c, where nobody answers. The teacher handles SIGUSR1 and SIGCHLD, *)
(* and the student SIGUSR2, inside sigsuspend only. A handler blocks its   *)
(* own signal and no other (sa_mask is empty), so while the teacher is in  *)
(* the one for SIGCHLD any number of SIGUSR1s are handled one after        *)
(* another, and while it is in the one for SIGUSR1, SIGCHLDs are.          *)
(*                                                                         *)
(* n of a student is total_issues and part[s] the part it works on.        *)
(***************************************************************************)
EXTENDS Processes, Sequences

CONSTANTS
    NStudents,
    P,                \* parts of the task
    Issues            \* the numbers of issues a part may have, 0 .. t in the code

VARIABLES stage, proc,
    part,
    active_students,
    last_student_pid,
    si_pid,           \* who sent the SIGUSR1 that is pending for the teacher
    results,
    lost              \* the students the teacher will not answer: their SIGUSR1 was merged
                      \* with a pending one, or last_student_pid overwritten before the answer

Teacher == 0
Pupils == 1 .. NStudents
Procs == {Teacher} \cup Pupils
NoPid == 0            \* no pupil, like pid 0

Init ==
    /\ stage \in {2, 3, 4}
    /\ proc = [p \in Procs |-> ProcessAt(IF p = Teacher THEN "fork" ELSE "unborn")]
    /\ part = [s \in Pupils |-> 1]
    /\ active_students = NStudents
    /\ last_student_pid = NoPid
    /\ si_pid = NoPid
    /\ results = <<>>
    /\ lost = {}

\* fork the students in order. SIGUSR2 is blocked before anyone can send it.
ForkStudent(s) ==
    /\ proc[Teacher].at = "fork"
    /\ \A d \in Pupils : proc[d].at = "unborn" => s <= d
    /\ proc[s].at = "unborn"
    /\ proc' = Fork(proc, s, "work")
    /\ UNCHANGED <<stage, part, active_students, last_student_pid, si_pid, results, lost>>

\* On to the loop (while active_students > 0), or in stage 2 to wait.
Forked ==
    /\ proc[Teacher].at = "fork"
    /\ \A s \in Pupils : proc[s].at # "unborn"
    /\ proc' = Goto(proc, Teacher, IF stage = 2 THEN "wait" ELSE "suspend")
    /\ UNCHANGED <<stage, part, active_students, last_student_pid, si_pid, results, lost>>

\* A part of the task with its issues, then kill(getppid(), SIGUSR1): one that
\* finds a SIGUSR1 pending is dropped, with its sender.
FinishPart(s) ==
    /\ stage # 2
    /\ proc[s].at = "work"
    /\ \E i \in IF stage = 4 THEN Issues ELSE {0} :
          proc' = Kill(Goto([proc EXCEPT ![s].n = @ + i], s, "sent"), Teacher, "SIGUSR1")
    /\ IF "SIGUSR1" \in proc[Teacher].pending
       THEN lost' = lost \cup {s} /\ UNCHANGED si_pid
       ELSE si_pid' = s /\ UNCHANGED lost
    /\ UNCHANGED <<stage, part, active_students, last_student_pid, results>>

\* exit: SIGCHLD for the teacher
ExitTo(t, s) == Kill(Goto(t, s, "left"), Teacher, "SIGCHLD")

\* Mutant: the acknowledgement is not waited for.
DontWait(s) ==
    /\ proc[s].at = "sent"
    /\ part' = [part EXCEPT ![s] = @ + 1]
    /\ proc' = IF part[s] = P THEN ExitTo(proc, s) ELSE Goto(proc, s, "work")
    /\ UNCHANGED <<stage, active_students, last_student_pid, si_pid, results, lost>>

\* sigsuspend returns in the student: SIGUSR2 has come; the next part or exit.
Accepted(s) ==
    /\ proc[s].at = "sent"
    /\ "SIGUSR2" \in proc[s].pending
    /\ part' = [part EXCEPT ![s] = @ + 1]
    /\ proc' = LET t == [proc EXCEPT ![s].pending = @ \ {"SIGUSR2"}]
               IN  IF part[s] = P THEN ExitTo(t, s) ELSE Goto(t, s, "work")
    /\ UNCHANGED <<stage, active_students, last_student_pid, si_pid, results, lost>>

\* teacher_usr1_handler, called by sigsuspend, or inside the handler of SIGCHLD,
\* where it may overwrite the pid of a student who has not been answered. It is
\* one store, so only what it blocks makes it a place: SIGUSR1.
Usr1Handler ==
    /\ proc[Teacher].at \in {"suspend", "chld"}
    /\ "SIGUSR1" \in proc[Teacher].pending
    /\ last_student_pid' = si_pid
    /\ si_pid' = NoPid
    /\ lost' = lost \cup ({last_student_pid} \ {NoPid})
    /\ proc' = Goto([proc EXCEPT ![Teacher].pending = @ \ {"SIGUSR1"}], Teacher,
                    IF proc[Teacher].at = "suspend" THEN "usr1" ELSE "chld")
    /\ UNCHANGED <<stage, part, active_students, results>>

\* teacher_chld_handler begins, called by sigsuspend, or inside the handler of SIGUSR1.
ChldHandler ==
    /\ proc[Teacher].at \in {"suspend", "usr1"}
    /\ "SIGCHLD" \in proc[Teacher].pending
    /\ proc' = Goto([proc EXCEPT ![Teacher].pending = @ \ {"SIGCHLD"}], Teacher,
                    IF proc[Teacher].at = "suspend" THEN "chld" ELSE "usr1chld")
    /\ UNCHANGED <<stage, part, active_students, last_student_pid, si_pid, results, lost>>

\* Where the teacher goes from a handler: back into the one it interrupted, or,
\* sigsuspend having returned, on to the test of last_student_pid.
Behind(l) == IF l = "usr1chld" THEN "usr1" ELSE "answer"

\* WEXITSTATUS keeps eight bits of what the child passed to exit.
ExitStatus(s) == proc[s].n % 256

\* waitpid(-1, WNOHANG) returns a student, any of those that have exited.
Collect(s, l) ==
    /\ proc[Teacher].at \in {"chld", "usr1chld"}
    /\ proc[s].at = "left"
    /\ active_students' = active_students - 1
    /\ results' = IF stage = 4 THEN Append(results, [pid |-> s, issues |-> ExitStatus(s)])
                  ELSE results
    /\ proc' = Goto(Reap(proc, {s}), Teacher, l)
    /\ UNCHANGED <<stage, part, last_student_pid, si_pid, lost>>

\* Mutant: one waitpid per SIGCHLD.
WaitpidOnce(s) == Collect(s, Behind(proc[Teacher].at))

\* The loop of waitpid goes on ...
Waitpid(s) == Collect(s, proc[Teacher].at)

\* ... until nobody else has exited. A handler returns.
HandlerReturns ==
    /\ \/ proc[Teacher].at = "usr1"
       \/ proc[Teacher].at \in {"chld", "usr1chld"} /\ \A s \in Pupils : proc[s].at # "left"
    /\ proc' = Goto(proc, Teacher, Behind(proc[Teacher].at))
    /\ UNCHANGED <<stage, part, active_students, last_student_pid, si_pid, results, lost>>

\* sigsuspend, until it returns in the teacher.
TeacherWakes == Usr1Handler \/ ChldHandler \/ HandlerReturns \/ \E s \in Pupils : Waitpid(s)

\* Mutant: the loop stops for the last student.
MoreThanOne(n) == n > 1

\* while(active_students > 0)
StillActive(n) == n > 0

\* "Teacher has accepted solution": SIGUSR2 to the last sender, then the loop's test.
Answer ==
    /\ proc[Teacher].at = "answer"
    /\ proc' = Goto(IF last_student_pid # NoPid
                    THEN Kill(proc, last_student_pid, "SIGUSR2") ELSE proc,
                    Teacher, IF StillActive(active_students) THEN "suspend" ELSE "left")
    /\ last_student_pid' = NoPid
    /\ UNCHANGED <<stage, part, active_students, si_pid, results, lost>>

\* main2.c: SIGUSR1 is ignored, nobody waits for an answer, the teacher waits
\* for the children.
Work2(s) ==
    /\ stage = 2
    /\ proc[s].at = "work"
    /\ part' = [part EXCEPT ![s] = @ + 1]
    /\ proc' = IF part[s] = P THEN Goto(proc, s, "left") ELSE proc
    /\ UNCHANGED <<stage, active_students, last_student_pid, si_pid, results, lost>>

WaitAll2 ==
    /\ proc[Teacher].at = "wait"
    /\ AllLeft(proc, Pupils)
    /\ proc' = Goto(Reap(proc, Pupils), Teacher, "left")
    /\ UNCHANGED <<stage, part, active_students, last_student_pid, si_pid, results, lost>>

\* main3.c: nothing is counted and no results are kept.
Program3 ==
    /\ stage = 3
    /\ \/ TeacherWakes \/ Answer
       \/ \E s \in Pupils : FinishPart(s) \/ Accepted(s)

\* main4.c
Program4 ==
    /\ stage = 4
    /\ \/ TeacherWakes \/ Answer
       \/ \E s \in Pupils : FinishPart(s) \/ Accepted(s)

Program2 == WaitAll2 \/ \E s \in Pupils : Work2(s)

Start == Forked \/ \E s \in Pupils : ForkStudent(s)

Next == Start \/ Program2 \/ Program3 \/ Program4

\* What a process does of itself.
Step(p) ==
    \/ p = Teacher /\ (Start \/ TeacherWakes \/ Answer \/ WaitAll2)
    \/ p \in Pupils /\ (Work2(p) \/ FinishPart(p) \/ Accepted(p))

\* A SIGUSR2 never meets a student at work: one solution, one answer. The
\* teacher's three traces of a solution (the pending signal's sender, the
\* last_student_pid of the handler, the SIGUSR2 on its way) are of different
\* students, and each of them waits in sigsuspend.
AnswersOnlyWaiting ==
    LET answered == {s \in Pupils : "SIGUSR2" \in proc[s].pending}
        noticed  == {last_student_pid} \ {NoPid}
        sent     == {si_pid} \ {NoPid}
    IN  /\ \A s \in answered \cup noticed \cup sent : proc[s].at = "sent"
        /\ answered \cap noticed = {} /\ answered \cap sent = {} /\ noticed \cap sent = {}

\* The table the teacher of stage 4 prints has one line for each student, with
\* the issues of that student modulo 256, although SIGCHLDs merge, come in the
\* middle of answers and waitpid returns the students in any order.
ResultsComplete ==
    stage = 4 /\ proc[Teacher].at = "left" =>
        /\ Len(results) = NStudents
        /\ {results[i].pid : i \in DOMAIN results} = Pupils
        /\ \A i \in DOMAIN results : results[i].issues = proc[results[i].pid].n % 256

\* s waits in sigsuspend for its SIGUSR2; the teacher has not left.
AwaitsAnswer(s) == proc[s].at = "sent"
TeacherStays == proc[Teacher].at # "left"
=============================================================================
