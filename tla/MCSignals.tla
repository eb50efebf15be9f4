------------------------------ MODULE MCSignals ------------------------------
(***************************************************************************)
(* The programs of Lab2 for TLC. Each behaviour is one of `program`, which *)
(* Init chooses; the variables of the others keep their initial values.    *)
(***************************************************************************)
EXTENDS Naturals

CONSTANTS
    Family,           \* how many children the ring, the game and the counter have
    Clerks,           \* the office: the root is 0
    Subordinates,
    MaxUserSignals, Limit, Burst, Rounds, P, Issues

ASSUME FamilyAssumption == Family \in Nat \ {0}
ASSUME OfficeAssumption == 0 \in Clerks /\ Subordinates \in [Clerks -> SUBSET Clerks]
ASSUME IssuesAssumption == Issues \subseteq Nat

VARIABLES program, stage, proc, lost,
    current_child,
    turn, round, interrupted,
    part, active_students, last_student_pid, si_pid, results

ringOnly == current_child
pingOnly == <<turn, round, interrupted>>
studentOnly == <<part, active_students, last_student_pid, si_pid, results>>
vars == <<program, stage, proc, lost, ringOnly, pingOnly, studentOnly>>

\* The office of the runs: a highest clerk with two subordinates, one of them with
\* one of its own.
OfficeOfFour == 0 .. 3
OfficeTree == [c \in OfficeOfFour |-> CASE c = 0 -> {1, 2} [] c = 1 -> {3} [] OTHER -> {}]

Clerk == INSTANCE ClerkTree WITH Root <- 0, MaxUserSignals <- MaxUserSignals + 1
Ring == INSTANCE TokenRing WITH NChld <- Family
Ping == INSTANCE PingPong WITH NChld <- Family
Counter == INSTANCE SignalCounter WITH NChld <- Family
Student == INSTANCE Students WITH NStudents <- Family + 1

Init ==
    /\ program \in {"clerk", "ring", "ping", "counter", "student"}
    /\ lost = {}
    /\ CASE program = "clerk" -> Clerk!Init
         [] program = "ring" -> Ring!Init
         [] program = "ping" -> Ping!Init /\ stage = 1
         [] program = "counter" -> Counter!Init
         [] program = "student" -> Student!Init
    /\ program # "ring" => current_child = 0
    /\ program # "ping" => turn = 0 /\ round = 0 /\ interrupted = FALSE
    /\ program # "student" => /\ part = <<>> /\ active_students = 0 /\ last_student_pid = 0
                              /\ si_pid = 0 /\ results = <<>>

\* The variables of the other programs keep their values.
ClerkStep(A) == program = "clerk" /\ A /\ UNCHANGED <<program, ringOnly, pingOnly, studentOnly>>
RingStep(A) == program = "ring" /\ A /\ UNCHANGED <<program, pingOnly, studentOnly>>
PingStep(A) ==
    program = "ping" /\ A /\ UNCHANGED <<program, stage, lost, ringOnly, studentOnly>>
CounterStep(A) ==
    program = "counter" /\ A /\ UNCHANGED <<program, ringOnly, pingOnly, studentOnly>>
StudentStep(A) == program = "student" /\ A /\ UNCHANGED <<program, ringOnly, pingOnly>>

Next ==
    \/ ClerkStep(Clerk!Next)
    \/ RingStep(Ring!Next)
    \/ PingStep(Ping!Next)
    \/ CounterStep(Counter!Next)
    \/ StudentStep(Student!Next)

\* The next step of process p of the program, and the run of a handler in it
\* where handlers run outside sigsuspend.
StepOf(p) ==
    \/ ClerkStep(Clerk!Step(p))
    \/ RingStep(Ring!Step(p))
    \/ PingStep(Ping!Step(p))
    \/ CounterStep(Counter!Step(p))
    \/ StudentStep(Student!Step(p))

HandlerOf(p) ==
    /\ p \in 1 .. Family
    /\ RingStep(Ring!Deliver(p)) \/ CounterStep(Counter!Stop(p))

\* The scheduler runs every process, and a signal reaches who has not blocked it.
Pids == Clerks \cup 0 .. Family + 1
Fairness == \A p \in Pids : WF_vars(p \in DOMAIN proc /\ StepOf(p)) /\ WF_vars(HandlerOf(p))

Spec == Init /\ [][Next]_vars /\ Fairness

-----------------------------------------------------------------------------
(* Properties *)

At(p) == IF p \in DOMAIN proc THEN proc[p].at ELSE "unborn"

Children(p) ==
    IF program = "clerk" THEN Subordinates[p] ELSE IF p = 0 THEN DOMAIN proc \ {0} ELSE {}

AllGone(ps) == \A p \in ps : At(p) \in {"left", "reaped"}

\* Nobody leaves a child behind: a process that has exited has no child that
\* still runs, whose kill(getppid()) would then reach a stranger. (The parents
\* of maian2.c do; mian3.c's parent never exits.)
LeaveBottomUp ==
    ~(program = "counter" /\ stage = 2) =>
        \A p \in DOMAIN proc :
            At(p) \in {"left", "reaped"} =>
                \A c \in Children(p) : At(c) \in {"left", "reaped", "unborn"}

\* p and all below it.
Below(p) ==
    IF program = "clerk"
    THEN {c \in Clerks : \A S \in SUBSET Clerks :
              p \in S /\ (\A d \in S : Subordinates[d] \subseteq S) => c \in S}
    ELSE {p} \cup Children(p)

\* Whoever waits for its children leaves: the shutdowns of main5.c (SIGINT down
\* the tree), main3.c (SIGINT to the ring), prep1.c and mian4.c (SIGUSR2 to the
\* group) reach every process, unless one below the waiting one lost the signal in
\* one of the ways `lost` names. main2.c of the ring never stops its children.
WaitersLeave ==
    ~(program = "ring" /\ stage = 2) =>
        \A p \in Pids : (At(p) = "wait") ~> (At(p) = "left" \/ Below(p) \cap lost # {})

\* One solution, one answer (Students).
AnswersOnlyWaiting == program = "student" => Student!AnswersOnlyWaiting

\* The teacher's table is complete (Students).
ResultsComplete == program = "student" => Student!ResultsComplete

\* A solution is accepted, unless its SIGUSR1 was merged with another's or the
\* teacher's handler overwrote its pid before the answer; and when all students
\* have left, the teacher has learned it and leaves, although their SIGCHLDs may
\* have merged into one and may come in the middle of a handler.
Sent(s) == program = "student" /\ Student!AwaitsAnswer(s)
Alone == program = "student" /\ AllGone(1 .. Family + 1) /\ Student!TeacherStays
StudentsAnswered ==
    /\ \A s \in 1 .. Family + 1 : Sent(s) ~> (~Sent(s) \/ s \in lost)
    /\ Alone ~> ~Alone

\* main4.c:84: "Block SIGUSR1 and SIGCHLD so we can wait for them safely", and
\* main4.c:110: "Block SIGUSR2 so we don't miss the ACK": whoever sends a
\* solution is answered.
EveryStudentAnswered == \A s \in 1 .. Family + 1 : Sent(s) ~> ~Sent(s)

\* One token per turn (PingPong).
OneBallInPlay == program = "ping" => Ping!OneBallInPlay
=============================================================================
