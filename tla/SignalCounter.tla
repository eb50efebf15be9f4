---------------------------- MODULE SignalCounter ----------------------------
(***************************************************************************)
(* Lab2/Task1: children send SIGUSR1 to the parent, which counts them.     *)
(* stage 4 is mian4.c: at Limit (100 in the code) the parent sends SIGUSR2 *)
(* to its group and waits for the children. stage 3 is mian3.c: a child    *)
(* sends Burst (30) signals and the parent never ends. stage 2 is          *)
(* maian2.c: the parent returns at once.                                   *)
(*                                                                         *)
(* n of the parent is parent_count; last = "SIGUSR2" in a child is         *)
(* child_work = 0; in the earlier stages n of a child counts its signals.  *)
(***************************************************************************)
EXTENDS Processes

CONSTANTS NChld, Limit, Burst

VARIABLES stage, proc,
    lost              \* the children that ignored SIGUSR2

Parent == 0
Children == 1 .. NChld
Procs == {Parent} \cup Children

Init ==
    /\ stage \in {2, 3, 4}
    /\ proc = [p \in Procs |-> ProcessAt(IF p = Parent THEN "fork" ELSE "unborn")]
    /\ lost = {}

\* fork the children in order. A child begins with SIGUSR2 ignored.
ForkChild(c) ==
    /\ proc[Parent].at = "fork"
    /\ \A d \in Children : proc[d].at = "unborn" => c <= d
    /\ proc[c].at = "unborn"
    /\ proc' = Fork(proc, c, "born")
    /\ UNCHANGED <<stage, lost>>

\* After the forks: stage 2 prints "All done." and returns.
Forked ==
    /\ proc[Parent].at = "fork"
    /\ \A c \in Children : proc[c].at # "unborn"
    /\ proc' = Goto(proc, Parent, IF stage = 2 THEN "left" ELSE "count")
    /\ UNCHANGED <<stage, lost>>

\* sigsuspend returns after one run of count_handler.
Count ==
    /\ stage # 2
    /\ proc[Parent].at = "count"
    /\ "SIGUSR1" \in proc[Parent].pending
    /\ stage = 4 => proc[Parent].n < Limit
    /\ proc' = [proc EXCEPT ![Parent].pending = @ \ {"SIGUSR1"}, ![Parent].n = @ + 1]
    /\ UNCHANGED <<stage, lost>>

\* Who has installed stop_handler; SIGUSR2 is ignored by all others.
Listening == {c \in Children : proc[c].at \notin {"born"} \cup Gone}

\* Mutant: the signal goes to one process, not to the group.
StopOne ==
    /\ stage = 4
    /\ proc[Parent].at = "count"
    /\ proc[Parent].n = Limit
    /\ proc' = Goto(KillAll(proc, Listening \cap {1}, "SIGUSR2"), Parent, "wait")
    /\ lost' = Children \ Listening
    /\ UNCHANGED stage

\* "Limit reached": kill(0, SIGUSR2).
StopGroup ==
    /\ stage = 4
    /\ proc[Parent].at = "count"
    /\ proc[Parent].n = Limit
    /\ proc' = Goto(KillAll(proc, Listening, "SIGUSR2"), Parent, "wait")
    /\ lost' = Children \ Listening
    /\ UNCHANGED stage

\* wait until ECHILD
End ==
    /\ proc[Parent].at = "wait"
    /\ AllLeft(proc, Children)
    /\ proc' = Goto(Reap(proc, Children), Parent, "left")
    /\ UNCHANGED <<stage, lost>>

\* The child installs stop_handler, unblocks everything and enters its loop.
Listen(c) ==
    /\ proc[c].at = "born"
    /\ proc' = Goto(proc, c, "sleep")
    /\ UNCHANGED <<stage, lost>>

\* stop_handler runs, wherever the child is.
Stop(c) ==
    /\ proc[c].at \in {"sleep", "send"}
    /\ "SIGUSR2" \in proc[c].pending
    /\ proc' = Handle(proc, c, "SIGUSR2")
    /\ UNCHANGED <<stage, lost>>

\* nanosleep returns, child_work is tested (stage 4).
Test(c) ==
    /\ stage = 4
    /\ proc[c].at = "sleep"
    /\ proc' = Goto(proc, c, IF proc[c].last = "SIGUSR2" THEN "left" ELSE "send")
    /\ UNCHANGED <<stage, lost>>

\* kill(getppid(), SIGUSR1), then the loop's own test of child_work.
Send(c) ==
    /\ stage = 4
    /\ proc[c].at = "send"
    /\ proc' = Goto(Kill(proc, Parent, "SIGUSR1"), c,
                    IF proc[c].last = "SIGUSR2" THEN "left" ELSE "sleep")
    /\ UNCHANGED <<stage, lost>>

\* The child of stages 2 and 3: Burst times nanosleep and kill.
SendBurst(c) ==
    /\ stage # 4
    /\ proc[c].at = "sleep"
    /\ proc' = LET t == [proc EXCEPT ![c].n = @ + 1]
               IN  IF t[c].n = Burst THEN Goto(Kill(t, Parent, "SIGUSR1"), c, "left")
                                     ELSE Kill(t, Parent, "SIGUSR1")
    /\ UNCHANGED <<stage, lost>>

\* mian3.c: the parent loops on sigsuspend and never reaps its children.
Program3 == stage = 3 /\ (Count \/ \E c \in Children : SendBurst(c))

\* maian2.c: no handler; a parent with children still at work is killed by the
\* first SIGUSR1, or has returned before.
Program2 ==
    /\ stage = 2
    /\ \/ \E c \in Children : SendBurst(c)
       \/ /\ proc[Parent].at = "fork"
          /\ "SIGUSR1" \in proc[Parent].pending
          /\ proc' = Goto(proc, Parent, "left")
          /\ UNCHANGED <<stage, lost>>

\* The programs' common beginning.
Start == Forked \/ \E c \in Children : ForkChild(c) \/ Listen(c)

\* mian4.c
Program4 ==
    /\ stage = 4
    /\ \/ Count \/ StopGroup \/ End
       \/ \E c \in Children : Stop(c) \/ Test(c) \/ Send(c)

Next == Start \/ Program2 \/ Program3 \/ Program4

\* What a process does of itself; its handler is Stop.
Step(p) ==
    \/ p = Parent /\ (Forked \/ Count \/ StopGroup \/ End \/ \E c \in Children : ForkChild(c))
    \/ p \in Children /\ (Listen(p) \/ Test(p) \/ Send(p) \/ SendBurst(p))
=============================================================================
