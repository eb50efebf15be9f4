------------------------------ MODULE TokenRing ------------------------------
(***************************************************************************)
(* Lab2/Task3: a ring of counting children. The parent lets one of them    *)
(* count; on SIGUSR1 it stops that one (SIGUSR2) and starts the next       *)
(* (SIGUSR1); on SIGINT it stops all and waits.                            *)
(*                                                                         *)
(* stage 3 is main3.c, stage 2 main2.c (one child counts, for ever) and    *)
(* stage 1 main1.c (the children exit at once). The parent of stage 3      *)
(* handles signals inside sigsuspend only; a child handles them anywhere,  *)
(* except that SIGUSR1 is blocked while it counts. So the child's every    *)
(* read and write of last_signal is a step of its own. What a child counts *)
(* and saves is not modelled, nor SIGUSR1 from anyone but the parent,      *)
(* which child_smart_handler ignores.                                      *)
(***************************************************************************)
EXTENDS Processes

CONSTANTS
    NChld,            \* n
    MaxUserSignals    \* bound: how many signals the user sends (n of the parent)

VARIABLES stage, proc,
    current_child,
    lost              \* the children for which a SIGINT was overwritten or slept through

Parent == 0
Children == 1 .. NChld
Procs == {Parent} \cup Children

\* Where the child has only {SIGUSR1} blocked, and where it has nothing blocked.
Counting == {"run", "stopping", "check"}
Unmasked == {"unmask", "test", "look", "enter", "suspend", "clear", "block"}

Init ==
    /\ stage \in {1, 2, 3}
    /\ proc = [p \in Procs |-> ProcessAt(IF p = Parent THEN "fork" ELSE "unborn")]
    /\ current_child = 1
    /\ lost = {}

ParentGoes(t, l) == proc' = Goto(t, Parent, l)

\* fork the children in order.
ForkChild(c) ==
    /\ proc[Parent].at = "fork"
    /\ \A d \in Children : proc[d].at = "unborn" => c <= d
    /\ proc[c].at = "unborn"
    /\ proc' = Fork(proc, c, "born")
    /\ UNCHANGED <<stage, current_child, lost>>

\* kill(children[0], SIGUSR1). A child of stage 1 takes no signals.
StartFirst ==
    /\ proc[Parent].at = "fork"
    /\ \A c \in Children : proc[c].at # "unborn"
    /\ CASE stage = 1 -> ParentGoes(proc, "wait")
         [] stage = 2 -> ParentGoes(Kill(proc, 1, "SIGUSR1"), "wait")
         [] stage = 3 -> ParentGoes(Kill(proc, 1, "SIGUSR1"), "suspend")
    /\ UNCHANGED <<stage, current_child, lost>>

\* sigsuspend returns in the parent; the handler of s ran last.
ParentWakes ==
    /\ stage = 3
    /\ proc[Parent].at = "suspend"
    /\ \E s \in proc[Parent].pending : ParentGoes(Suspend(proc, Parent, Signals, s), "decide")
    /\ UNCHANGED <<stage, current_child, lost>>

\* Mutant: only the child that counts hears of the end.
ShutdownCurrent ==
    /\ proc[Parent].at = "decide"
    /\ proc[Parent].last = "SIGINT"
    /\ ParentGoes(Kill(proc, current_child, "SIGINT"), "wait")
    /\ UNCHANGED <<stage, current_child, lost>>

\* "[PARENT] Shutdown."
Shutdown ==
    /\ proc[Parent].at = "decide"
    /\ proc[Parent].last = "SIGINT"
    /\ ParentGoes(KillAll(proc, Children, "SIGINT"), "wait")
    /\ UNCHANGED <<stage, current_child, lost>>

\* SIGUSR1: stop the current child ...
StopCurrent ==
    /\ proc[Parent].at = "decide"
    /\ proc[Parent].last = "SIGUSR1"
    /\ ParentGoes(Kill(proc, current_child, "SIGUSR2"), "switch")
    /\ current_child' = (current_child % NChld) + 1
    /\ UNCHANGED <<stage, lost>>

\* ... and start the next one.
StartNext ==
    /\ proc[Parent].at = "switch"
    /\ LET t == Kill(proc, current_child, "SIGUSR1")
       IN  ParentGoes([t EXCEPT ![Parent].last = NoSignal], "suspend")
    /\ UNCHANGED <<stage, current_child, lost>>

\* while(wait(NULL) > 0)
End ==
    /\ proc[Parent].at = "wait"
    /\ AllLeft(proc, Children)
    /\ ParentGoes(Reap(proc, Children), "left")
    /\ UNCHANGED <<stage, current_child, lost>>

ParentStep == StartFirst \/ ParentWakes \/ Shutdown \/ StopCurrent \/ StartNext \/ End

\* Whoever stores something else in last_signal while it is SIGINT loses the SIGINT.
Overwrites(c) ==
    lost' = IF proc[c].last = "SIGINT" /\ proc'[c].last # "SIGINT" THEN lost \cup {c} ELSE lost

\* child_smart_handler runs; sigsuspend then returns to the test of last_signal.
Deliver(c) ==
    /\ stage = 3
    /\ \E s \in proc[c].pending :
          /\ proc[c].at \in Unmasked \/ (proc[c].at \in Counting /\ s # "SIGUSR1")
          /\ proc' = LET t == Handle(proc, c, s)
                     IN  IF proc[c].at = "suspend" THEN Goto(t, c, "test") ELSE t
    /\ Overwrites(c)
    /\ UNCHANGED <<stage, current_child>>

ChildGoes(c, from, to) ==
    /\ stage = 3
    /\ proc[c].at = from
    /\ proc' = Goto(proc, c, to)
    /\ UNCHANGED <<stage, current_child, lost>>

\* last_signal = 0
Clears(c, from, to) ==
    /\ stage = 3
    /\ proc[c].at = from
    /\ proc' = Goto([proc EXCEPT ![c].last = NoSignal], c, to)
    /\ Overwrites(c)
    /\ UNCHANGED <<stage, current_child>>

\* The handlers are installed.
SetUp(c) == ChildGoes(c, "born", "unmask")

\* sigprocmask unblocks everything and returns when what was pending is handled.
Unmask(c) == proc[c].pending = {} /\ ChildGoes(c, "unmask", "test")

\* while(last_signal != SIGUSR1), then the test for SIGINT: save and exit, or on to
\* sigsuspend.
Test(c) ==
    \/ ChildGoes(c, "test", IF proc[c].last = "SIGUSR1" THEN "clear" ELSE "look")
    \/ ChildGoes(c, "look", IF proc[c].last = "SIGINT" THEN "left" ELSE "enter")

\* The call of sigsuspend, some time after the test: a SIGINT handled between is slept
\* through.
Enter(c) ==
    /\ stage = 3
    /\ proc[c].at = "enter"
    /\ proc' = Goto(proc, c, "suspend")
    /\ lost' = IF proc[c].last = "SIGINT" THEN lost \cup {c} ELSE lost
    /\ UNCHANGED <<stage, current_child>>

\* "Activated!"
Activate(c) == Clears(c, "clear", "block") \/ ChildGoes(c, "block", "run")

\* nanosleep returns, last_signal is compared with SIGUSR2, then with SIGINT.
Count(c) ==
    \/ ChildGoes(c, "run", IF proc[c].last = "SIGUSR2" THEN "stopping" ELSE "check")
    \/ ChildGoes(c, "check", IF proc[c].last = "SIGINT" THEN "left" ELSE "run")

\* "Stopping."
StopCounting(c) == Clears(c, "stopping", "unmask")

\* main1.c: the child prints and exits.
Child1(c) ==
    /\ stage = 1
    /\ proc[c].at = "born"
    /\ proc' = Goto(proc, c, "left")
    /\ UNCHANGED <<stage, current_child, lost>>

\* main2.c: SIGUSR1 is blocked but inside sigsuspend; the child it reaches counts.
Child2(c) ==
    /\ stage = 2
    /\ proc[c].at = "born"
    /\ "SIGUSR1" \in proc[c].pending
    /\ proc' = Goto(Suspend(proc, c, {"SIGUSR1"}, "SIGUSR1"), c, "run")
    /\ UNCHANGED <<stage, current_child, lost>>

\* main3.c
Child3(c) ==
    SetUp(c) \/ Unmask(c) \/ Test(c) \/ Enter(c) \/ Activate(c) \/ Count(c) \/ StopCounting(c)

\* kill -USR1 of the parent, or Ctrl-C for the group (stage 3).
UserSignal ==
    /\ stage = 3
    /\ proc[Parent].n < MaxUserSignals
    /\ LET t == [proc EXCEPT ![Parent].n = @ + 1]
       IN  proc' \in {Kill(t, Parent, "SIGUSR1"), KillAll(t, Procs, "SIGINT")}
    /\ UNCHANGED <<stage, current_child, lost>>

Next ==
    \/ ParentStep
    \/ UserSignal
    \/ \E c \in Children : \/ ForkChild(c) \/ Deliver(c)
                           \/ Child1(c) \/ Child2(c) \/ Child3(c)

\* What a process does of itself; a child's handler is Deliver.
Step(p) ==
    \/ p = Parent /\ (ParentStep \/ \E c \in Children : ForkChild(c))
    \/ p \in Children /\ (Child1(p) \/ Child2(p) \/ Child3(p))
=============================================================================
