------------------------------ MODULE PingPong ------------------------------
(***************************************************************************)
(* Lab2/Prep1/prep1.c: in every round the parent sends SIGUSR1 to each     *)
(* child in turn and waits for its SIGUSR1; after the last round SIGINT    *)
(* stops the children. All have SIGUSR1 and SIGINT blocked from before the *)
(* first fork, so handlers run inside sigsuspend only. The user may press  *)
(* Ctrl-C, which sends SIGINT to the whole group.                          *)
(***************************************************************************)
EXTENDS Processes

CONSTANTS NChld, Rounds

VARIABLES proc,
    turn,             \* i, the child the parent plays with
    round,            \* r
    interrupted       \* the user has pressed Ctrl-C

Parent == 0
Children == 1 .. NChld
Procs == {Parent} \cup Children
Open == {"SIGUSR1", "SIGINT"}

\* The children are forked before the first round; they only wait for signals.
Init ==
    /\ proc = [p \in Procs |-> ProcessAt(IF p = Parent THEN "serve" ELSE "suspend")]
    /\ turn = 1
    /\ round = 0
    /\ interrupted = FALSE

\* kill(children[i], SIGUSR1)
Serve ==
    /\ proc[Parent].at = "serve"
    /\ proc' = Goto(Kill(proc, turn, "SIGUSR1"), Parent, "await")
    /\ UNCHANGED <<turn, round, interrupted>>

\* sigsuspend in the loop that waits for the child.
ParentWakes ==
    /\ proc[Parent].at = "await"
    /\ proc[Parent].last # "SIGUSR1"
    /\ \E s \in proc[Parent].pending : proc' = Suspend(proc, Parent, Open, s)
    /\ UNCHANGED <<turn, round, interrupted>>

\* Mutant: last_signal is not reset, the next wait returns at once.
KeepSignal(t) == t

\* last_signal = 0
ResetSignal(t) == [t EXCEPT ![Parent].last = NoSignal]

\* The child has answered: on to the next child, the next round, or the end.
NextTurn ==
    /\ proc[Parent].at = "await"
    /\ proc[Parent].last = "SIGUSR1"
    /\ turn' = (turn % NChld) + 1
    /\ round' = IF turn = NChld THEN round + 1 ELSE round
    /\ proc' = Goto(ResetSignal(proc), Parent, IF round' = Rounds THEN "finish" ELSE "serve")
    /\ UNCHANGED interrupted

\* SIGINT to every child.
Finish ==
    /\ proc[Parent].at = "finish"
    /\ proc' = Goto(KillAll(proc, Children, "SIGINT"), Parent, "wait")
    /\ UNCHANGED <<turn, round, interrupted>>

\* wait until ECHILD
End ==
    /\ proc[Parent].at = "wait"
    /\ AllLeft(proc, Children)
    /\ proc' = Goto(Reap(proc, Children), Parent, "left")
    /\ UNCHANGED <<turn, round, interrupted>>

ParentStep == Serve \/ ParentWakes \/ NextTurn \/ Finish \/ End

\* sigsuspend returns in a child: SIGINT ends it, SIGUSR1 is answered.
Child(c) ==
    /\ proc[c].at = "suspend"
    /\ \E s \in proc[c].pending :
          proc' = IF s = "SIGINT"
                  THEN Goto(Suspend(proc, c, Open, s), c, "left")
                  ELSE Kill([Suspend(proc, c, Open, s) EXCEPT ![c].last = NoSignal],
                            Parent, "SIGUSR1")
    /\ UNCHANGED <<turn, round, interrupted>>

Interrupt ==
    /\ ~interrupted
    /\ interrupted' = TRUE
    /\ proc' = KillAll(proc, Procs, "SIGINT")
    /\ UNCHANGED <<turn, round>>

Next == ParentStep \/ Interrupt \/ \E c \in Children : Child(c)

\* What a process does of itself.
Step(p) == (p = Parent /\ ParentStep) \/ (p \in Children /\ Child(p))

\* Between the parent's SIGUSR1 and the parent's reset there is exactly one
\* token: the signal on its way to the child of this turn, the answer on its
\* way back, or the answer taken. No kill ever finds SIGUSR1 already pending,
\* so no turn is merged into another. A Ctrl-C ends the game: a child that
\* takes SIGINT and SIGUSR1 together answers neither.
OneBallInPlay ==
    ~interrupted =>
        LET sent  == {p \in Procs : "SIGUSR1" \in proc[p].pending}
            taken == IF proc[Parent].last = "SIGUSR1" THEN 1 ELSE 0
        IN  /\ Cardinality(sent) + taken = (IF proc[Parent].at = "await" THEN 1 ELSE 0)
            /\ sent \subseteq {Parent, turn}
=============================================================================
