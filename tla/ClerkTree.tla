------------------------------ MODULE ClerkTree ------------------------------
(***************************************************************************)
(* The office of Lab2/Task4: a tree of clerks, one process each, that pass *)
(* documents (SIGUSR2) up and end the day (SIGINT) from the top down.      *)
(*                                                                         *)
(* stage 5 is main5.c, stage 4 main4.c (the day never ends) and stage 3    *)
(* main3.c (no signals: a clerk leaves when its subordinates have left).   *)
(* main blocks the three signals before the first fork, so handlers run    *)
(* inside sigsuspend only, and the code between two sigsuspends is one     *)
(* action. The files of the directory are the function Subordinates.       *)
(***************************************************************************)
EXTENDS Processes

CONSTANTS
    Clerks,
    Root,             \* the highest administrator
    Subordinates,     \* the names, other than "-", in each clerk's file
    MaxUserSignals    \* bound: how many signals the users send (n of the root)

VARIABLES stage, proc,
    lost              \* the clerks whose SIGINT was overwritten before it was read

Superior(c) == CHOOSE s \in Clerks : c \in Subordinates[s]
Awaited == {"SIGUSR1", "SIGUSR2", "SIGINT"}

\* The signals are blocked, the root opens its file.
Office ==
    /\ proc = [c \in Clerks |-> ProcessAt(IF c = Root THEN "inspect" ELSE "unborn")]
    /\ lost = {}

\* main of main3.c, main4.c and main5.c
Init3 == stage = 3 /\ Office
Init4 == stage = 4 /\ Office
Init5 == stage = 5 /\ Office
Init == Init3 \/ Init4 \/ Init5

\* One more subordinate of c's file gets a process.
Inspect(c) ==
    /\ proc[c].at = "inspect"
    /\ \E s \in Subordinates[c] :
          /\ proc[s].at = "unborn"
          /\ proc' = Fork(proc, s, "inspect")
    /\ UNCHANGED <<stage, lost>>

\* "... has inspected all subordinates"
Inspected(c) ==
    /\ proc[c].at = "inspect"
    /\ \A s \in Subordinates[c] : proc[s].at # "unborn"
    /\ proc' = Goto(proc, c, IF stage = 3 THEN "wait" ELSE "suspend")
    /\ UNCHANGED <<stage, lost>>

\* sigsuspend returns, the handler for s has run last. A SIGINT whose handler
\* ran before is overwritten in last_signal.
Wake(c, s) ==
    /\ proc[c].at = "suspend"
    /\ s \in proc[c].pending
    /\ lost' = IF "SIGINT" \in proc[c].pending /\ s # "SIGINT" THEN lost \cup {c} ELSE lost
    /\ UNCHANGED stage

\* The table after the loop has read last_signal and set it to 0.
Awake(c, s) == [Suspend(proc, c, Awaited, s) EXCEPT ![c].last = NoSignal]

\* SIGUSR2: the document goes to the archive, or up, or is ignored by the root.
TakeDocument(c) ==
    /\ Wake(c, "SIGUSR2")
    /\ \E archive \in BOOLEAN :
          proc' = IF archive \/ c = Root
                  THEN Awake(c, "SIGUSR2")
                  ELSE Kill(Awake(c, "SIGUSR2"), Superior(c), "SIGUSR2")

\* Mutant: the loop that forwards SIGINT stops one short.
EndDayForOne(c) ==
    /\ stage = 5
    /\ Wake(c, "SIGINT")
    /\ proc' = LET heard == IF Subordinates[c] = {} THEN {}
                            ELSE {CHOOSE s \in Subordinates[c] : TRUE}
               IN  Goto(KillAll(Awake(c, "SIGINT"), heard, "SIGINT"), c, "wait")

\* SIGINT: forward it to the subordinates, then wait for them.
EndDay(c) ==
    /\ stage = 5
    /\ Wake(c, "SIGINT")
    /\ proc' = Goto(KillAll(Awake(c, "SIGINT"), Subordinates[c], "SIGINT"), c, "wait")

\* Any other value of last_signal: the loop goes round.
TakeNothing(c) ==
    /\ \E s \in IF stage = 5 THEN {"SIGUSR1"} ELSE {"SIGUSR1", "SIGINT"} :
          /\ Wake(c, s)
          /\ proc' = Awake(c, s)

\* Mutant: leave without waiting.
LeaveAtOnce(c) ==
    /\ proc[c].at = "wait"
    /\ proc' = Goto(Reap(proc, Subordinates[c]), c, "left")
    /\ UNCHANGED <<stage, lost>>

\* The last waitpid has returned: leave the office.
Leave(c) ==
    /\ proc[c].at = "wait"
    /\ AllLeft(proc, Subordinates[c])
    /\ proc' = Goto(Reap(proc, Subordinates[c]), c, "left")
    /\ UNCHANGED <<stage, lost>>

\* Somebody sends a signal to a clerk.
UserSignal(c, s) ==
    /\ Alive(proc, c)
    /\ proc[Root].n < MaxUserSignals
    /\ proc' = Kill([proc EXCEPT ![Root].n = @ + 1], c, s)
    /\ UNCHANGED <<stage, lost>>

\* handle_clerk of main5.c
Clerk5(c) == TakeDocument(c) \/ EndDay(c) \/ TakeNothing(c)

\* handle_clerk of main4.c: SIGINT is stored and nothing reads it.
Clerk4(c) == TakeDocument(c) \/ TakeNothing(c)

\* handle_clerk of main3.c
Clerk3(c) == Inspect(c) \/ Inspected(c) \/ Leave(c)

Loop(c) == (stage = 5 /\ Clerk5(c)) \/ (stage = 4 /\ Clerk4(c))

Next ==
    \E c \in Clerks :
        \/ Clerk3(c)
        \/ Loop(c)
        \/ \E s \in {"SIGUSR2", "SIGINT"} : UserSignal(c, s)

\* What a process does of itself.
Step(c) == Clerk3(c) \/ Loop(c)
=============================================================================
