----------------------------- MODULE Processes -----------------------------
(***************************************************************************)
(* What the programs of Lab2 use of processes and signals. A process is a  *)
(* record: where it is, the value of its last_signal, its pending signals  *)
(* and one counter of its own. A process table maps process ids to         *)
(* records; the operators take a table and return one.                     *)
(*                                                                         *)
(* A signal of a kind that is already pending is lost (signals do not      *)
(* queue); a signal sent to a process that has exited does nothing.        *)
(***************************************************************************)
EXTENDS Naturals, FiniteSets, FiniteSetsExt

Signals == {"SIGUSR1", "SIGUSR2", "SIGINT", "SIGCHLD"}
NoSignal == "0"

ProcessAt(l) == [at |-> l, last |-> NoSignal, pending |-> {}, n |-> 0]

\* "left" is a zombie: it has called exit and nobody has waited for it.
Gone == {"unborn", "left", "reaped"}
Alive(t, p) == t[p].at \notin Gone

Goto(t, p, l) == [t EXCEPT ![p].at = l]

\* fork: the child starts at l with nothing pending.
Fork(t, c, l) == [t EXCEPT ![c] = ProcessAt(l)]

\* kill(p, s)
Kill(t, p, s) == IF Alive(t, p) THEN [t EXCEPT ![p].pending = @ \cup {s}] ELSE t

\* kill(p, s) for every p of ps
KillAll(t, ps, s) ==
    [p \in DOMAIN t |->
        IF p \in ps /\ Alive(t, p) THEN [t[p] EXCEPT !.pending = @ \cup {s}] ELSE t[p]]

\* sigsuspend returns: the handlers of all pending signals of `open` have run,
\* and the one for s, which stores s in last_signal, ran last.
Suspend(t, p, open, s) == [t EXCEPT ![p].pending = @ \ open, ![p].last = s]

\* A handler runs where the signal is not blocked.
Handle(t, p, s) == [t EXCEPT ![p].pending = @ \ {s}, ![p].last = s]

\* wait, waitpid: no child of ps is left to wait for
AllLeft(t, ps) == \A c \in ps : t[c].at \in {"left", "reaped"}
Reap(t, ps) ==
    [p \in DOMAIN t |->
        IF p \in ps /\ t[p].at = "left" THEN [t[p] EXCEPT !.at = "reaped"] ELSE t[p]]
=============================================================================
