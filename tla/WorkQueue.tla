----------------------------- MODULE WorkQueue -----------------------------
(***************************************************************************)
(* What the thread pool of Lab4/Task3 promises to the code that calls      *)
(* initialize, dispatch and cleanup: a task that is accepted is executed   *)
(* by exactly one worker and exactly once, at most Capacity accepted tasks *)
(* are in the hands of the pool at any time, a task is only lost when the  *)
(* pool says so (Drop), and once the pool is closed nothing is pending.    *)
(* Nothing here says how: no mutex, no condition variable, no semaphore.   *)
(***************************************************************************)
EXTENDS Naturals, FiniteSets

CONSTANTS
    Tasks,        \* the tasks a client may hand to the pool
    Capacity,     \* how many tasks may be queued or running together
    Lossy         \* TRUE if the pool may refuse an offered task

VARIABLES
    status,       \* where each task is in its life
    phase         \* "open", then "closing", then "closed"

vars == <<status, phase>>

\* The tasks whose status is in S.
In(S) == {t \in Tasks : status[t] \in S}

Init ==
    /\ status = [t \in Tasks |-> "new"]
    /\ phase = "open"

Move(t, from, to) ==
    /\ status[t] = from
    /\ status' = [status EXCEPT ![t] = to]
    /\ phase' = phase

\* A client offers one task at a time, and only while the pool is open.
Offer(t) == phase = "open" /\ In({"offered"}) = {} /\ Move(t, "new", "offered")

Drop(t) == Lossy /\ Move(t, "offered", "dropped")

\* One task may be queued, and it must fit in the capacity.
Enqueue(t) ==
    /\ In({"queued"}) = {}
    /\ Cardinality(In({"queued", "running"})) < Capacity
    /\ Move(t, "offered", "queued")

Start(t) == Move(t, "queued", "running")

Finish(t) == Move(t, "running", "finished")

Close ==
    /\ phase = "open"
    /\ In({"offered"}) = {}
    /\ phase' = "closing"
    /\ status' = status

\* The pool is gone only when every accepted task has been executed.
Closed ==
    /\ phase = "closing"
    /\ In({"offered", "queued", "running"}) = {}
    /\ phase' = "closed"
    /\ status' = status

Next ==
    \/ \E t \in Tasks :
          \/ Offer(t)
          \/ Drop(t)
          \/ Enqueue(t)
          \/ Start(t)
          \/ Finish(t)
    \/ Close
    \/ Closed

Spec == Init /\ [][Next]_vars
=============================================================================
