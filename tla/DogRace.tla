------------------------------- MODULE DogRace -------------------------------
(***************************************************************************)
(* The dog race of Lab3/Task3: task3_4.c, its last stage, put together     *)
(* from task3_3.c, the stage before, and the cancellation. Each dog is a   *)
(* thread that jumps along a track whose cells have a mutex each; it locks *)
(* its own cell and the one it jumps to, lower index first, with           *)
(* cancellation disabled. Main locks the whole track to print it, and      *)
(* SIGINT makes it cancel the dogs.                                        *)
(*                                                                         *)
(* A lock is an action of its own wherever a thread may hold another lock  *)
(* or be held up by a long owner. The last section of a dog (mx_finish)    *)
(* blocks nowhere and is one action.                                       *)
(***************************************************************************)
EXTENDS Integers, FiniteSets, Sequences

CONSTANTS
    Dogs,
    Length,           \* n, the number of cells
    MaxJump,          \* the longest jump; 5 in the code
    Main,
    Nobody

ASSUME DogsAssumption == IsFiniteSet(Dogs) /\ Main \notin Dogs /\ Nobody \notin Dogs \cup {Main}
ASSUME LengthAssumption == Length \in Nat /\ Length >= 2
ASSUME JumpAssumption == MaxJump \in Nat \ {0}

Cells == 0 .. Length - 1
Finish == Length - 1

VARIABLES
    track,            \* how many dogs stand on each cell
    mx_track,         \* the owner of each cell's mutex, or Nobody
    mx_finish,        \* the owner of mx_finish, or Nobody
    finished_count,
    winners,          \* the ids recorded so far, at most three
    dpc,              \* where each dog is
    pos,              \* its local pos
    next_pos,         \* its local next_pos
    cancelled,        \* the dogs pthread_cancel was called for
    mpc,              \* where main is
    sigint_received

dogs == <<dpc, pos, next_pos>>
race == <<finished_count, winners>>
vars == <<track, mx_track, mx_finish, race, dogs, cancelled, mpc, sigint_received>>

\* "gone": the thread has returned or was cancelled.
DogPCs == {"place", "sleep", "first", "second", "check", "waf", "move", "finish", "gone"}
MainPCs == {"loop", "lock", "snapshot", "cancel", "join", "finished", "interrupted"}

TypeOK ==
    /\ track \in [Cells -> Int]
    /\ mx_track \in [Cells -> Dogs \cup {Main, Nobody}]
    /\ mx_finish \in {Main, Nobody}
    /\ finished_count \in 0 .. Cardinality(Dogs)
    /\ winners \in [1 .. 3 -> Dogs \cup {Nobody}]
    /\ dpc \in [Dogs -> DogPCs]
    /\ pos \in [Dogs -> Cells]
    /\ next_pos \in [Dogs -> Cells]
    /\ cancelled \subseteq Dogs
    /\ mpc \in MainPCs
    /\ sigint_received \in {0, 1}

Init ==
    /\ track = [i \in Cells |-> 0]
    /\ mx_track = [i \in Cells |-> Nobody]
    /\ mx_finish = Nobody
    /\ finished_count = 0
    /\ winners = [i \in 1 .. 3 |-> Nobody]
    /\ dpc = [d \in Dogs |-> "place"]
    /\ pos = [d \in Dogs |-> 0]
    /\ next_pos = [d \in Dogs |-> 0]
    /\ cancelled = {}
    /\ mpc = "loop"
    /\ sigint_received = 0

-----------------------------------------------------------------------------
(* dog_thread *)

Goto(d, l) == dpc' = [dpc EXCEPT ![d] = l]

Lock(i, t) == mx_track[i] = Nobody /\ mx_track' = [mx_track EXCEPT ![i] = t]

\* track[0]++ under the mutex of cell 0.
Place(d) ==
    /\ dpc[d] = "place"
    /\ mx_track[0] = Nobody
    /\ track' = [track EXCEPT ![0] = @ + 1]
    /\ Goto(d, "sleep")
    /\ UNCHANGED <<mx_track, mx_finish, race, pos, next_pos, cancelled, mpc,
                   sigint_received>>

\* dog_sleep returns, unless a cancellation acts on it; a jump that would leave
\* the track ends on the last cell. A dog on the last cell has left the loop, so
\* pos # next_pos.
Wake(d) ==
    /\ dpc[d] = "sleep"
    /\ d \notin cancelled
    /\ \E jump \in 1 .. MaxJump :
          LET next == pos[d] + jump IN
          next_pos' = [next_pos EXCEPT ![d] = IF next >= Length THEN Finish ELSE next]
    /\ Goto(d, "first")
    /\ UNCHANGED <<track, mx_track, mx_finish, race, pos, cancelled, mpc, sigint_received>>

\* pos < next_pos, so the dog's own cell is the first of the two.
LockFirst(d) ==
    /\ dpc[d] = "first"
    /\ Lock(pos[d], d)
    /\ Goto(d, "second")
    /\ UNCHANGED <<track, mx_finish, race, pos, next_pos, cancelled, mpc, sigint_received>>

\* Mutant: the dog does not lock the cell it jumps to.
LockSecondMissing(d) ==
    /\ dpc[d] = "second"
    /\ Goto(d, "check")
    /\ UNCHANGED <<track, mx_track, mx_finish, race, pos, next_pos, cancelled, mpc,
                   sigint_received>>

LockSecond(d) ==
    /\ dpc[d] = "second"
    /\ Lock(next_pos[d], d)
    /\ Goto(d, "check")
    /\ UNCHANGED <<track, mx_finish, race, pos, next_pos, cancelled, mpc, sigint_received>>

\* Only the last cell holds more than one dog.
Collides(d) == next_pos[d] # Finish /\ track[next_pos[d]] > 0

Check(d) ==
    /\ dpc[d] = "check"
    /\ Goto(d, IF Collides(d) THEN "waf" ELSE "move")
    /\ UNCHANGED <<track, mx_track, mx_finish, race, pos, next_pos, cancelled, mpc,
                   sigint_received>>

\* Unlock both cells (whichever of them d holds).
Unlock(d) == mx_track' = [i \in Cells |-> IF mx_track[i] = d THEN Nobody ELSE mx_track[i]]

\* Mutant: the dog goes back to sleep with both cells locked.
WafLocked(d) ==
    /\ dpc[d] = "waf"
    /\ Goto(d, "sleep")
    /\ UNCHANGED <<track, mx_track, mx_finish, race, pos, next_pos, cancelled, mpc,
                   sigint_received>>

\* "waf waf waf": unlock and retry later.
Waf(d) ==
    /\ dpc[d] = "waf"
    /\ Unlock(d)
    /\ Goto(d, "sleep")
    /\ UNCHANGED <<track, mx_finish, race, pos, next_pos, cancelled, mpc, sigint_received>>

\* Mutant: the dog appears on the new cell and stays on the old one.
MoveCopy(d) ==
    /\ dpc[d] = "move"
    /\ track' = [track EXCEPT ![next_pos[d]] = @ + 1]
    /\ Unlock(d)
    /\ pos' = [pos EXCEPT ![d] = next_pos[d]]
    /\ Goto(d, IF next_pos[d] = Finish THEN "finish" ELSE "sleep")
    /\ UNCHANGED <<mx_finish, race, next_pos, cancelled, mpc, sigint_received>>

\* Move the dog, unlock both cells, pos = next_pos.
Move(d) ==
    /\ dpc[d] = "move"
    /\ track' = [track EXCEPT ![pos[d]] = @ - 1, ![next_pos[d]] = @ + 1]
    /\ Unlock(d)
    /\ pos' = [pos EXCEPT ![d] = next_pos[d]]
    /\ Goto(d, IF next_pos[d] = Finish THEN "finish" ELSE "sleep")
    /\ UNCHANGED <<mx_finish, race, next_pos, cancelled, mpc, sigint_received>>

\* Mutant: the rank is taken from finished_count before it is incremented.
RecordAtOldCount(d) ==
    /\ dpc[d] = "finish"
    /\ mx_finish = Nobody
    /\ finished_count' = finished_count + 1
    /\ winners' = IF finished_count \in 1 .. 3
                  THEN [winners EXCEPT ![finished_count] = d]
                  ELSE winners
    /\ Goto(d, "gone")
    /\ UNCHANGED <<track, mx_track, mx_finish, pos, next_pos, cancelled, mpc,
                   sigint_received>>

\* Under mx_finish: count the dog and record the first three; the thread returns.
RecordFinish(d) ==
    /\ dpc[d] = "finish"
    /\ mx_finish = Nobody
    /\ finished_count' = finished_count + 1
    /\ winners' = IF finished_count + 1 <= 3
                  THEN [winners EXCEPT ![finished_count + 1] = d]
                  ELSE winners
    /\ Goto(d, "gone")
    /\ UNCHANGED <<track, mx_track, mx_finish, pos, next_pos, cancelled, mpc,
                   sigint_received>>

\* Mutant: cancellation is not disabled, and the printf of a collision is a
\* cancellation point.
CancellableInPrint == {"sleep", "waf"}

\* The only cancellation point outside the section with cancellation disabled is
\* nanosleep: pthread_mutex_lock is none.
Cancellable == {"sleep"}

CancelDog(d) ==
    /\ d \in cancelled
    /\ dpc[d] \in Cancellable
    /\ Goto(d, "gone")
    /\ UNCHANGED <<track, mx_track, mx_finish, race, pos, next_pos, cancelled, mpc,
                   sigint_received>>

\* dog_thread of task3_3.c, which has no cancellation and keeps no winners
\* (there the rank is only printed).
Dog3(d) ==
    \/ Place(d)
    \/ Wake(d)
    \/ LockFirst(d)
    \/ LockSecond(d)
    \/ Check(d)
    \/ Waf(d)
    \/ Move(d)
    \/ RecordFinish(d)

DogStep(d) == Dog3(d) \/ CancelDog(d)

-----------------------------------------------------------------------------
(* main *)

\* sig_handler
Sigint ==
    /\ sigint_received = 0
    /\ mpc \notin {"finished", "interrupted"}
    /\ sigint_received' = 1
    /\ UNCHANGED <<track, mx_track, mx_finish, race, dogs, cancelled, mpc>>

\* The sleep is over: cancel the dogs, or start to lock the track.
LoopTurn ==
    /\ mpc = "loop"
    /\ mpc' = IF sigint_received = 1 THEN "cancel" ELSE "lock"
    /\ UNCHANGED <<track, mx_track, mx_finish, race, dogs, cancelled, sigint_received>>

\* for (i = 0; i < n; i++) pthread_mutex_lock(&mx_track[i]), then mx_finish.
LockAll ==
    /\ mpc = "lock"
    /\ \/ \E i \in Cells :
             /\ \A j \in Cells : mx_track[j] = Main <=> j < i
             /\ Lock(i, Main)
          /\ UNCHANGED <<mx_finish, mpc>>
       \/ /\ \A j \in Cells : mx_track[j] = Main
          /\ mx_finish = Nobody
          /\ mx_finish' = Main
          /\ mpc' = "snapshot"
          /\ mx_track' = mx_track
    /\ UNCHANGED <<track, race, dogs, cancelled, sigint_received>>

\* Mutant: main gives up on the last dog and cancels it.
PrintEarly ==
    /\ mpc = "snapshot"
    /\ mx_finish' = Nobody
    /\ Unlock(Main)
    /\ mpc' = IF finished_count >= Cardinality(Dogs) - 1 THEN "cancel" ELSE "loop"
    /\ UNCHANGED <<track, race, dogs, cancelled, sigint_received>>

\* Print the track, unlock everything, stop if everyone has finished.
PrintTrack ==
    /\ mpc = "snapshot"
    /\ mx_finish' = Nobody
    /\ Unlock(Main)
    /\ mpc' = IF finished_count >= Cardinality(Dogs) THEN "join" ELSE "loop"
    /\ UNCHANGED <<track, race, dogs, cancelled, sigint_received>>

\* pthread_cancel of one dog after the other.
CancelNext ==
    /\ mpc = "cancel"
    /\ IF cancelled = Dogs
       THEN mpc' = "join" /\ cancelled' = cancelled
       ELSE mpc' = mpc /\ \E d \in Dogs \ cancelled : cancelled' = cancelled \cup {d}
    /\ UNCHANGED <<track, mx_track, mx_finish, race, dogs, sigint_received>>

\* Join every dog, print the results or the cancellation, destroy the mutexes.
JoinAll ==
    /\ mpc = "join"
    /\ \A d \in Dogs : dpc[d] = "gone"
    /\ mpc' = IF sigint_received = 1 THEN "interrupted" ELSE "finished"
    /\ UNCHANGED <<track, mx_track, mx_finish, race, dogs, cancelled, sigint_received>>

\* main of task3_3.c: a run of that program is a run of this one without SIGINT.
Main3 == LoopTurn \/ LockAll \/ PrintTrack \/ JoinAll

MainStep == Main3 \/ CancelNext

Over == mpc \in {"finished", "interrupted"}
Terminated == Over /\ UNCHANGED vars

Next ==
    \/ \E d \in Dogs : DogStep(d)
    \/ MainStep
    \/ Sigint
    \/ Terminated

Spec == Init /\ [][Next]_vars

\* Strong fairness: main takes and gives back every lock again and again, and
\* dogs that collide do so too, so a thread that wants one finds it free only
\* now and then. Between two rounds main sleeps a second and a dog at least
\* 200 ms, so a thread that waits gets its turn.
Fairness == SF_vars(MainStep) /\ \A d \in Dogs : SF_vars(DogStep(d))

FairSpec == Spec /\ Fairness

-----------------------------------------------------------------------------
(* Properties *)

OnTrack(i) == {d \in Dogs : dpc[d] # "place" /\ pos[d] = i}

\* Two dogs never stand on the same cell between the start and the finish,
\* although each checks the cell it jumps to before it moves.
CellExclusive == \A i \in Cells \ {0, Finish} : track[i] <= 1

\* What main prints is a state of the race: with all the locks in hand the track
\* shows every dog once, on its own cell, no dog is in the middle of a move,
\* and the count does not run ahead of the dogs on the last cell.
SnapshotConsistent ==
    mpc = "snapshot" =>
        /\ \A i \in Cells : track[i] = Cardinality(OnTrack(i))
        /\ finished_count <= track[Finish]
        /\ \A d \in Dogs : dpc[d] \notin {"second", "check", "waf", "move"}

\* A dog that is gone, by cancellation too, has left no mutex locked, so no
\* other dog and not main waits for it, and what main destroys is unlocked.
NoLockLeftBehind ==
    /\ \A i \in Cells : mx_track[i] \in Dogs => dpc[mx_track[i]] # "gone"
    /\ Over => mx_finish = Nobody /\ \A i \in Cells : mx_track[i] = Nobody

\* The podium names different dogs that have finished, without gaps, whatever
\* the order in which they reached mx_finish.
PodiumSound ==
    \A i \in 1 .. 3 :
        /\ winners[i] # Nobody <=> i <= finished_count
        /\ winners[i] # Nobody => pos[winners[i]] = Finish
        /\ \A j \in 1 .. 3 : i # j /\ winners[i] # Nobody => winners[i] # winners[j]

\* Results are printed only for a race that all dogs have finished.
ResultsComplete == mpc = "finished" => finished_count = Cardinality(Dogs)

\* The dogs that were counted at the finish.
Arrived == {d \in Dogs : dpc[d] = "gone" /\ pos[d] = Finish}

\* The race as its spectators see it is the abstract one: to check a cell and to
\* move there is one step although main and the other dogs run in between, dogs
\* are ranked one by one, none of them twice, and a race is finished when every
\* dog is ranked.
R == INSTANCE Race WITH
        started <- {d \in Dogs : dpc[d] # "place"},
        cell <- pos,
        ranked <- Arrived,
        result <- IF Over THEN mpc ELSE "none"
ImplementsRace == R!Spec

\* Every race ends, finished or interrupted: no deadlock between dogs and the
\* snapshot, and no dog that barks for ever.
RaceEnds == <>Over

-----------------------------------------------------------------------------
(* The invariant that implies the safety properties and is inductive. *)

Moving == {"first", "second", "check", "waf", "move"}
HoldsFirst == {"second", "check", "waf", "move"}
HoldsBoth == {"check", "waf", "move"}

\* A dog jumps forward until it is on the last cell, where it leaves the loop.
Positions ==
    \A d \in Dogs :
        /\ dpc[d] = "place" => pos[d] = 0
        /\ dpc[d] \in Moving \cup {"place", "sleep"} => pos[d] < Finish
        /\ dpc[d] \in Moving => pos[d] < next_pos[d]
        /\ dpc[d] = "finish" => pos[d] = Finish

\* A dog between its locks and its unlocks owns the mutexes of its two cells.
HoldersOwn ==
    \A d \in Dogs :
        /\ dpc[d] \in HoldsFirst => mx_track[pos[d]] = d
        /\ dpc[d] \in HoldsBoth => mx_track[next_pos[d]] = d

\* And a mutex a dog owns is one of those.
OwnersHold ==
    \A i \in Cells, d \in Dogs :
        mx_track[i] = d =>
            \/ dpc[d] \in HoldsFirst /\ i = pos[d]
            \/ dpc[d] \in HoldsBoth /\ i = next_pos[d]

\* Main owns mutexes only while it locks and prints, and all of them to print.
MainOwns ==
    /\ \A i \in Cells : mx_track[i] = Main => mpc \in {"lock", "snapshot"}
    /\ mpc = "snapshot" => \A i \in Cells : mx_track[i] = Main
    /\ mx_finish = Main <=> mpc = "snapshot"

\* Each cell counts the dogs that stand on it.
TrackCounts == \A i \in Cells : track[i] = Cardinality(OnTrack(i))

\* The check of the cell a dog jumps to is still true when the dog moves.
CheckHolds ==
    \A d \in Dogs : dpc[d] = "move" => next_pos[d] = Finish \/ track[next_pos[d]] = 0

FinishCounts == finished_count = Cardinality(Arrived)

\* The winners are dogs that are through with mx_finish, each recorded once.
Recorded ==
    \A i \in 1 .. 3 :
        /\ winners[i] # Nobody <=> i <= finished_count
        /\ winners[i] # Nobody => winners[i] \in Arrived
        /\ \A j \in 1 .. 3 : i # j /\ winners[i] # Nobody => winners[i] # winners[j]

\* Main cancels only after SIGINT, joins without it only a complete race, and
\* ends after every dog.
MainKnows ==
    /\ mpc \in {"cancel", "interrupted"} => sigint_received = 1
    /\ mpc = "join" /\ sigint_received = 0 => finished_count >= Cardinality(Dogs)
    /\ mpc = "finished" => finished_count >= Cardinality(Dogs)
    /\ Over => \A d \in Dogs : dpc[d] = "gone"

IInv ==
    /\ TypeOK
    /\ Positions
    /\ HoldersOwn
    /\ OwnersHold
    /\ MainOwns
    /\ TrackCounts
    /\ CellExclusive
    /\ CheckHolds
    /\ FinishCounts
    /\ Recorded
    /\ MainKnows
=============================================================================
