-------------------------------- MODULE Dice --------------------------------
(***************************************************************************)
(* The dice game of Lab4/Tutorials/task1_3.c: in every round all players   *)
(* roll, a barrier, the barrier's serial thread gives a point to each of   *)
(* the best rolls, the barrier again.                                      *)
(***************************************************************************)
EXTENDS Naturals, FiniteSets, FiniteSetsExt

CONSTANTS
    N,                \* PLAYER_COUNT
    Rounds,           \* ROUNDS
    Faces

VARIABLES pc,
    main,
    arrived,          \* how many players wait at the barrier
    round,            \* of each player
    rolls, scores

Players == 1 .. N

Init ==
    /\ main = "join"
    /\ pc = [p \in Players |-> "roll"]
    /\ arrived = 0
    /\ round = [p \in Players |-> 0]
    /\ rolls = [p \in Players |-> 0]
    /\ scores = [p \in Players |-> 0]

\* 1 + rand_r(&args->seed) % 6
Roll(p) ==
    /\ pc[p] = "roll"
    /\ \E r \in 1 .. Faces : rolls' = [rolls EXCEPT ![p] = r]
    /\ pc' = [pc EXCEPT ![p] = "barrier1"]
    /\ UNCHANGED <<main, arrived, round, scores>>

\* The first barrier; one player is the serial thread.
Barrier1(p) ==
    /\ pc[p] = "barrier1"
    /\ IF arrived < N - 1
       THEN arrived' = arrived + 1 /\ pc' = [pc EXCEPT ![p] = "at1"]
       ELSE /\ arrived' = 0
            /\ \E s \in Players :
                  pc' = [q \in Players |-> IF q = s THEN "assign" ELSE "barrier2"]
    /\ UNCHANGED <<main, round, rolls, scores>>

\* The serial thread finds the best roll ...
Best == Max({rolls[p] : p \in Players})

\* ... and gives the points.
Assign(p) ==
    /\ pc[p] = "assign"
    /\ scores' = [q \in Players |-> IF rolls[q] = Best THEN scores[q] + 1 ELSE scores[q]]
    /\ pc' = [pc EXCEPT ![p] = "barrier2"]
    /\ UNCHANGED <<main, arrived, round, rolls>>

AfterRound(r) == IF r = Rounds THEN "done" ELSE "roll"

\* Mutant: no second barrier, the next round begins at once.
NoBarrier2(p) ==
    /\ pc[p] = "barrier2"
    /\ round' = [round EXCEPT ![p] = @ + 1]
    /\ pc' = [pc EXCEPT ![p] = AfterRound(round'[p])]
    /\ UNCHANGED <<main, arrived, rolls, scores>>

\* The second barrier, then the next round.
Barrier2(p) ==
    /\ pc[p] = "barrier2"
    /\ IF arrived < N - 1
       THEN arrived' = arrived + 1 /\ pc' = [pc EXCEPT ![p] = "at2"] /\ UNCHANGED round
       ELSE /\ arrived' = 0
            /\ round' = [q \in Players |-> round[q] + 1]
            /\ pc' = [q \in Players |-> AfterRound(round'[q])]
    /\ UNCHANGED <<main, rolls, scores>>

PrintScores ==
    /\ main = "join"
    /\ \A p \in Players : pc[p] = "done"
    /\ main' = "printed"
    /\ UNCHANGED <<pc, arrived, round, rolls, scores>>

Step(p) == Roll(p) \/ Barrier1(p) \/ Assign(p) \/ Barrier2(p)
Next == PrintScores \/ \E p \in Players : Step(p)

\* The rolls are read and the points given when all players have rolled for the
\* same round and none has gone on: nobody writes rolls meanwhile.
RollsOfOneRound ==
    \A p \in Players :
        pc[p] = "assign" => /\ \A q \in Players : round[q] = round[p]
                            /\ \A q \in Players : pc[q] \notin {"roll", "barrier1", "at1"}
=============================================================================
