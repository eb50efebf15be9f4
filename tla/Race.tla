-------------------------------- MODULE Race --------------------------------
(***************************************************************************)
(* What the dog race of Lab3/Task3 promises to who watches it: to look at  *)
(* a cell and to jump there is one step, dogs are ranked one by one as     *)
(* they come from the last cell, and the race is over when all are ranked, *)
(* or is interrupted. No thread, no mutex, no snapshot, no cancellation.   *)
(***************************************************************************)
EXTENDS Naturals, FiniteSets

CONSTANTS
    Dogs,
    Length,       \* the number of cells
    MaxJump,
    Nobody

VARIABLES
    started,      \* the dogs that are on the track
    cell,         \* where each stands
    ranked,       \* the dogs that have a rank
    winners,      \* the first three of them
    result        \* "none" while the race is on

vars == <<started, cell, ranked, winners, result>>

Finish == Length - 1
On == result = "none"

Init ==
    /\ started = {}
    /\ cell = [d \in Dogs |-> 0]
    /\ ranked = {}
    /\ winners = [i \in 1 .. 3 |-> Nobody]
    /\ On

Start(d) ==
    /\ On
    /\ started' = started \cup {d}
    /\ UNCHANGED <<cell, ranked, winners, result>>

\* A jump that would leave the track ends on the last cell, where there is room
\* for all.
Landing(d, jump) == IF cell[d] + jump >= Length THEN Finish ELSE cell[d] + jump
Free(i) == i = Finish \/ \A e \in started : cell[e] # i

Jump(d) ==
    /\ On
    /\ d \in started /\ cell[d] # Finish
    /\ \E jump \in 1 .. MaxJump :
          /\ Free(Landing(d, jump))
          /\ cell' = [cell EXCEPT ![d] = Landing(d, jump)]
    /\ UNCHANGED <<started, ranked, winners, result>>

Rank(d) ==
    /\ On
    /\ d \in started /\ cell[d] = Finish
    /\ d \notin ranked
    /\ ranked' = ranked \cup {d}
    /\ winners' = IF Cardinality(ranked) < 3
                  THEN [winners EXCEPT ![Cardinality(ranked) + 1] = d]
                  ELSE winners
    /\ UNCHANGED <<started, cell, result>>

End ==
    /\ On
    /\ \/ ranked = Dogs /\ result' = "finished"
       \/ result' = "interrupted"
    /\ UNCHANGED <<started, cell, ranked, winners>>

Next == End \/ \E d \in Dogs : Start(d) \/ Jump(d) \/ Rank(d)

Spec == Init /\ [][Next]_vars
=============================================================================
