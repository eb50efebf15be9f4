------------------------------ MODULE CardTable ------------------------------
(***************************************************************************)
(* What the card game of Lab4/Task2 promises to the players at a table: a  *)
(* round is one step. In it each player gives one card to the player on    *)
(* the right and all of them do so at once; there is a next round exactly  *)
(* as long as nobody holds a winning hand, and the table is cleared when   *)
(* the game is over. Nothing here says how: no thread, no barrier, no      *)
(* mutex, no signal.                                                       *)
(***************************************************************************)
EXTENDS Naturals, FiniteSets

CONSTANTS
    N,            \* how many players a table has
    Cards,        \* the deck
    Suit,         \* the suit of each card
    HandSize

VARIABLES
    plays,        \* FALSE where the players only sit down and leave
    seats,        \* how many players sit at the table
    hands,        \* the cards of each, none before the player sits
    over          \* somebody has won

vars == <<plays, seats, hands, over>>

Players == 0 .. N - 1
Right(p) == (p + 1) % N
Left(p) == CHOOSE q \in Players : Right(q) = p

Winning(h) == \A c, d \in h : Suit[c] = Suit[d]
Won == \E p \in Players : Winning(hands[p])

Init ==
    /\ plays \in BOOLEAN
    /\ seats = 0
    /\ hands = [p \in Players |-> {}]
    /\ over = FALSE

\* The next player gets cards that nobody has.
Deal ==
    /\ seats < N
    /\ \E h \in SUBSET (Cards \ UNION {hands[p] : p \in Players}) :
          /\ Cardinality(h) = HandSize
          /\ hands' = [hands EXCEPT ![seats] = h]
    /\ seats' = seats + 1
    /\ UNCHANGED <<plays, over>>

FullTable == plays /\ seats = N

\* A round nobody has won: one card of each player moves one seat to the right.
Exchange ==
    /\ FullTable
    /\ ~ Won
    /\ \E given \in SUBSET UNION {hands[p] : p \in Players} :
          /\ \A p \in Players : \E c \in hands[p] : hands[p] \cap given = {c}
          /\ hands' = [p \in Players |-> (hands[p] \ given) \cup (hands[Left(p)] \cap given)]
    /\ UNCHANGED <<plays, seats, over>>

Win ==
    /\ FullTable
    /\ Won
    /\ over' = TRUE
    /\ UNCHANGED <<plays, seats, hands>>

\* The players have left; a game is played to its end.
Clear ==
    /\ seats = N
    /\ plays => over
    /\ seats' = 0
    /\ hands' = [p \in Players |-> {}]
    /\ over' = FALSE
    /\ UNCHANGED plays

Next == Deal \/ Exchange \/ Win \/ Clear

Spec == Init /\ [][Next]_vars
=============================================================================
