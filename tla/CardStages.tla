----------------------------- MODULE CardStages -----------------------------
(***************************************************************************)
(* The five versions of the card game in Lab4/Task2, put together from the *)
(* actions of CardGame:                                                    *)
(*   "deal"    sop-mss.c       every thread prints its hand;               *)
(*   "table"   sop-mss1.c      SIGUSR1 seats players, one barrier;         *)
(*   "rounds"  sop-mss2.c      the game itself;                            *)
(*   "cancel"  sop-mss3.c      SIGINT cancels the players that wait;       *)
(*   "lobby"   sop-mss3-alt.c  SIGINT closes the waiting room.             *)
(* A behaviour is one run of one version. The first three do not handle    *)
(* SIGINT, which ends them on the spot.                                    *)
(***************************************************************************)
EXTENDS CardGame

VARIABLE version

stagevars == <<vars, version>>

Versions == {"deal", "table", "rounds", "cancel", "lobby"}

-----------------------------------------------------------------------------
(* thread_func *)

\* sop-mss.c: print the hand and return.
DealThread(p) == PrintLock(p) \/ PrintUnlock(p, "none")

\* The thread returns after the one barrier.
LeaveTable(p) ==
    /\ pc[p] = "check"
    /\ Goto(p, "none")
    /\ UNCHANGED <<main, pending, table, game_over, print_mutex, arrived, cards, cancelled>>

\* sop-mss1.c: print the hand, wait for the others, return.
TableThread(p) ==
    \/ PrintLock(p)
    \/ PrintUnlock(p, "start")
    \/ StartBarrier(p)
    \/ LeaveTable(p)

\* sop-mss2.c: print the hand, wait for the others, play.
RoundsThread(p) ==
    \/ PrintLock(p)
    \/ PrintUnlock(p, "start")
    \/ PlayRound(p)

StageThread(p) ==
    CASE version = "deal" -> DealThread(p)
      [] version = "table" -> TableThread(p)
      [] version = "rounds" -> RoundsThread(p)
      [] version = "cancel" -> CancelPlayerStep(p)
      [] version = "lobby" -> PlayerStep(p) \/ SpuriousWakeup(p)

-----------------------------------------------------------------------------
(* main *)

\* All threads are joined, the program ends.
ExitAfterGame ==
    /\ main = "join"
    /\ Joined
    /\ main' = "exit"
    /\ UNCHANGED <<pending, table, game_over, print_mutex, arrived, pc, cards, cancelled>>

\* sop-mss.c: deal and start all the threads, then join them.
DealMain == (SeatNext /\ UNCHANGED pending) \/ CancelJoin \/ ExitAfterGame

\* sop-mss1.c and sop-mss2.c: seat, and join when the table is full, for ever.
TableMain == Seat \/ CancelJoin \/ ResetTable
RoundsMain == Seat \/ CancelJoin \/ ResetTable

StageMain ==
    CASE version = "deal" -> DealMain
      [] version = "table" -> TableMain
      [] version = "rounds" -> RoundsMain
      [] version = "cancel" -> CancelMainStep
      [] version = "lobby" -> MainStep

Handled ==
    CASE version = "deal" -> {}
      [] version \in {"table", "rounds"} -> {"SIGUSR1"}
      [] OTHER -> Signals

StagesInit == Init /\ version \in Versions

StagesNext ==
    /\ \/ StageMain
       \/ \E p \in Players : StageThread(p)
       \/ \E s \in Handled : SendSignal(s)
    /\ UNCHANGED version

StagesSpec == StagesInit /\ [][StagesNext]_stagevars

-----------------------------------------------------------------------------
(* The game implements CardTable *)

\* The hand a player will have at the end of the round: the exchange has
\* happened when the last card is passed, and a hand follows when it is taken.
NextHand ==
    [p \in Players |->
        IF pc[p] = "take" THEN (hand[p] \ {first[p]}) \cup {received_card[p]} ELSE hand[p]]

tableHands == [p \in Players |-> IF p \in Seated THEN NextHand[p] ELSE {}]

CT == INSTANCE CardTable WITH
        plays <- version \in {"rounds", "cancel", "lobby"},
        seats <- current_players,
        hands <- tableHands,
        over <- game_over = 1

-----------------------------------------------------------------------------
(* Properties *)

\* While main joins a full table, one player that has left means that all the
\* others are past their last barrier: in the versions with rounds because
\* game_over is 1 and they are about to read it, in sop-mss1.c because the one
\* barrier has let all of them go. Nobody waits for a player that is gone.
NobodyLeftBehind ==
    CASE version = "deal" -> TRUE
      [] version = "table" ->
            (main = "join" /\ InGame # Seated) => \A p \in InGame : pc[p] = "check"
      [] OTHER -> LeaveTogether

\* Refinement: whatever the order in which the threads announce, pass and take,
\* the players see rounds of a table: a card of each moves to the right at once,
\* and the game goes on exactly until somebody holds a winning hand.
ImplementsCardTable == CT!Spec
=============================================================================
