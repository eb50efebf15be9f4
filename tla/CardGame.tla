------------------------------ MODULE CardGame ------------------------------
(***************************************************************************)
(* The card game "My ship has sailed" of Lab4/Task2. SIGUSR1 seats a       *)
(* player; when N players sit, each thread plays rounds that one barrier   *)
(* separates into three phases: announce a winning hand, pass a card to    *)
(* the right, take the card that came from the left. SIGINT ends the       *)
(* program.                                                                *)
(*                                                                         *)
(* Spec is sop-mss3-alt.c, whose players wait in a lobby on start_cond     *)
(* until the table is full or closed. CancelSpec is sop-mss3.c, whose      *)
(* players go straight to the barrier and are cancelled by SIGINT.         *)
(*                                                                         *)
(* A hand is a set of cards and first[p] is the card in hand[0]: shuffle   *)
(* brings any card there, and the order of the others never matters. The   *)
(* sections under print_mutex and start_mutex block nowhere, so each is    *)
(* one action; only the one a thread can be cancelled in has two.          *)
(***************************************************************************)
EXTENDS Naturals, FiniteSets, FiniteSetsExt

CONSTANTS
    N,                \* how many players a table has
    Cards,            \* the deck
    Suit,             \* the suit of each card
    HandSize,         \* HAND_SIZE
    NoCard,
    NoPlayer

ASSUME NAssumption == N \in Nat \ {0}
ASSUME DeckAssumption ==
    /\ HandSize \in Nat \ {0}
    /\ IsFiniteSet(Cards) /\ Cardinality(Cards) >= N * HandSize
    /\ NoCard \notin Cards
    /\ DOMAIN Suit = Cards
    /\ NoPlayer \notin 0 .. N - 1

Players == 0 .. N - 1
Right(p) == (p + 1) % N

VARIABLES
    main,             \* where the main thread is
    pending,          \* the blocked signals that have arrived
    current_players,
    table_state,      \* "WAITING", "PLAYING" or "EXIT"
    game_over,
    print_mutex,      \* its owner while a player can be cancelled with it
    arrived,          \* how many threads wait at the barrier
    pc,               \* where each player's thread is
    hand,
    first,            \* hand[0], from shuffle until the card is replaced
    received_card,
    cancelled         \* the players pthread_cancel was called for

table == <<current_players, table_state>>
cards == <<hand, first, received_card>>
vars == <<main, pending, table, game_over, print_mutex, arrived, pc, cards, cancelled>>

Signals == {"SIGUSR1", "SIGINT"}
MainPCs == {"sigwait", "start", "join", "close", "cancel", "exit"}

\* "at..." is inside pthread_barrier_wait; "none" before and after the thread's life.
Waits == {"atStart", "atAnnounce", "atPass", "atTake"}
PlayerPCs == {"none", "print", "printing", "lobby", "asleep", "start", "check", "announced",
              "read", "pass", "passed", "take", "taken"} \cup Waits

TypeOK ==
    /\ main \in MainPCs
    /\ pending \subseteq Signals
    /\ current_players \in 0 .. N
    /\ table_state \in {"WAITING", "PLAYING", "EXIT"}
    /\ game_over \in {0, 1}
    /\ print_mutex \in Players \cup {NoPlayer}
    /\ arrived \in 0 .. N - 1
    /\ pc \in [Players -> PlayerPCs]
    /\ hand \in [Players -> SUBSET Cards]
    /\ first \in [Players -> Cards \cup {NoCard}]
    /\ received_card \in [Players -> Cards \cup {NoCard}]
    /\ cancelled \subseteq Players

Init ==
    /\ main = "sigwait"
    /\ pending = {}
    /\ current_players = 0
    /\ table_state = "WAITING"
    /\ game_over = 0
    /\ print_mutex = NoPlayer
    /\ arrived = 0
    /\ pc = [p \in Players |-> "none"]
    /\ hand = [p \in Players |-> {}]
    /\ first = [p \in Players |-> NoCard]
    /\ received_card = [p \in Players |-> NoCard]
    /\ cancelled = {}

Goto(p, l) == pc' = [pc EXCEPT ![p] = l]

-----------------------------------------------------------------------------
(* The user and main *)

\* kill: a second signal of a kind that is already pending is lost.
SendSignal(s) ==
    /\ main # "exit"
    /\ s \notin pending
    /\ pending' = pending \cup {s}
    /\ UNCHANGED <<main, table, game_over, print_mutex, arrived, pc, cards, cancelled>>

Seated == 0 .. current_players - 1

\* Deal the next cards of the deck to the next player and create the thread.
SeatNext ==
    /\ main = "sigwait"
    /\ current_players < N
    /\ \E h \in kSubset(HandSize, Cards \ UNION {hand[p] : p \in Seated}) :
          hand' = [hand EXCEPT ![current_players] = h]
    /\ received_card' = [received_card EXCEPT ![current_players] = NoCard]
    /\ Goto(current_players, "print")
    /\ current_players' = current_players + 1
    /\ main' = IF current_players + 1 = N THEN "start" ELSE "sigwait"
    /\ UNCHANGED <<table_state, game_over, print_mutex, arrived, first, cancelled>>

\* sigwait returns SIGUSR1. Main only comes back to sigwait with a free seat, so
\* the branches for a full table (SIGUSR1: "Table is full!", SIGINT: end the
\* running game) are never taken and have no action.
Seat ==
    /\ "SIGUSR1" \in pending
    /\ pending' = pending \ {"SIGUSR1"}
    /\ SeatNext

\* pthread_cond_broadcast(&start_cond)
WakeLobby == pc' = [p \in Players |-> IF pc[p] = "asleep" THEN "lobby" ELSE pc[p]]

\* The table is full: STATE_PLAYING, broadcast, then join every player.
StartGame ==
    /\ main = "start"
    /\ table_state' = "PLAYING"
    /\ WakeLobby
    /\ main' = "join"
    /\ UNCHANGED <<pending, current_players, game_over, print_mutex, arrived, cards, cancelled>>

Joined == \A p \in Seated : pc[p] = "none"

\* All players have left: reset the table for the next group.
ResetTable ==
    /\ main = "join"
    /\ Joined
    /\ current_players' = 0
    /\ table_state' = "WAITING"
    /\ game_over' = 0
    /\ main' = "sigwait"
    /\ UNCHANGED <<pending, print_mutex, arrived, pc, cards, cancelled>>

\* sigwait returns SIGINT.
TakeSigint ==
    /\ main = "sigwait"
    /\ "SIGINT" \in pending
    /\ pending' = pending \ {"SIGINT"}

\* sop-mss3-alt.c: tell the players in the lobby to leave, if there are any.
CloseLobby ==
    /\ TakeSigint
    /\ IF current_players > 0
       THEN table_state' = "EXIT" /\ WakeLobby /\ main' = "close"
       ELSE table_state' = table_state /\ pc' = pc /\ main' = "exit"
    /\ UNCHANGED <<current_players, game_over, print_mutex, arrived, cards, cancelled>>

ExitAfterJoin ==
    /\ main = "close"
    /\ Joined
    /\ main' = "exit"
    /\ UNCHANGED <<pending, table, game_over, print_mutex, arrived, pc, cards, cancelled>>

-----------------------------------------------------------------------------
(* thread_func *)

\* The first print, under print_mutex; then the lobby, or in sop-mss3.c the barrier.
PrintLock(p) ==
    /\ pc[p] = "print"
    /\ print_mutex = NoPlayer
    /\ print_mutex' = p
    /\ Goto(p, "printing")
    /\ UNCHANGED <<main, pending, table, game_over, arrived, cards, cancelled>>

PrintUnlock(p, l) ==
    /\ pc[p] = "printing"
    /\ print_mutex' = NoPlayer
    /\ Goto(p, l)
    /\ UNCHANGED <<main, pending, table, game_over, arrived, cards, cancelled>>

\* Mutant: the test of table_state is an if, and a woken player does not repeat it.
EnterLobbyOnce(p) ==
    /\ pc[p] = "lobby"
    /\ Goto(p, IF table_state = "WAITING" THEN "asleep" ELSE "start")
    /\ UNCHANGED <<main, pending, table, game_over, print_mutex, arrived, cards, cancelled>>

\* Under start_mutex: sleep while the table is WAITING, leave when it is closed.
EnterLobby(p) ==
    /\ pc[p] = "lobby"
    /\ Goto(p, CASE table_state = "WAITING" -> "asleep"
                 [] table_state = "EXIT" -> "none"
                 [] table_state = "PLAYING" -> "start")
    /\ UNCHANGED <<main, pending, table, game_over, print_mutex, arrived, cards, cancelled>>

\* pthread_cond_wait may return without a signal.
SpuriousWakeup(p) ==
    /\ pc[p] = "asleep"
    /\ Goto(p, "lobby")
    /\ UNCHANGED <<main, pending, table, game_over, print_mutex, arrived, cards, cancelled>>

\* Where a thread goes on after the barrier it waits at.
After(l) ==
    CASE l = "atStart" -> "check"
      [] l = "atAnnounce" -> "read"
      [] l = "atPass" -> "take"
      [] l = "atTake" -> "check"
      [] OTHER -> l

\* pthread_barrier_wait(arg->barrier): the N-th thread releases all of them,
\* wherever in the round each of them called it.
BarrierWait(p, l) ==
    /\ IF arrived + 1 = N
       THEN /\ arrived' = 0
            /\ pc' = [q \in Players |-> IF q = p THEN After(l) ELSE After(pc[q])]
       ELSE /\ arrived' = arrived + 1
            /\ Goto(p, l)
    /\ UNCHANGED <<main, pending, table, game_over, print_mutex, cancelled>>

\* The barrier before the first round.
StartBarrier(p) == pc[p] = "start" /\ BarrierWait(p, "atStart") /\ UNCHANGED cards

\* seven_of_a_kind: the whole hand has one suit.
SevenOfAKind(p) == \A c, d \in hand[p] : Suit[c] = Suit[d]

\* Mutant: every player stores the result of seven_of_a_kind.
CheckOverwrites(p) ==
    /\ pc[p] = "check"
    /\ print_mutex = NoPlayer
    /\ game_over' = IF SevenOfAKind(p) THEN 1 ELSE 0
    /\ Goto(p, "announced")
    /\ UNCHANGED <<main, pending, table, print_mutex, arrived, cards, cancelled>>

\* A winner sets game_over under print_mutex.
Check(p) ==
    /\ pc[p] = "check"
    /\ SevenOfAKind(p) => print_mutex = NoPlayer
    /\ game_over' = IF SevenOfAKind(p) THEN 1 ELSE game_over
    /\ Goto(p, "announced")
    /\ UNCHANGED <<main, pending, table, print_mutex, arrived, cards, cancelled>>

\* Mutant: the barrier has slipped into the branch of the winner.
AnnounceBarrierOfWinner(p) ==
    /\ pc[p] = "announced"
    /\ IF SevenOfAKind(p)
       THEN BarrierWait(p, "atAnnounce")
       ELSE /\ Goto(p, "read")
            /\ UNCHANGED <<main, pending, table, game_over, print_mutex, arrived, cancelled>>
    /\ UNCHANGED cards

\* Nobody reads game_over before everybody has had the chance to set it.
AnnounceBarrier(p) == pc[p] = "announced" /\ BarrierWait(p, "atAnnounce") /\ UNCHANGED cards

\* Mutant: a player breaks because of its own hand.
ReadOwnHand(p) ==
    /\ pc[p] = "read"
    /\ Goto(p, IF SevenOfAKind(p) THEN "none" ELSE "pass")
    /\ UNCHANGED <<main, pending, table, game_over, print_mutex, arrived, cards, cancelled>>

\* if (*(arg->game_over) == 1) break; and the thread ends.
ReadGameOver(p) ==
    /\ pc[p] = "read"
    /\ Goto(p, IF game_over = 1 THEN "none" ELSE "pass")
    /\ UNCHANGED <<main, pending, table, game_over, print_mutex, arrived, cards, cancelled>>

\* Under print_mutex: shuffle, and give hand[0] to the player on the right.
Pass(p) ==
    /\ pc[p] = "pass"
    /\ print_mutex = NoPlayer
    /\ \E c \in hand[p] :
          /\ first' = [first EXCEPT ![p] = c]
          /\ received_card' = [received_card EXCEPT ![Right(p)] = c]
    /\ Goto(p, "passed")
    /\ UNCHANGED <<main, pending, table, game_over, print_mutex, arrived, hand, cancelled>>

\* Mutant: the barrier between passing and taking is missing.
PassBarrierMissing(p) ==
    /\ pc[p] = "passed"
    /\ Goto(p, "take")
    /\ UNCHANGED <<main, pending, table, game_over, print_mutex, arrived, cards, cancelled>>

\* Nobody takes a card before everybody has passed one.
PassBarrier(p) == pc[p] = "passed" /\ BarrierWait(p, "atPass") /\ UNCHANGED cards

\* arg->hand[0] = arg->received_card. Neither value is read again before it is
\* written, so the model forgets them here.
Take(p) ==
    /\ pc[p] = "take"
    /\ hand' = [hand EXCEPT ![p] = (@ \ {first[p]}) \cup ({received_card[p]} \ {NoCard})]
    /\ first' = [first EXCEPT ![p] = NoCard]
    /\ received_card' = [received_card EXCEPT ![p] = NoCard]
    /\ Goto(p, "taken")
    /\ UNCHANGED <<main, pending, table, game_over, print_mutex, arrived, cancelled>>

\* The barrier at the end of the round.
TakeBarrier(p) == pc[p] = "taken" /\ BarrierWait(p, "atTake") /\ UNCHANGED cards

PlayRound(p) ==
    \/ StartBarrier(p)
    \/ Check(p)
    \/ AnnounceBarrier(p)
    \/ ReadGameOver(p)
    \/ Pass(p)
    \/ PassBarrier(p)
    \/ Take(p)
    \/ TakeBarrier(p)

-----------------------------------------------------------------------------
(* sop-mss3-alt.c *)

Terminated == main = "exit" /\ UNCHANGED vars

PlayerStep(p) ==
    \/ PrintLock(p)
    \/ PrintUnlock(p, "lobby")
    \/ EnterLobby(p)
    \/ PlayRound(p)

MainStep ==
    \/ Seat
    \/ StartGame
    \/ ResetTable
    \/ CloseLobby
    \/ ExitAfterJoin

Next ==
    \/ MainStep
    \/ \E p \in Players : PlayerStep(p) \/ SpuriousWakeup(p)
    \/ \E s \in Signals : SendSignal(s)
    \/ Terminated

Spec == Init /\ [][Next]_vars

-----------------------------------------------------------------------------
(* sop-mss3.c: no lobby; SIGINT cancels and joins the players one by one *)

CancelJoin ==
    /\ main = "start"
    /\ main' = "join"
    /\ UNCHANGED <<pending, table, game_over, print_mutex, arrived, pc, cards, cancelled>>

SigintCancel ==
    /\ TakeSigint
    /\ main' = IF current_players > 0 THEN "cancel" ELSE "exit"
    /\ UNCHANGED <<table, game_over, print_mutex, arrived, pc, cards, cancelled>>

\* Iteration i of the loop: pthread_cancel(tids[i]) once i - 1 has been joined.
CancelPlayer(p) ==
    /\ main = "cancel"
    /\ p \in Seated \ cancelled
    /\ \A q \in 0 .. p - 1 : q \in cancelled /\ pc[q] = "none"
    /\ cancelled' = cancelled \cup {p}
    /\ UNCHANGED <<main, pending, table, game_over, print_mutex, arrived, pc, cards>>

\* The output functions are cancellation points, pthread_mutex_lock and
\* pthread_barrier_wait are not. The mutex stays locked.
CancelledInPrint(p) ==
    /\ pc[p] = "printing"
    /\ p \in cancelled
    /\ Goto(p, "none")
    /\ UNCHANGED <<main, pending, table, game_over, print_mutex, arrived, cards, cancelled>>

ExitAfterCancel ==
    /\ main = "cancel"
    /\ \A p \in Seated : p \in cancelled /\ pc[p] = "none"
    /\ main' = "exit"
    /\ UNCHANGED <<pending, table, game_over, print_mutex, arrived, pc, cards, cancelled>>

CancelPlayerStep(p) ==
    \/ PrintLock(p)
    \/ PrintUnlock(p, "start")
    \/ CancelledInPrint(p)
    \/ PlayRound(p)

CancelMainStep ==
    \/ Seat
    \/ CancelJoin
    \/ ResetTable
    \/ SigintCancel
    \/ \E p \in Players : CancelPlayer(p)
    \/ ExitAfterCancel

CancelNext ==
    \/ CancelMainStep
    \/ \E p \in Players : CancelPlayerStep(p)
    \/ \E s \in Signals : SendSignal(s)
    \/ Terminated

\* Main and the threads that can run are scheduled; the user may stop at any time.
CancelSpec ==
    /\ Init
    /\ [][CancelNext]_vars
    /\ WF_vars(CancelMainStep)
    /\ \A p \in Players : WF_vars(CancelPlayerStep(p))

-----------------------------------------------------------------------------
(* Properties *)

\* No card changes hands at the moment.
Settled == \A p \in Players : pc[p] \notin {"take", "taken", "atTake"}

\* A round only moves cards: between rounds the hands of the seated players are
\* disjoint and full again, so no card was lost, duplicated or taken before it
\* was passed.
CardsConserved ==
    Settled => \A p \in Seated :
        /\ Cardinality(hand[p]) = HandSize
        /\ \A q \in Seated \ {p} : hand[p] \cap hand[q] = {}

InGame == {p \in Seated : pc[p] # "none"}

\* All players leave the table after the same round. If one has read
\* game_over = 1 and left, the others are about to do the same: nobody waits at
\* a barrier that will never fill.
LeaveTogether ==
    (main = "join" /\ InGame # Seated) =>
        game_over = 1 /\ \A p \in InGame : pc[p] = "read"

\* A game is over only because somebody holds a winning hand, never because of
\* what an earlier game left behind.
OverMeansWon == game_over = 1 => \E p \in Seated : SevenOfAKind(p)

\* The one barrier serves four places of the round: all the threads that wait
\* in it wait at the same place, so no round overtakes another.
BarrierAligned ==
    \A p, q \in Players : pc[p] \in Waits /\ pc[q] \in Waits => pc[p] = pc[q]

\* Nobody sleeps in a lobby that the table has left, and nobody plays at a
\* table that was closed: the change of table_state reaches every player,
\* whether it sleeps, is about to, or has not yet come to the lobby.
LobbyMatchesTable ==
    /\ table_state # "WAITING" => \A p \in Players : pc[p] # "asleep"
    /\ table_state = "EXIT" =>
          \A p \in Players : pc[p] \in {"none", "print", "printing", "lobby"}

\* SIGINT ends the program when players wait for the table to fill.
SigintEndsLobby == main = "cancel" ~> main = "exit"
=============================================================================
