--------------------------- MODULE CardGameProofs ---------------------------
(***************************************************************************)
(* Theorems about the five versions of the card game, for every number of  *)
(* players, every deck and every size of hand.                             *)
(*                                                                         *)
(* The rounds are kept apart by one barrier that is used in four places.   *)
(* The argument is that the table as a whole is always in one of a few     *)
(* phases: all the threads are between the same two openings of the        *)
(* barrier. A phase ends when the last thread arrives, and then all the    *)
(* others sit at the same place, because `arrived' counts them exactly.    *)
(***************************************************************************)
EXTENDS CardStages, FiniteSetTheorems, TLAPS

-----------------------------------------------------------------------------
(* The inductive invariant *)

\* A thread that has not come to the first barrier.
Lobby == {"print", "printing", "lobby", "asleep"}

\* The barrier counts exactly the threads that wait in it.
Waiting == {p \in Players : pc[p] \in Waits}
CountInv == arrived = Cardinality(Waiting) /\ arrived < N

\* How far main is, and how many players it has seated by then.
MainInv ==
    /\ version \in Versions
    /\ main \in {"sigwait", "close", "cancel"} => current_players < N
    /\ main \in {"start", "join"} => current_players = N
    /\ main = "exit" => version = "deal" \/ current_players < N
    /\ main = "close" => version = "lobby" /\ table_state = "EXIT"
    /\ main = "cancel" => version = "cancel"
    /\ cancelled # {} => main \in {"cancel", "exit"}

\* Nobody gets from the lobby to the barrier before main has filled the table.
TableInv ==
    /\ version # "lobby" => table_state = "WAITING"
    /\ version = "lobby" =>
          /\ table_state = "PLAYING" <=> main = "join"
          /\ table_state = "EXIT" => main \in {"close", "exit"}
    /\ \A p \in Players :
          /\ version # "lobby" => pc[p] \notin {"lobby", "asleep"}
          /\ version = "lobby" /\ pc[p] = "asleep" => table_state = "WAITING"
          /\ version = "lobby" /\ pc[p] \notin Lobby \cup {"none"} => table_state = "PLAYING"

\* The hands of the seated players are full and disjoint.
Apart(h) ==
    \A p \in Seated :
        /\ Cardinality(h[p]) = HandSize
        /\ \A q \in Seated : q # p => h[p] \cap h[q] = {}

Won == \E p \in Players : SevenOfAKind(p)
All(S) == \A p \in Players : pc[p] \in S
Rounds == version \in {"rounds", "cancel", "lobby"} /\ current_players = N

\* Before the first barrier opens.
Gathering ==
    /\ All(Lobby \cup {"none", "start", "atStart"})
    /\ version = "deal" => All({"none", "print", "printing"})
    /\ \A p \in Players \ Seated : pc[p] = "none"
    /\ \A p \in Seated : pc[p] = "none" => version = "deal" \/ main \in {"close", "cancel", "exit"}
    /\ Apart(hand)
    /\ game_over = 0

Announcing ==
    /\ Rounds
    /\ All({"check", "announced", "atAnnounce"})
    /\ Apart(hand)
    /\ game_over = 1 => Won
    /\ \A p \in Players : pc[p] # "check" /\ SevenOfAKind(p) => game_over = 1

\* Nobody has a winning hand: everybody passes a card.
Passing ==
    /\ Rounds
    /\ All({"read", "pass", "passed", "atPass"})
    /\ Apart(hand)
    /\ game_over = 0
    /\ ~ Won
    /\ \A p \in Players : pc[p] \in {"passed", "atPass"} =>
          first[p] \in hand[p] /\ received_card[Right(p)] = first[p]

\* Somebody has: everybody leaves.
Leaving ==
    /\ Rounds
    /\ All({"read", "none"})
    /\ Apart(hand)
    /\ game_over = 1
    /\ Won

Taking ==
    /\ Rounds
    /\ All({"take", "taken", "atTake"})
    /\ Apart(NextHand)
    /\ \A p \in Players : pc[p] = "take" => received_card[p] # NoCard
    /\ game_over = 0

\* The threads of sop-mss1.c return behind their one barrier.
Dispersing ==
    /\ version = "table" /\ current_players = N
    /\ All({"check", "none"})
    /\ Apart(hand)
    /\ game_over = 0

PhaseInv == Gathering \/ Announcing \/ Passing \/ Leaving \/ Taking \/ Dispersing

IInv ==
    /\ TypeOK
    /\ CountInv
    /\ MainInv
    /\ TableInv
    /\ PhaseInv

-----------------------------------------------------------------------------
(* Lemmas about the seats and the barrier *)

\* The players sit in a circle.
LEMMA Circle ==
    /\ \A p \in Players : Right(p) \in Players
    /\ \A p, q \in Players : Right(p) = Right(q) => p = q
    /\ \A p \in Players : \E q \in Players : Right(q) = p
<1>0. N \in Nat /\ N > 0
  BY NAssumption
<1>1. \A p \in Players : Right(p) = IF p = N - 1 THEN 0 ELSE p + 1
  BY <1>0 DEF Players, Right
<1>2. \A p \in Players : \E q \in Players : Right(q) = p
  <2>1. ASSUME NEW p \in Players PROVE \E q \in Players : Right(q) = p
    <3>1. CASE p = 0
      <4>1. N - 1 \in Players /\ Right(N - 1) = 0
        BY <1>0, <1>1 DEF Players
      <4>2. QED
        BY <3>1, <4>1
    <3>2. CASE p # 0
      <4>1. p - 1 \in Players /\ Right(p - 1) = p
        BY <1>0, <1>1, <3>2 DEF Players
      <4>2. QED
        BY <4>1
    <3>3. QED
      BY <3>1, <3>2
  <2>2. QED
    BY <2>1
<1> QED
  BY <1>0, <1>1, <1>2 DEF Players

LEMMA PlayersFinite ==
    /\ IsFiniteSet(Players) /\ Cardinality(Players) = N
    /\ \A S \in SUBSET Players : IsFiniteSet(S) /\ Cardinality(S) \in Nat
<1>1. N \in Nat /\ N > 0
  BY NAssumption
<1>2. IsFiniteSet(Players) /\ Cardinality(Players) = N
  BY <1>1, FS_Interval DEF Players
<1> QED
  BY <1>2, FS_Subset, FS_CardinalityType

\* The thread that makes the barrier open finds all the others in it.
LEMMA LastFindsAll ==
    ASSUME CountInv, NEW p \in Players, pc[p] \notin Waits, arrived + 1 = N
    PROVE  \A q \in Players : q # p => pc[q] \in Waits
<1>1. Waiting \in SUBSET (Players \ {p})
  BY DEF Waiting
<1>2. IsFiniteSet(Players \ {p}) /\ Cardinality(Players \ {p}) = N - 1
  BY PlayersFinite, FS_RemoveElement
<1>3. Cardinality(Waiting) = N - 1
  <2>1. Cardinality(Waiting) \in Nat
    BY <1>1, PlayersFinite DEF Waiting
  <2>2. QED
    BY <2>1, NAssumption DEF CountInv
<1>4. Waiting = Players \ {p}
  BY <1>1, <1>2, <1>3, FS_Subset
<1> QED
  BY <1>4 DEF Waiting

\* No two phases of the barrier mix: what a call of pthread_barrier_wait does.
LEMMA BarrierCases ==
    ASSUME TypeOK, CountInv, NEW p \in Players, pc[p] \notin Waits, NEW l \in Waits,
           BarrierWait(p, l)
    PROVE  /\ CountInv'
           /\ \/ /\ pc' = [pc EXCEPT ![p] = l]
              \/ /\ \A q \in Players : q # p => pc[q] \in Waits
                 /\ pc' = [q \in Players |-> IF q = p THEN After(l) ELSE After(pc[q])]
<1>0. N \in Nat /\ N > 0 /\ arrived \in Nat
  BY NAssumption DEF TypeOK
<1>1. CASE arrived + 1 = N
  <2>1. \A q \in Players : q # p => pc[q] \in Waits
    BY <1>1, LastFindsAll
  <2>2. /\ arrived' = 0
        /\ pc' = [q \in Players |-> IF q = p THEN After(l) ELSE After(pc[q])]
    BY <1>1 DEF BarrierWait
  <2>3. \A q \in Players : pc'[q] \notin Waits
    BY <2>1, <2>2 DEF Waits, After
  <2>4. Waiting' = {}
    BY <2>3 DEF Waiting
  <2>5. CountInv'
    BY <1>0, <2>2, <2>4, FS_EmptySet DEF CountInv
  <2>6. QED
    BY <2>1, <2>2, <2>5
<1>2. CASE arrived + 1 # N
  <2>1. arrived' = arrived + 1 /\ pc' = [pc EXCEPT ![p] = l]
    BY <1>2 DEF BarrierWait, Goto
  <2>2. Waiting' = Waiting \cup {p}
    BY <2>1 DEF Waiting, TypeOK
  <2>3. p \notin Waiting /\ Waiting \in SUBSET Players
    BY DEF Waiting
  <2>4. Cardinality(Waiting') = Cardinality(Waiting) + 1
    BY <2>2, <2>3, PlayersFinite, FS_AddElement
  <2>5. CountInv'
    BY <1>0, <1>2, <2>1, <2>4 DEF CountInv
  <2>6. QED
    BY <2>1, <2>5
<1> QED
  BY <1>1, <1>2

\* A step that leaves the barrier alone keeps its count.
LEMMA CountKept ==
    ASSUME CountInv, arrived' = arrived,
           \A p \in Players : pc'[p] \in Waits <=> pc[p] \in Waits
    PROVE  CountInv'
<1>1. Waiting' = Waiting
  BY DEF Waiting
<1> QED
  BY <1>1 DEF CountInv

-----------------------------------------------------------------------------
(* Initial states and the steps of main *)

LEMMA InitInv == StagesInit => IInv
<1> SUFFICES ASSUME StagesInit PROVE IInv
  OBVIOUS
<1> USE DEF StagesInit, Init
<1>0. N \in Nat /\ N > 0
  BY NAssumption
<1>1. TypeOK
  BY <1>0 DEF TypeOK, MainPCs, PlayerPCs
<1>2. CountInv
  <2>1. Waiting = {}
    BY DEF Waiting, Waits
  <2>2. QED
    BY <1>0, <2>1, FS_EmptySet DEF CountInv
<1>3. MainInv /\ TableInv
  BY <1>0 DEF MainInv, TableInv
<1>4. Seated = {}
  BY DEF Seated
<1>5. Gathering
  BY <1>4 DEF Gathering, All, Apart
<1> QED
  BY <1>1, <1>2, <1>3, <1>5 DEF IInv, PhaseInv

\* A phase depends on the places, the hands and the seats only; in the first one
\* main must not be back among the states in which nobody leaves.
LEMMA PhaseFrame ==
    ASSUME PhaseInv, UNCHANGED <<pc, current_players, game_over, cards, version>>,
           main \in {"close", "cancel", "exit"} => main' \in {"close", "cancel", "exit"}
    PROVE  PhaseInv'
<1> USE DEF cards
<1>1. /\ Seated' = Seated /\ NextHand' = NextHand /\ (Won' <=> Won) /\ (Rounds' <=> Rounds)
      /\ \A p : SevenOfAKind(p)' <=> SevenOfAKind(p)
  BY DEF Seated, NextHand, Won, SevenOfAKind, Rounds
<1>2. \A S : All(S)' <=> All(S)
  BY DEF All
<1>3. Apart(hand)' <=> Apart(hand)
  BY <1>1 DEF Apart
<1>4. Apart(NextHand)' <=> Apart(NextHand)
  BY <1>1 DEF Apart
<1>5. Gathering => Gathering'
  BY <1>1, <1>2, <1>3 DEF Gathering
<1>6. Announcing => Announcing'
  BY <1>1, <1>2, <1>3 DEF Announcing
<1>7. Passing => Passing'
  BY <1>1, <1>2, <1>3 DEF Passing
<1>8. Leaving => Leaving'
  BY <1>1, <1>2, <1>3 DEF Leaving
<1>9. Taking => Taking'
  BY <1>1, <1>2, <1>4 DEF Taking
<1>10. Dispersing => Dispersing'
  BY <1>1, <1>2, <1>3 DEF Dispersing
<1> QED
  BY <1>5, <1>6, <1>7, <1>8, <1>9, <1>10 DEF PhaseInv

\* The steps of main, and of the user, that touch neither a player nor the table.
LEMMA QuietMain ==
    ASSUME IInv, UNCHANGED version,
           \/ \E g \in Signals : SendSignal(g)
           \/ CancelJoin /\ version # "lobby"
           \/ ExitAfterJoin
           \/ SigintCancel /\ version = "cancel"
           \/ \E p \in Players : CancelPlayer(p)
           \/ ExitAfterCancel
           \/ ExitAfterGame /\ version = "deal"
    PROVE  IInv'
<1> USE DEF IInv, table
<1> DEFINE Goal ==
              /\ UNCHANGED <<pc, table, game_over, arrived, print_mutex, cards>>
              /\ pending' \subseteq Signals /\ main' \in MainPCs /\ cancelled' \subseteq Players
              /\ main \in {"close", "cancel", "exit"} => main' \in {"close", "cancel", "exit"}
              /\ MainInv' /\ TableInv'
<1>1. Goal
  <2>1. ASSUME NEW g \in Signals, SendSignal(g) PROVE Goal
    BY <2>1 DEF SendSignal, TypeOK, MainInv, TableInv
  <2>2. CASE CancelJoin /\ version # "lobby"
    BY <2>2 DEF CancelJoin, TypeOK, MainPCs, MainInv, TableInv
  <2>3. CASE ExitAfterJoin
    BY <2>3 DEF ExitAfterJoin, TypeOK, MainPCs, MainInv, TableInv
  <2>4. CASE SigintCancel /\ version = "cancel"
    BY <2>4 DEF SigintCancel, TakeSigint, TypeOK, MainPCs, MainInv, TableInv
  <2>5. ASSUME NEW p \in Players, CancelPlayer(p) PROVE Goal
    BY <2>5 DEF CancelPlayer, TypeOK, MainInv, TableInv
  <2>6. CASE ExitAfterCancel
    BY <2>6 DEF ExitAfterCancel, TypeOK, MainPCs, MainInv, TableInv
  <2>7. CASE ExitAfterGame /\ version = "deal"
    BY <2>7 DEF ExitAfterGame, TypeOK, MainPCs, MainInv, TableInv
  <2>8. QED
    BY <2>1, <2>2, <2>3, <2>4, <2>5, <2>6, <2>7
<1>2. TypeOK'
  BY <1>1 DEF TypeOK, cards
<1>3. CountInv'
  BY <1>1, CountKept
<1>4. PhaseInv'
  BY <1>1, PhaseFrame
<1> QED
  BY <1>1, <1>2, <1>3, <1>4

\* A player is dealt cards that no seated player holds.
LEMMA SeatStep ==
    ASSUME IInv, UNCHANGED version, SeatNext, pending' \subseteq Signals
    PROVE  IInv'
<1> USE DEF IInv, table
<1> DEFINE n == current_players
<1>0. N \in Nat /\ N > 0 /\ n \in Nat /\ n < N /\ n \in Players
  BY NAssumption DEF SeatNext, TypeOK, Players
<1>1. PICK h \in kSubset(HandSize, Cards \ UNION {hand[p] : p \in Seated}) :
          hand' = [hand EXCEPT ![n] = h]
  BY DEF SeatNext
<1>2. /\ h \subseteq Cards /\ Cardinality(h) = HandSize
      /\ \A p \in Seated : h \cap hand[p] = {}
  BY <1>1 DEF kSubset
<1>3. /\ main = "sigwait" /\ main' \in {"sigwait", "start"} /\ current_players' = n + 1
      /\ main' = "start" <=> n + 1 = N
      /\ pc' = [pc EXCEPT ![n] = "print"]
      /\ received_card' = [received_card EXCEPT ![n] = NoCard]
      /\ UNCHANGED <<table_state, game_over, print_mutex, arrived, first, cancelled>>
  BY DEF SeatNext, Goto
<1>4. Gathering
  BY <1>0 DEF PhaseInv, Announcing, Passing, Leaving, Taking, Dispersing, Rounds
<1>5. n \notin Seated /\ \A p : p \in Seated' <=> p \in Seated \/ p = n
  BY <1>0, <1>3 DEF Seated
<1>6. pc[n] = "none"
  BY <1>0, <1>4, <1>5 DEF Gathering
<1>7. \A p \in Players : p # n => pc'[p] = pc[p] /\ hand'[p] = hand[p]
  BY <1>1, <1>3 DEF TypeOK
<1>8. pc'[n] = "print" /\ hand'[n] = h
  BY <1>0, <1>1, <1>3 DEF TypeOK
<1>9. Seated \subseteq Players
  BY <1>0 DEF Seated, Players
<1>10. TypeOK'
  <2>1. hand' \in [Players -> SUBSET Cards]
    BY <1>0, <1>1, <1>2 DEF TypeOK
  <2>2. pc' \in [Players -> PlayerPCs] /\ received_card' \in [Players -> Cards \cup {NoCard}]
    BY <1>0, <1>3 DEF TypeOK, PlayerPCs
  <2>3. current_players' \in 0 .. N /\ main' \in MainPCs
    BY <1>0, <1>3 DEF MainPCs
  <2>4. QED
    BY <1>3, <2>1, <2>2, <2>3 DEF TypeOK
<1>11. CountInv'
  BY <1>3, <1>6, <1>7, <1>8, CountKept DEF Waits
<1>12. MainInv'
  BY <1>0, <1>3 DEF MainInv
<1>13. TableInv'
  BY <1>3, <1>7, <1>8 DEF TableInv, Lobby
<1>14. Apart(hand)'
  BY <1>2, <1>4, <1>5, <1>7, <1>8, <1>9 DEF Gathering, Apart
<1>15. \A p \in Players : pc[p] = "none" /\ p \in Seated => version = "deal"
  BY <1>3, <1>4 DEF Gathering
<1>16. Gathering'
  BY <1>0, <1>3, <1>4, <1>5, <1>7, <1>8, <1>9, <1>14, <1>15 DEF Gathering, All, Lobby
<1> QED
  BY <1>10, <1>11, <1>12, <1>13, <1>16 DEF PhaseInv

\* Waking the lobby moves sleepers only, and only the first phase has any.
LEMMA WakePhase ==
    ASSUME TypeOK, CountInv, PhaseInv, WakeLobby,
           UNCHANGED <<arrived, current_players, game_over, cards, version>>,
           main \in {"close", "cancel", "exit"} => main' \in {"close", "cancel", "exit"}
    PROVE  /\ pc' \in [Players -> PlayerPCs] /\ CountInv' /\ PhaseInv'
           /\ \A p \in Players : pc'[p] = IF pc[p] = "asleep" THEN "lobby" ELSE pc[p]
<1> USE DEF cards
<1>1. \A p \in Players : pc'[p] = IF pc[p] = "asleep" THEN "lobby" ELSE pc[p]
  BY DEF WakeLobby
<1>2. pc' \in [Players -> PlayerPCs]
  BY DEF WakeLobby, TypeOK, PlayerPCs
<1>3. CountInv'
  BY <1>1, CountKept DEF Waits
<1>4. CASE Gathering
  <2>1. Seated' = Seated
    BY DEF Seated
  <2>2. Apart(hand)'
    BY <1>4, <2>1 DEF Gathering, Apart
  <2>3. All(Lobby \cup {"none", "start", "atStart"})'
    BY <1>1, <1>4 DEF Gathering, All, Lobby
  <2>4. version = "deal" => All({"none", "print", "printing"})'
    BY <1>1, <1>4 DEF Gathering, All
  <2>5. \A p \in Players : pc'[p] = "none" <=> pc[p] = "none"
    BY <1>1
  <2>6. Gathering'
    <3>1. \A p \in (Players \ Seated)' : pc'[p] = "none"
      BY <1>4, <2>1, <2>5 DEF Gathering
    <3>2. \A p \in Seated' : pc'[p] = "none" =>
              version' = "deal" \/ main' \in {"close", "cancel", "exit"}
      <4>1. Seated \subseteq Players
        BY NAssumption DEF Seated, Players, TypeOK
      <4>2. QED
        BY <1>4, <2>1, <2>5, <4>1 DEF Gathering
    <3>3. QED
      BY <1>4, <2>2, <2>3, <2>4, <3>1, <3>2 DEF Gathering
  <2>7. QED
    BY <1>1, <1>2, <1>3, <2>6 DEF PhaseInv
<1>5. CASE ~ Gathering
  <2>1. \A p \in Players : pc[p] # "asleep"
    BY <1>5 DEF PhaseInv, Announcing, Passing, Leaving, Taking, Dispersing, All
  <2>2. pc' = pc
    BY <2>1 DEF WakeLobby, TypeOK
  <2>3. PhaseInv'
    BY <2>2, PhaseFrame
  <2>4. QED
    BY <1>1, <1>2, <1>3, <2>3
<1> QED
  BY <1>4, <1>5

\* The table is full: the lobby is woken under the new state.
LEMMA StartStep ==
    ASSUME IInv, UNCHANGED version, StartGame, version = "lobby"
    PROVE  IInv'
<1> USE DEF IInv, table
<1>1. /\ main = "start" /\ main' = "join" /\ table_state' = "PLAYING" /\ WakeLobby
      /\ UNCHANGED <<pending, current_players, game_over, print_mutex, arrived, cards, cancelled>>
  BY DEF StartGame
<1>2. /\ pc' \in [Players -> PlayerPCs] /\ CountInv' /\ PhaseInv'
      /\ \A p \in Players : pc'[p] = IF pc[p] = "asleep" THEN "lobby" ELSE pc[p]
  BY <1>1, WakePhase
<1>3. TypeOK'
  BY <1>1, <1>2 DEF TypeOK, MainPCs, cards
<1>4. MainInv' /\ TableInv'
  BY <1>1, <1>2 DEF MainInv, TableInv, Lobby
<1> QED
  BY <1>2, <1>3, <1>4

\* SIGINT closes the lobby, or ends the program when nobody is there.
LEMMA CloseStep ==
    ASSUME IInv, UNCHANGED version, CloseLobby, version = "lobby"
    PROVE  IInv'
<1> USE DEF IInv, table
<1>1. /\ main = "sigwait" /\ pending' \subseteq Signals
      /\ UNCHANGED <<current_players, game_over, print_mutex, arrived, cards, cancelled>>
  BY DEF CloseLobby, TakeSigint, TypeOK
<1>2. table_state = "WAITING"
  BY <1>1 DEF TypeOK, TableInv
<1>3. CASE current_players > 0
  <2>1. table_state' = "EXIT" /\ WakeLobby /\ main' = "close"
    BY <1>3 DEF CloseLobby
  <2>2. /\ pc' \in [Players -> PlayerPCs] /\ CountInv' /\ PhaseInv'
        /\ \A p \in Players : pc'[p] = IF pc[p] = "asleep" THEN "lobby" ELSE pc[p]
    BY <1>1, <2>1, WakePhase
  <2>3. TypeOK'
    BY <1>1, <2>1, <2>2 DEF TypeOK, MainPCs, cards
  <2>4. MainInv' /\ TableInv'
    BY <1>1, <1>2, <2>1, <2>2 DEF MainInv, TableInv, Lobby
  <2>5. QED
    BY <2>2, <2>3, <2>4
<1>4. CASE ~ (current_players > 0)
  <2>1. table_state' = table_state /\ pc' = pc /\ main' = "exit"
    BY <1>4 DEF CloseLobby
  <2>2. TypeOK' /\ MainInv' /\ TableInv'
    BY <1>1, <1>2, <2>1 DEF TypeOK, MainPCs, cards, MainInv, TableInv
  <2>3. CountInv'
    BY <1>1, <2>1, CountKept
  <2>4. PhaseInv'
    BY <1>1, <2>1, PhaseFrame
  <2>5. QED
    BY <2>2, <2>3, <2>4
<1> QED
  BY <1>3, <1>4

\* Every player has left: the table is empty again.
LEMMA ResetStep ==
    ASSUME IInv, UNCHANGED version, ResetTable
    PROVE  IInv'
<1> USE DEF IInv, table
<1>0. N \in Nat /\ N > 0
  BY NAssumption
<1>1. /\ main = "join" /\ main' = "sigwait" /\ Joined
      /\ current_players' = 0 /\ table_state' = "WAITING" /\ game_over' = 0
      /\ UNCHANGED <<pending, print_mutex, arrived, pc, cards, cancelled>>
  BY DEF ResetTable
<1>2. \A p \in Players : pc[p] = "none"
  <2>1. current_players = N
    BY <1>1 DEF MainInv
  <2>2. Seated = Players
    BY <2>1 DEF Seated, Players
  <2>3. QED
    BY <1>1, <2>2 DEF Joined
<1>3. TypeOK' /\ MainInv' /\ TableInv'
  BY <1>0, <1>1, <1>2 DEF TypeOK, MainPCs, cards, MainInv, TableInv
<1>4. CountInv'
  BY <1>1, CountKept
<1>5. Seated' = {}
  BY <1>1 DEF Seated
<1>6. Gathering'
  BY <1>1, <1>2, <1>5 DEF Gathering, All, Apart
<1> QED
  BY <1>3, <1>4, <1>6 DEF PhaseInv

-----------------------------------------------------------------------------
(* The steps of the players *)

\* What no step of a player touches.
TableSame == UNCHANGED <<main, pending, table, cancelled, version>>

\* A player that comes from the round stays out of the lobby.
LEMMA RoundTable ==
    ASSUME MainInv, TableInv, TableSame,
           \A q \in Players :
              \/ pc'[q] = pc[q]
              \/ pc[q] \notin Lobby \cup {"none"} /\ pc'[q] \notin Lobby
    PROVE  MainInv' /\ TableInv'
<1> USE DEF TableSame, table
<1>1. MainInv'
  BY DEF MainInv
<1>2. TableInv'
  BY DEF TableInv, Lobby
<1> QED
  BY <1>1, <1>2

\* On the way to the first barrier.
LEMMA GatherStep ==
    ASSUME IInv, UNCHANGED version, NEW p \in Players,
           \/ PrintLock(p)
           \/ PrintUnlock(p, "none") /\ version = "deal"
           \/ PrintUnlock(p, "start") /\ version \notin {"deal", "lobby"}
           \/ PrintUnlock(p, "lobby") /\ version = "lobby"
           \/ CancelledInPrint(p)
           \/ EnterLobby(p) /\ version = "lobby"
           \/ SpuriousWakeup(p) /\ version = "lobby"
    PROVE  IInv'
<1> USE DEF IInv, table
<1> DEFINE Goal(l) ==
              /\ UNCHANGED <<main, pending, table, game_over, arrived, cards, cancelled>>
              /\ print_mutex' \in Players \cup {NoPlayer}
              /\ pc[p] \in Lobby
              /\ l \in Lobby \cup {"none", "start"}
              /\ pc' = [pc EXCEPT ![p] = l]
              /\ l = "none" => version = "deal" \/ main \in {"close", "cancel", "exit"}
              /\ l \in {"lobby", "asleep"} => version = "lobby"
              /\ l = "asleep" => table_state = "WAITING"
              /\ l = "start" /\ version = "lobby" => table_state = "PLAYING"
              /\ version = "deal" => l \in {"none", "print", "printing"}
<1>1. PICK l \in Lobby \cup {"none", "start"} : Goal(l)
  <2> USE DEF Lobby, TypeOK, Goto
  <2>1. CASE PrintLock(p)
    <3>1. Goal("printing")
      BY <2>1 DEF PrintLock
    <3>2. QED
      BY <3>1
  <2>2. CASE PrintUnlock(p, "none") /\ version = "deal"
    <3>1. Goal("none")
      BY <2>2 DEF PrintUnlock
    <3>2. QED
      BY <3>1
  <2>3. CASE PrintUnlock(p, "start") /\ version \notin {"deal", "lobby"}
    <3>1. Goal("start")
      BY <2>3 DEF PrintUnlock
    <3>2. QED
      BY <3>1
  <2>4. CASE PrintUnlock(p, "lobby") /\ version = "lobby"
    <3>1. Goal("lobby")
      BY <2>4 DEF PrintUnlock
    <3>2. QED
      BY <3>1
  <2>5. CASE CancelledInPrint(p)
    <3>1. main \in {"cancel", "exit"}
      BY <2>5 DEF CancelledInPrint, MainInv
    <3>2. version # "deal" => Goal("none")
      BY <2>5, <3>1 DEF CancelledInPrint
    <3>3. version = "deal" => Goal("none")
      BY <2>5 DEF CancelledInPrint
    <3>4. QED
      BY <3>2, <3>3
  <2>6. CASE EnterLobby(p) /\ version = "lobby"
    <3>1. CASE table_state = "WAITING"
      <4>1. Goal("asleep")
        BY <2>6, <3>1 DEF EnterLobby
      <4>2. QED
        BY <4>1
    <3>2. CASE table_state = "EXIT"
      <4>1. Goal("none")
        BY <2>6, <3>2 DEF EnterLobby, TableInv
      <4>2. QED
        BY <4>1
    <3>3. CASE table_state = "PLAYING"
      <4>1. Goal("start")
        BY <2>6, <3>3 DEF EnterLobby
      <4>2. QED
        BY <4>1
    <3>4. QED
      BY <3>1, <3>2, <3>3
  <2>7. CASE SpuriousWakeup(p) /\ version = "lobby"
    <3>1. Goal("lobby")
      BY <2>7 DEF SpuriousWakeup
    <3>2. QED
      BY <3>1
  <2>8. QED
    BY <2>1, <2>2, <2>3, <2>4, <2>5, <2>6, <2>7
<1>2. pc'[p] = l /\ \A q \in Players : q # p => pc'[q] = pc[q]
  BY <1>1 DEF TypeOK
<1>3. Gathering
  BY <1>1 DEF PhaseInv, Announcing, Passing, Leaving, Taking, Dispersing, All, Lobby
<1>4. TypeOK'
  <2>1. pc' \in [Players -> PlayerPCs]
    BY <1>1 DEF TypeOK, PlayerPCs, Lobby
  <2>2. QED
    BY <1>1, <2>1 DEF TypeOK, cards
<1>5. CountInv'
  <2>1. pc[p] \notin Waits /\ l \notin Waits
    BY <1>1 DEF Lobby, Waits
  <2>2. QED
    BY <1>1, <1>2, <2>1, CountKept
<1>6. MainInv'
  BY <1>1 DEF MainInv
<1>7. TableInv'
  BY <1>1, <1>2 DEF TableInv, Lobby
<1>8. Seated' = Seated
  BY <1>1 DEF Seated
<1>9. p \in Seated
  BY <1>1, <1>3 DEF Gathering, Lobby
<1>10. All(Lobby \cup {"none", "start", "atStart"})'
  BY <1>1, <1>2, <1>3 DEF Gathering, All
<1>11. version = "deal" => All({"none", "print", "printing"})'
  BY <1>1, <1>2, <1>3 DEF Gathering, All
<1>12. Apart(hand)'
  BY <1>1, <1>3, <1>8 DEF Gathering, Apart, cards
<1>13. Gathering'
  BY <1>1, <1>2, <1>3, <1>8, <1>9, <1>10, <1>11, <1>12 DEF Gathering
<1> QED
  BY <1>4, <1>5, <1>6, <1>7, <1>13 DEF PhaseInv

\* What the phases say of the cards does not change while no card moves.
LEMMA CardsSame ==
    ASSUME UNCHANGED <<current_players, cards, version>>
    PROVE  /\ Seated' = Seated /\ (Won' <=> Won) /\ (Rounds' <=> Rounds)
           /\ Apart(hand)' <=> Apart(hand)
           /\ \A p : SevenOfAKind(p)' <=> SevenOfAKind(p)
<1> USE DEF cards
<1>1. Seated' = Seated
  BY DEF Seated
<1> QED
  BY <1>1 DEF Won, SevenOfAKind, Rounds, Apart

\* A call of pthread_barrier_wait in the round.
LEMMA BarrierFrame ==
    ASSUME IInv, UNCHANGED version, NEW p \in Players,
           pc[p] \notin Waits \cup Lobby \cup {"none"},
           NEW l \in Waits, BarrierWait(p, l), UNCHANGED cards
    PROVE  /\ TypeOK' /\ CountInv' /\ MainInv' /\ TableInv'
           /\ UNCHANGED <<version, current_players, game_over, cards, main>>
           /\ \/ pc'[p] = l /\ \A q \in Players : q # p => pc'[q] = pc[q]
              \/ /\ \A q \in Players : q # p => pc[q] \in Waits
                 /\ \A q \in Players : pc'[q] = IF q = p THEN After(l) ELSE After(pc[q])
<1> USE DEF IInv
<1>1. /\ UNCHANGED <<main, pending, table, game_over, print_mutex, cancelled>>
      /\ arrived' \in 0 .. N - 1
  BY NAssumption DEF BarrierWait, CountInv, TypeOK
<1>2. /\ CountInv'
      /\ \/ /\ pc' = [pc EXCEPT ![p] = l]
         \/ /\ \A q \in Players : q # p => pc[q] \in Waits
            /\ pc' = [q \in Players |-> IF q = p THEN After(l) ELSE After(pc[q])]
  BY BarrierCases
<1>3. \A k \in Waits : k \in PlayerPCs /\ After(k) \in PlayerPCs /\ After(k) \notin Lobby
  BY DEF Waits, PlayerPCs, After, Lobby
<1>4. pc' \in [Players -> PlayerPCs]
  BY <1>2, <1>3 DEF TypeOK
<1>5. TypeOK'
  BY <1>1, <1>4 DEF TypeOK, table, cards
<1>6. \/ pc'[p] = l /\ \A q \in Players : q # p => pc'[q] = pc[q]
      \/ /\ \A q \in Players : q # p => pc[q] \in Waits
         /\ \A q \in Players : pc'[q] = IF q = p THEN After(l) ELSE After(pc[q])
  BY <1>2 DEF TypeOK
<1>7. \A q \in Players :
         \/ pc'[q] = pc[q]
         \/ pc[q] \notin Lobby \cup {"none"} /\ pc'[q] \notin Lobby
  <2>1. Waits \cap (Lobby \cup {"none"}) = {}
    BY DEF Waits, Lobby
  <2>2. QED
    BY <1>3, <1>6, <2>1
<1>8. MainInv' /\ TableInv'
  BY <1>1, <1>7, RoundTable DEF TableSame
<1> QED
  BY <1>1, <1>2, <1>5, <1>6, <1>8 DEF table

\* The first barrier: when it opens the table is full, and the game begins.
LEMMA StartBarrierStep ==
    ASSUME IInv, UNCHANGED version, NEW p \in Players, StartBarrier(p)
    PROVE  IInv'
<1> USE DEF IInv
<1>1. pc[p] = "start" /\ BarrierWait(p, "atStart") /\ UNCHANGED cards
  BY DEF StartBarrier
<1>2. "atStart" \in Waits /\ pc[p] \notin Waits \cup Lobby \cup {"none"}
  BY <1>1 DEF Waits, Lobby
<1>3. /\ TypeOK' /\ CountInv' /\ MainInv' /\ TableInv'
      /\ UNCHANGED <<version, current_players, game_over, cards, main>>
      /\ \/ pc'[p] = "atStart" /\ \A q \in Players : q # p => pc'[q] = pc[q]
         \/ /\ \A q \in Players : q # p => pc[q] \in Waits
            /\ \A q \in Players : pc'[q] = IF q = p THEN After("atStart") ELSE After(pc[q])
  BY <1>1, <1>2, BarrierFrame
<1>4. Gathering
  BY <1>1 DEF PhaseInv, Announcing, Passing, Leaving, Taking, Dispersing, All
<1>5. Seated' = Seated /\ (Rounds' <=> Rounds) /\ (Apart(hand)' <=> Apart(hand))
  BY <1>3, CardsSame
<1>6. version # "deal"
  BY <1>1, <1>4 DEF Gathering, All
<1>7. CASE pc'[p] = "atStart" /\ \A q \in Players : q # p => pc'[q] = pc[q]
  <2>1. All(Lobby \cup {"none", "start", "atStart"})'
    BY <1>4, <1>7 DEF Gathering, All
  <2>2. \A q \in Players : pc'[q] = "none" <=> pc[q] = "none"
    BY <1>1, <1>7
  <2>3. \A q \in (Players \ Seated)' : pc'[q] = "none"
    BY <1>4, <1>5, <2>2 DEF Gathering
  <2>4. \A q \in Seated' : pc'[q] = "none" => main' \in {"close", "cancel", "exit"}
    <3>1. Seated \subseteq Players
      BY NAssumption DEF Seated, Players, TypeOK
    <3>2. QED
      BY <1>3, <1>4, <1>5, <1>6, <2>2, <3>1 DEF Gathering
  <2>5. Gathering'
    BY <1>3, <1>4, <1>5, <1>6, <2>1, <2>3, <2>4 DEF Gathering
  <2>6. QED
    BY <1>3, <2>5 DEF PhaseInv
<1>8. CASE /\ \A q \in Players : q # p => pc[q] \in Waits
           /\ \A q \in Players : pc'[q] = IF q = p THEN After("atStart") ELSE After(pc[q])
  <2>1. \A q \in Players : q # p => pc[q] = "atStart"
    BY <1>4, <1>8 DEF Gathering, All, Waits, Lobby
  <2>2. \A q \in Players : pc'[q] = "check"
    BY <1>8, <2>1 DEF After
  <2>3. current_players = N
    <3>1. \A q \in Players : q \in Seated
      BY <1>1, <1>4, <2>1 DEF Gathering
    <3>2. N - 1 \in Players /\ N \in Nat
      BY NAssumption DEF Players
    <3>3. QED
      BY <3>1, <3>2 DEF Seated, TypeOK
  <2>4. Apart(hand) /\ game_over = 0
    BY <1>4 DEF Gathering
  <2>5. CASE version = "table"
    <3>1. Dispersing'
      BY <1>3, <1>5, <2>2, <2>3, <2>4, <2>5 DEF Dispersing, All
    <3>2. QED
      BY <1>3, <3>1 DEF PhaseInv
  <2>6. CASE version # "table"
    <3>1. Rounds
      BY <1>6, <2>3, <2>6 DEF Rounds, MainInv, Versions
    <3>2. Announcing'
      BY <1>3, <1>5, <2>2, <2>4, <3>1 DEF Announcing, All
    <3>3. QED
      BY <1>3, <3>2 DEF PhaseInv
  <2>7. QED
    BY <2>5, <2>6
<1> QED
  BY <1>3, <1>7, <1>8

\* The second: everybody has looked at its hand, so game_over says whether the
\* others go on.
LEMMA AnnounceBarrierStep ==
    ASSUME IInv, UNCHANGED version, NEW p \in Players, AnnounceBarrier(p)
    PROVE  IInv'
<1> USE DEF IInv
<1>1. pc[p] = "announced" /\ BarrierWait(p, "atAnnounce") /\ UNCHANGED cards
  BY DEF AnnounceBarrier
<1>2. "atAnnounce" \in Waits /\ pc[p] \notin Waits \cup Lobby \cup {"none"}
  BY <1>1 DEF Waits, Lobby
<1>3. /\ TypeOK' /\ CountInv' /\ MainInv' /\ TableInv'
      /\ UNCHANGED <<version, current_players, game_over, cards, main>>
      /\ \/ pc'[p] = "atAnnounce" /\ \A q \in Players : q # p => pc'[q] = pc[q]
         \/ /\ \A q \in Players : q # p => pc[q] \in Waits
            /\ \A q \in Players : pc'[q] = IF q = p THEN After("atAnnounce") ELSE After(pc[q])
  BY <1>1, <1>2, BarrierFrame
<1>4. Announcing
  BY <1>1 DEF PhaseInv, Gathering, Passing, Leaving, Taking, Dispersing, All, Lobby
<1>5. /\ (Rounds' <=> Rounds) /\ (Apart(hand)' <=> Apart(hand)) /\ (Won' <=> Won)
      /\ \A q : SevenOfAKind(q)' <=> SevenOfAKind(q)
  BY <1>3, CardsSame
<1>6. CASE pc'[p] = "atAnnounce" /\ \A q \in Players : q # p => pc'[q] = pc[q]
  <2>1. Announcing'
    BY <1>1, <1>3, <1>4, <1>5, <1>6 DEF Announcing, All
  <2>2. QED
    BY <1>3, <2>1 DEF PhaseInv
<1>7. CASE /\ \A q \in Players : q # p => pc[q] \in Waits
           /\ \A q \in Players : pc'[q] = IF q = p THEN After("atAnnounce") ELSE After(pc[q])
  <2>1. \A q \in Players : q # p => pc[q] = "atAnnounce"
    BY <1>4, <1>7 DEF Announcing, All, Waits
  <2>2. \A q \in Players : pc'[q] = "read"
    BY <1>7, <2>1 DEF After
  <2>3. CASE game_over = 1
    <3>1. Leaving'
      BY <1>3, <1>4, <1>5, <2>2, <2>3 DEF Announcing, Leaving, All
    <3>2. QED
      BY <1>3, <3>1 DEF PhaseInv
  <2>4. CASE game_over = 0
    <3>1. ~ Won
      BY <1>1, <1>4, <2>1, <2>4 DEF Announcing, Won
    <3>2. Passing'
      BY <1>3, <1>4, <1>5, <2>2, <2>4, <3>1 DEF Announcing, Passing, All
    <3>3. QED
      BY <1>3, <3>2 DEF PhaseInv
  <2>5. QED
    BY <2>3, <2>4 DEF TypeOK
<1> QED
  BY <1>3, <1>6, <1>7

\* The third: everybody has passed a card, so everybody has received one, and
\* the hands they are about to make are again full and disjoint.
LEMMA PassBarrierStep ==
    ASSUME IInv, UNCHANGED version, NEW p \in Players, PassBarrier(p)
    PROVE  IInv'
<1> USE DEF IInv
<1>1. pc[p] = "passed" /\ BarrierWait(p, "atPass") /\ UNCHANGED cards
  BY DEF PassBarrier
<1>2. "atPass" \in Waits /\ pc[p] \notin Waits \cup Lobby \cup {"none"}
  BY <1>1 DEF Waits, Lobby
<1>3. /\ TypeOK' /\ CountInv' /\ MainInv' /\ TableInv'
      /\ UNCHANGED <<version, current_players, game_over, cards, main>>
      /\ \/ pc'[p] = "atPass" /\ \A q \in Players : q # p => pc'[q] = pc[q]
         \/ /\ \A q \in Players : q # p => pc[q] \in Waits
            /\ \A q \in Players : pc'[q] = IF q = p THEN After("atPass") ELSE After(pc[q])
  BY <1>1, <1>2, BarrierFrame
<1>4. Passing
  BY <1>1 DEF PhaseInv, Gathering, Announcing, Leaving, Taking, Dispersing, All, Lobby
<1>5. /\ (Rounds' <=> Rounds) /\ (Apart(hand)' <=> Apart(hand)) /\ Seated' = Seated
      /\ Won' <=> Won
  BY <1>3, CardsSame
<1>6. CASE pc'[p] = "atPass" /\ \A q \in Players : q # p => pc'[q] = pc[q]
  <2>1. All({"read", "pass", "passed", "atPass"})'
    BY <1>4, <1>6 DEF Passing, All
  <2>2. \A q \in Players : pc'[q] \in {"passed", "atPass"} => pc[q] \in {"passed", "atPass"}
    BY <1>1, <1>6
  <2>3. Passing'
    BY <1>3, <1>4, <1>5, <2>1, <2>2 DEF Passing, cards
  <2>4. QED
    BY <1>3, <2>3 DEF PhaseInv
<1>7. CASE /\ \A q \in Players : q # p => pc[q] \in Waits
           /\ \A q \in Players : pc'[q] = IF q = p THEN After("atPass") ELSE After(pc[q])
  <2>1. \A q \in Players : q # p => pc[q] = "atPass"
    BY <1>4, <1>7 DEF Passing, All, Waits
  <2>2. \A q \in Players : pc'[q] = "take"
    BY <1>7, <2>1 DEF After
  <2>3. \A q \in Players : first[q] \in hand[q] /\ received_card[Right(q)] = first[q]
    BY <1>1, <1>4, <2>1 DEF Passing
  <2>4. \A q \in Players : hand[q] \subseteq Cards /\ IsFiniteSet(hand[q])
    BY DeckAssumption, FS_Subset DEF TypeOK
  <2>5. Seated = Players
    BY <1>4 DEF Passing, Rounds, Seated, Players
  <2>6. \A q \in Players : Cardinality(hand[q]) = HandSize
    BY <1>4, <2>5 DEF Passing, Apart
  <2>7. \A q, r \in Players : q # r => hand[q] \cap hand[r] = {}
    BY <1>4, <2>5 DEF Passing, Apart
  <2>8. ASSUME NEW q \in Players
        PROVE  \E r \in Players : /\ Right(r) = q /\ received_card[q] = first[r]
                                  /\ first[r] \in hand[r]
    BY <2>3, Circle
  <2>9. ASSUME NEW q \in Players
        PROVE  /\ NextHand'[q] = (hand[q] \ {first[q]}) \cup {received_card[q]}
               /\ Cardinality(NextHand'[q]) = HandSize
               /\ received_card[q] # NoCard
    <3>1. PICK r \in Players : /\ Right(r) = q /\ received_card[q] = first[r]
                               /\ first[r] \in hand[r]
      BY <2>8
    <3>2. NextHand'[q] = (hand[q] \ {first[q]}) \cup {received_card[q]}
      BY <1>3, <2>2 DEF NextHand, cards
    <3>3. received_card[q] \notin hand[q] \ {first[q]}
      BY <2>7, <3>1
    <3>4. IsFiniteSet(hand[q] \ {first[q]}) /\ Cardinality(hand[q] \ {first[q]}) = HandSize - 1
      BY <2>3, <2>4, <2>6, FS_RemoveElement
    <3>5. Cardinality(NextHand'[q]) = HandSize - 1 + 1
      BY <3>2, <3>3, <3>4, FS_AddElement
    <3>6. HandSize - 1 + 1 = HandSize
      BY DeckAssumption
    <3>7. received_card[q] # NoCard
      BY <2>4, <3>1, DeckAssumption
    <3>8. QED
      BY <3>2, <3>5, <3>6, <3>7
  <2>10. ASSUME NEW q \in Players, NEW r \in Players, q # r
         PROVE  NextHand'[q] \cap NextHand'[r] = {}
    <3>1. PICK a \in Players : /\ Right(a) = q /\ received_card[q] = first[a]
                               /\ first[a] \in hand[a]
      BY <2>8
    <3>2. PICK b \in Players : /\ Right(b) = r /\ received_card[r] = first[b]
                               /\ first[b] \in hand[b]
      BY <2>8
    <3>3. a # b
      BY <3>1, <3>2, <2>10
    <3>4. received_card[q] # received_card[r]
      BY <2>7, <3>1, <3>2, <3>3
    <3>5. received_card[q] \notin hand[r] \ {first[r]}
      BY <2>7, <3>1
    <3>6. received_card[r] \notin hand[q] \ {first[q]}
      BY <2>7, <3>2
    <3>7. QED
      BY <2>7, <2>9, <2>10, <3>4, <3>5, <3>6
  <2>11. Apart(NextHand)'
    BY <1>5, <2>5, <2>9, <2>10 DEF Apart
  <2>12. Taking'
    BY <1>3, <1>4, <1>5, <2>2, <2>9, <2>11 DEF Passing, Taking, All, cards
  <2>13. QED
    BY <1>3, <2>12 DEF PhaseInv
<1> QED
  BY <1>3, <1>6, <1>7

\* The last: everybody has taken its card, and the next round begins.
LEMMA TakeBarrierStep ==
    ASSUME IInv, UNCHANGED version, NEW p \in Players, TakeBarrier(p)
    PROVE  IInv'
<1> USE DEF IInv
<1>1. pc[p] = "taken" /\ BarrierWait(p, "atTake") /\ UNCHANGED cards
  BY DEF TakeBarrier
<1>2. "atTake" \in Waits /\ pc[p] \notin Waits \cup Lobby \cup {"none"}
  BY <1>1 DEF Waits, Lobby
<1>3. /\ TypeOK' /\ CountInv' /\ MainInv' /\ TableInv'
      /\ UNCHANGED <<version, current_players, game_over, cards, main>>
      /\ \/ pc'[p] = "atTake" /\ \A q \in Players : q # p => pc'[q] = pc[q]
         \/ /\ \A q \in Players : q # p => pc[q] \in Waits
            /\ \A q \in Players : pc'[q] = IF q = p THEN After("atTake") ELSE After(pc[q])
  BY <1>1, <1>2, BarrierFrame
<1>4. Taking
  BY <1>1 DEF PhaseInv, Gathering, Announcing, Passing, Leaving, Dispersing, All, Lobby
<1>5. (Rounds' <=> Rounds) /\ (Apart(hand)' <=> Apart(hand)) /\ Seated' = Seated
  BY <1>3, CardsSame
<1>6. CASE pc'[p] = "atTake" /\ \A q \in Players : q # p => pc'[q] = pc[q]
  <2>1. All({"take", "taken", "atTake"})'
    BY <1>4, <1>6 DEF Taking, All
  <2>2. \A q \in Players : pc'[q] = "take" <=> pc[q] = "take"
    BY <1>1, <1>6
  <2>3. NextHand' = NextHand
    BY <1>3, <2>2 DEF NextHand, cards
  <2>4. Apart(NextHand)'
    BY <1>4, <1>5, <2>3 DEF Taking, Apart
  <2>5. Taking'
    BY <1>3, <1>4, <1>5, <2>1, <2>2, <2>4 DEF Taking, cards
  <2>6. QED
    BY <1>3, <2>5 DEF PhaseInv
<1>7. CASE /\ \A q \in Players : q # p => pc[q] \in Waits
           /\ \A q \in Players : pc'[q] = IF q = p THEN After("atTake") ELSE After(pc[q])
  <2>1. \A q \in Players : q # p => pc[q] = "atTake"
    BY <1>4, <1>7 DEF Taking, All, Waits
  <2>2. \A q \in Players : pc'[q] = "check"
    BY <1>7, <2>1 DEF After
  <2>3. NextHand = hand
    BY <1>1, <2>1 DEF NextHand, TypeOK
  <2>4. Apart(hand)
    BY <1>4, <2>3 DEF Taking
  <2>5. Announcing'
    BY <1>3, <1>4, <1>5, <2>2, <2>4 DEF Announcing, Taking, All
  <2>6. QED
    BY <1>3, <2>5 DEF PhaseInv
<1> QED
  BY <1>3, <1>6, <1>7

\* A step of one player between two barriers.
LEMMA MoveFrame ==
    ASSUME IInv, NEW p \in Players, pc[p] \notin Waits \cup Lobby \cup {"none"},
           NEW l \in PlayerPCs \ (Waits \cup Lobby), pc' = [pc EXCEPT ![p] = l],
           TableSame, arrived' = arrived
    PROVE  /\ CountInv' /\ MainInv' /\ TableInv'
           /\ pc' \in [Players -> PlayerPCs]
           /\ pc'[p] = l /\ \A q \in Players : q # p => pc'[q] = pc[q]
           /\ Seated' = Seated /\ (Rounds' <=> Rounds)
<1> USE DEF IInv, TableSame, table
<1>1. /\ pc'[p] = l /\ \A q \in Players : q # p => pc'[q] = pc[q]
      /\ pc' \in [Players -> PlayerPCs]
  BY DEF TypeOK
<1>2. CountInv'
  BY <1>1, CountKept
<1>3. MainInv' /\ TableInv'
  BY <1>1, RoundTable
<1> QED
  BY <1>1, <1>2, <1>3 DEF Seated, Rounds

\* sop-mss1.c: the thread returns behind the barrier.
LEMMA LeaveStep ==
    ASSUME IInv, UNCHANGED version, NEW p \in Players, LeaveTable(p), version = "table"
    PROVE  IInv'
<1> USE DEF IInv
<1>1. /\ pc[p] = "check" /\ pc' = [pc EXCEPT ![p] = "none"]
      /\ TableSame /\ arrived' = arrived
      /\ UNCHANGED <<game_over, print_mutex, cards>>
      /\ pc[p] \notin Waits \cup Lobby \cup {"none"} /\ "none" \in PlayerPCs \ (Waits \cup Lobby)
  BY DEF LeaveTable, Goto, TableSame, Waits, Lobby, PlayerPCs
<1>2. /\ CountInv' /\ MainInv' /\ TableInv'
      /\ pc' \in [Players -> PlayerPCs]
      /\ pc'[p] = "none" /\ \A q \in Players : q # p => pc'[q] = pc[q]
      /\ Seated' = Seated
  BY <1>1, MoveFrame
<1>3. TypeOK'
  BY <1>1, <1>2 DEF TypeOK, TableSame, table, cards
<1>4. Dispersing
  BY <1>1 DEF PhaseInv, Gathering, Announcing, Passing, Leaving, Taking, All, Lobby, Rounds
<1>5. Apart(hand)'
  BY <1>1, <1>2, <1>4 DEF Dispersing, Apart, cards
<1>6. Dispersing'
  BY <1>1, <1>2, <1>4, <1>5 DEF Dispersing, All, TableSame, table
<1> QED
  BY <1>2, <1>3, <1>6 DEF PhaseInv

\* A player announces its winning hand, or has none.
LEMMA CheckStep ==
    ASSUME IInv, UNCHANGED version, NEW p \in Players, Check(p), version # "table"
    PROVE  IInv'
<1> USE DEF IInv
<1>1. /\ pc[p] = "check" /\ pc' = [pc EXCEPT ![p] = "announced"]
      /\ TableSame /\ arrived' = arrived
      /\ UNCHANGED <<print_mutex, cards>>
      /\ game_over' = IF SevenOfAKind(p) THEN 1 ELSE game_over
      /\ pc[p] \notin Waits \cup Lobby \cup {"none"}
      /\ "announced" \in PlayerPCs \ (Waits \cup Lobby)
  BY DEF Check, Goto, TableSame, Waits, Lobby, PlayerPCs
<1>2. /\ CountInv' /\ MainInv' /\ TableInv'
      /\ pc' \in [Players -> PlayerPCs]
      /\ pc'[p] = "announced" /\ \A q \in Players : q # p => pc'[q] = pc[q]
      /\ Seated' = Seated /\ (Rounds' <=> Rounds)
  BY <1>1, MoveFrame
<1>3. TypeOK'
  BY <1>1, <1>2 DEF TypeOK, TableSame, table, cards
<1>4. Announcing
  BY <1>1 DEF PhaseInv, Gathering, Passing, Leaving, Taking, Dispersing, All, Lobby
<1>5. Apart(hand)'
  BY <1>1, <1>2, <1>4 DEF Announcing, Apart, cards
<1>6. game_over' = 1 => Won'
  BY <1>1, <1>4 DEF Announcing, Won, SevenOfAKind, cards
<1>7. \A q \in Players : pc'[q] # "check" /\ SevenOfAKind(q)' => game_over' = 1
  BY <1>1, <1>2, <1>4 DEF Announcing, SevenOfAKind, cards
<1>8. Announcing'
  BY <1>2, <1>4, <1>5, <1>6, <1>7 DEF Announcing, All
<1> QED
  BY <1>2, <1>3, <1>8 DEF PhaseInv

\* A player leaves or goes on: game_over is the same for everybody.
LEMMA ReadStep ==
    ASSUME IInv, UNCHANGED version, NEW p \in Players, ReadGameOver(p)
    PROVE  IInv'
<1> USE DEF IInv
<1> DEFINE l == IF game_over = 1 THEN "none" ELSE "pass"
<1>1. /\ pc[p] = "read" /\ pc' = [pc EXCEPT ![p] = l]
      /\ TableSame /\ arrived' = arrived
      /\ UNCHANGED <<print_mutex, cards, game_over>>
      /\ pc[p] \notin Waits \cup Lobby \cup {"none"}
      /\ l \in PlayerPCs \ (Waits \cup Lobby)
  BY DEF ReadGameOver, Goto, TableSame, Waits, Lobby, PlayerPCs
<1>2. /\ CountInv' /\ MainInv' /\ TableInv'
      /\ pc' \in [Players -> PlayerPCs]
      /\ pc'[p] = l /\ \A q \in Players : q # p => pc'[q] = pc[q]
      /\ Seated' = Seated /\ (Rounds' <=> Rounds)
  BY <1>1, MoveFrame
<1>3. TypeOK'
  BY <1>1, <1>2 DEF TypeOK, TableSame, table, cards
<1>4. Passing \/ Leaving
  BY <1>1 DEF PhaseInv, Gathering, Announcing, Taking, Dispersing, All, Lobby
<1>5. Apart(hand)' /\ (Won' <=> Won)
  BY <1>1, <1>2, <1>4 DEF Passing, Leaving, Apart, Won, SevenOfAKind, cards
<1>6. CASE Leaving
  <2>1. l = "none"
    BY <1>6 DEF Leaving
  <2>2. Leaving'
    BY <1>1, <1>2, <1>5, <1>6, <2>1 DEF Leaving, All
  <2>3. QED
    BY <1>2, <1>3, <2>2 DEF PhaseInv
<1>7. CASE Passing
  <2>1. l = "pass"
    BY <1>7 DEF Passing
  <2>2. Passing'
    BY <1>1, <1>2, <1>5, <1>7, <2>1 DEF Passing, All, cards
  <2>3. QED
    BY <1>2, <1>3, <2>2 DEF PhaseInv
<1> QED
  BY <1>4, <1>6, <1>7

\* A card goes to the right: nobody else writes what that player receives.
LEMMA PassStep ==
    ASSUME IInv, UNCHANGED version, NEW p \in Players, Pass(p)
    PROVE  IInv'
<1> USE DEF IInv
<1>1. /\ pc[p] = "pass" /\ pc' = [pc EXCEPT ![p] = "passed"]
      /\ TableSame /\ arrived' = arrived
      /\ UNCHANGED <<print_mutex, hand, game_over>>
      /\ pc[p] \notin Waits \cup Lobby \cup {"none"}
      /\ "passed" \in PlayerPCs \ (Waits \cup Lobby)
  BY DEF Pass, Goto, TableSame, Waits, Lobby, PlayerPCs
<1>2. /\ CountInv' /\ MainInv' /\ TableInv'
      /\ pc' \in [Players -> PlayerPCs]
      /\ pc'[p] = "passed" /\ \A q \in Players : q # p => pc'[q] = pc[q]
      /\ Seated' = Seated /\ (Rounds' <=> Rounds)
  BY <1>1, MoveFrame
<1>3. PICK c \in hand[p] : /\ first' = [first EXCEPT ![p] = c]
                           /\ received_card' = [received_card EXCEPT ![Right(p)] = c]
  BY DEF Pass
<1>4. c \in Cards /\ Right(p) \in Players
  BY Circle DEF TypeOK
<1>5. TypeOK'
  BY <1>1, <1>2, <1>3, <1>4 DEF TypeOK, TableSame, table
<1>6. Passing
  BY <1>1 DEF PhaseInv, Gathering, Announcing, Leaving, Taking, Dispersing, All, Lobby
<1>7. Apart(hand)' /\ (Won' <=> Won)
  BY <1>1, <1>2, <1>6 DEF Passing, Apart, Won, SevenOfAKind
<1>8. ASSUME NEW q \in Players, pc'[q] \in {"passed", "atPass"}
      PROVE  first'[q] \in hand'[q] /\ received_card'[Right(q)] = first'[q]
  <2>1. CASE q = p
    BY <1>1, <1>3, <1>4, <2>1 DEF TypeOK
  <2>2. CASE q # p
    <3>1. Right(q) # Right(p) /\ Right(q) \in Players
      BY <2>2, Circle
    <3>2. first[q] \in hand[q] /\ received_card[Right(q)] = first[q]
      BY <1>2, <1>6, <1>8, <2>2 DEF Passing
    <3>3. QED
      BY <1>1, <1>3, <2>2, <3>1, <3>2 DEF TypeOK
  <2>3. QED
    BY <2>1, <2>2
<1>9. Passing'
  BY <1>1, <1>2, <1>6, <1>7, <1>8 DEF Passing, All
<1> QED
  BY <1>2, <1>5, <1>9 DEF PhaseInv

\* A player takes the card it received: it now has its next hand.
LEMMA TakeStep ==
    ASSUME IInv, UNCHANGED version, NEW p \in Players, Take(p)
    PROVE  IInv'
<1> USE DEF IInv
<1>1. /\ pc[p] = "take" /\ pc' = [pc EXCEPT ![p] = "taken"]
      /\ TableSame /\ arrived' = arrived
      /\ UNCHANGED <<print_mutex, game_over>>
      /\ hand' = [hand EXCEPT ![p] = (hand[p] \ {first[p]}) \cup ({received_card[p]} \ {NoCard})]
      /\ first' = [first EXCEPT ![p] = NoCard]
      /\ received_card' = [received_card EXCEPT ![p] = NoCard]
      /\ pc[p] \notin Waits \cup Lobby \cup {"none"}
      /\ "taken" \in PlayerPCs \ (Waits \cup Lobby)
  BY DEF Take, Goto, TableSame, Waits, Lobby, PlayerPCs
<1>2. /\ CountInv' /\ MainInv' /\ TableInv'
      /\ pc' \in [Players -> PlayerPCs]
      /\ pc'[p] = "taken" /\ \A q \in Players : q # p => pc'[q] = pc[q]
      /\ Seated' = Seated /\ (Rounds' <=> Rounds)
  BY <1>1, MoveFrame
<1>3. TypeOK'
  <2>1. hand' \in [Players -> SUBSET Cards]
    BY <1>1 DEF TypeOK
  <2>2. first' \in [Players -> Cards \cup {NoCard}] /\ received_card' \in [Players -> Cards \cup {NoCard}]
    BY <1>1 DEF TypeOK
  <2>3. QED
    BY <1>1, <1>2, <2>1, <2>2 DEF TypeOK, TableSame, table
<1>4. Taking
  BY <1>1 DEF PhaseInv, Gathering, Announcing, Passing, Leaving, Dispersing, All, Lobby
<1>5. NextHand' = NextHand
  <2>1. ASSUME NEW q \in Players PROVE NextHand'[q] = NextHand[q]
    <3>1. CASE q = p
      <4>1. received_card[p] # NoCard
        BY <1>1, <1>4 DEF Taking
      <4>2. hand'[p] = (hand[p] \ {first[p]}) \cup {received_card[p]}
        BY <1>1, <4>1 DEF TypeOK
      <4>3. QED
        BY <1>1, <1>2, <3>1, <4>2 DEF NextHand
    <3>2. CASE q # p
      <4>1. hand'[q] = hand[q] /\ first'[q] = first[q] /\ received_card'[q] = received_card[q]
        BY <1>1, <3>2 DEF TypeOK
      <4>2. QED
        BY <1>2, <3>2, <4>1 DEF NextHand
    <3>3. QED
      BY <3>1, <3>2
  <2>2. QED
    BY <2>1 DEF NextHand
<1>6. Apart(NextHand)'
  BY <1>2, <1>4, <1>5 DEF Taking, Apart
<1>7. \A q \in Players : pc'[q] = "take" => received_card'[q] # NoCard
  BY <1>1, <1>2, <1>4 DEF Taking, TypeOK
<1>8. Taking'
  BY <1>1, <1>2, <1>4, <1>6, <1>7 DEF Taking, All
<1> QED
  BY <1>2, <1>3, <1>8 DEF PhaseInv

-----------------------------------------------------------------------------
(* The theorems *)

LEMMA StepInv == IInv /\ [StagesNext]_stagevars => IInv'
<1> SUFFICES ASSUME IInv, [StagesNext]_stagevars PROVE IInv'
  OBVIOUS
<1> USE DEF IInv
<1>1. CASE UNCHANGED stagevars
  <2>1. UNCHANGED <<main, pending, table, game_over, print_mutex, arrived, pc, cards, cancelled, version>>
    BY <1>1 DEF stagevars, vars
  <2>2. TypeOK' /\ MainInv' /\ TableInv'
    BY <2>1 DEF TypeOK, MainInv, TableInv, table, cards
  <2>3. CountInv'
    BY <2>1, CountKept
  <2>4. PhaseInv'
    BY <2>1, PhaseFrame DEF table
  <2>5. QED
    BY <2>2, <2>3, <2>4
<1>2. ASSUME UNCHANGED version, NEW p \in Players, PlayRound(p), version # "table" PROVE IInv'
  BY <1>2, StartBarrierStep, CheckStep, AnnounceBarrierStep, ReadStep, PassStep, PassBarrierStep,
     TakeStep, TakeBarrierStep DEF PlayRound
<1>3. ASSUME UNCHANGED version, StageMain PROVE IInv'
  <2>1. ASSUME Seat PROVE IInv'
    <3>1. SeatNext /\ pending' \subseteq Signals
      BY <2>1 DEF Seat, TypeOK
    <3>2. QED
      BY <1>3, <3>1, SeatStep
  <2>2. CASE version = "deal"
    <3>1. DealMain
      BY <1>3, <2>2 DEF StageMain
    <3>2. SeatNext /\ UNCHANGED pending => IInv'
      BY <1>3, SeatStep DEF TypeOK
    <3>3. QED
      BY <1>3, <2>2, <3>1, <3>2, QuietMain DEF DealMain
  <2>3. CASE version \in {"table", "rounds"}
    <3>1. Seat \/ CancelJoin \/ ResetTable
      BY <1>3, <2>3 DEF StageMain, TableMain, RoundsMain
    <3>2. QED
      BY <1>3, <2>1, <2>3, <3>1, QuietMain, ResetStep
  <2>4. CASE version = "cancel"
    <3>1. CancelMainStep
      BY <1>3, <2>4 DEF StageMain
    <3>2. QED
      BY <1>3, <2>1, <2>4, <3>1, QuietMain, ResetStep DEF CancelMainStep
  <2>5. CASE version = "lobby"
    <3>1. MainStep
      BY <1>3, <2>5 DEF StageMain
    <3>2. QED
      BY <1>3, <2>1, <2>5, <3>1, QuietMain, StartStep, ResetStep, CloseStep DEF MainStep
  <2>6. QED
    BY <2>2, <2>3, <2>4, <2>5 DEF MainInv, Versions
<1>4. ASSUME UNCHANGED version, NEW p \in Players, StageThread(p) PROVE IInv'
  <2>1. CASE version = "deal"
    BY <1>4, <2>1, GatherStep DEF StageThread, DealThread
  <2>2. CASE version = "table"
    BY <1>4, <2>2, GatherStep, StartBarrierStep, LeaveStep DEF StageThread, TableThread
  <2>3. CASE version = "rounds"
    BY <1>2, <1>4, <2>3, GatherStep DEF StageThread, RoundsThread
  <2>4. CASE version = "cancel"
    BY <1>2, <1>4, <2>4, GatherStep DEF StageThread, CancelPlayerStep
  <2>5. CASE version = "lobby"
    BY <1>2, <1>4, <2>5, GatherStep DEF StageThread, PlayerStep
  <2>6. QED
    BY <2>1, <2>2, <2>3, <2>4, <2>5 DEF MainInv, Versions
<1>5. ASSUME UNCHANGED version, NEW g \in Handled, SendSignal(g) PROVE IInv'
  <2>1. g \in Signals
    BY <1>5 DEF Handled, Signals
  <2>2. QED
    BY <1>5, <2>1, QuietMain
<1> QED
  BY <1>1, <1>3, <1>4, <1>5 DEF StagesNext

\* The table is always in one phase, in all five versions.
THEOREM Invariance == StagesSpec => []IInv
BY InitInv, StepInv, PTL DEF StagesSpec

\* A round only moves cards: between rounds no card is lost, duplicated or taken
\* before it was passed, for any number of players and any deck.
THEOREM RoundsConserveCards == StagesSpec => []CardsConserved
<1>1. IInv => CardsConserved
  <2> SUFFICES ASSUME IInv, Settled PROVE CardsConserved
    BY DEF CardsConserved
  <2>1. 0 \in Players
    BY NAssumption DEF Players
  <2>2. ~ Taking
    BY <2>1 DEF Settled, Taking, All
  <2>3. Apart(hand)
    BY <2>2 DEF IInv, PhaseInv, Gathering, Announcing, Passing, Leaving, Dispersing
  <2>4. QED
    BY <2>3 DEF Apart, CardsConserved
<1> QED
  BY <1>1, Invariance, PTL

\* All the threads inside the barrier wait at the same one of its four places:
\* no round overtakes another.
THEOREM RoundsAligned == StagesSpec => []BarrierAligned
<1>1. IInv => BarrierAligned
  BY DEF IInv, PhaseInv, Gathering, Announcing, Passing, Leaving, Taking, Dispersing, All, Lobby,
         Waits, BarrierAligned
<1> QED
  BY <1>1, Invariance, PTL

\* game_over is set only while a seated player holds a winning hand, never by
\* what an earlier game left behind.
THEOREM WonFairly == StagesSpec => []OverMeansWon
<1>1. IInv => OverMeansWon
  <2> SUFFICES ASSUME IInv, game_over = 1 PROVE OverMeansWon
    BY DEF OverMeansWon
  <2>1. Won /\ current_players = N
    BY DEF IInv, PhaseInv, Gathering, Announcing, Passing, Leaving, Taking, Dispersing, Rounds
  <2>2. QED
    BY <2>1 DEF Won, OverMeansWon, Seated, Players
<1> QED
  BY <1>1, Invariance, PTL

\* The players leave a game together: when one has left, nobody is at a barrier
\* or on the way to one.
THEOREM LeavingTogether == StagesSpec => []NobodyLeftBehind
<1>1. IInv => NobodyLeftBehind
  <2> SUFFICES ASSUME IInv, version # "deal", main = "join", InGame # Seated
               PROVE  IF version = "table" THEN \A p \in InGame : pc[p] = "check"
                      ELSE game_over = 1 /\ \A p \in InGame : pc[p] = "read"
    BY DEF IInv, MainInv, Versions, NobodyLeftBehind, LeaveTogether
  <2>1. Seated \subseteq Players
    BY NAssumption DEF IInv, TypeOK, Seated, Players
  <2>2. PICK p \in Seated : pc[p] = "none"
    BY DEF InGame
  <2>3. Leaving \/ Dispersing
    BY <2>1, <2>2 DEF IInv, PhaseInv, Gathering, Announcing, Passing, Taking, All
  <2>4. QED
    BY <2>1, <2>3 DEF Leaving, Dispersing, Rounds, All, InGame
<1> QED
  BY <1>1, Invariance, PTL

\* No change of table_state is missed by a player on the way to the lobby, asleep
\* in it or awake again: nobody sleeps through the start of a game, and nobody
\* plays at a table that was closed.
THEOREM LobbyInformed == StagesSpec => []LobbyMatchesTable
<1>1. IInv => LobbyMatchesTable
  <2> SUFFICES ASSUME IInv PROVE LobbyMatchesTable
    OBVIOUS
  <2>1. table_state # "WAITING" => \A p \in Players : pc[p] # "asleep"
    BY DEF IInv, TableInv
  <2>2. ASSUME table_state = "EXIT", NEW p \in Players
        PROVE  pc[p] \in {"none", "print", "printing", "lobby"}
    BY <2>2 DEF IInv, TableInv, Lobby
  <2>3. QED
    BY <2>1, <2>2 DEF LobbyMatchesTable
<1> QED
  BY <1>1, Invariance, PTL

-----------------------------------------------------------------------------
(* No game comes to a standstill *)

\* What a player's thread can do now. It waits for print_mutex where it prints or
\* announces, and at the four places of the barrier.
PlayerRuns(p) ==
    \/ pc[p] \in {"printing", "start", "announced", "read", "passed", "take", "taken"}
    \/ pc[p] = "lobby"
    \/ pc[p] = "print" /\ print_mutex = NoPlayer
    \/ pc[p] = "check" /\ (version = "table" \/ ~ SevenOfAKind(p) \/ print_mutex = NoPlayer)
    \/ pc[p] = "pass" /\ print_mutex = NoPlayer /\ hand[p] # {}

\* While main joins the players of a full table, or of a table that was closed, a
\* player can go on or all have left.
JoinsGoOn == main \in {"join", "close"} => Joined \/ \E p \in Players : PlayerRuns(p)

\* A player that was not cancelled gives print_mutex back itself.
PrintMutexInv ==
    \A p \in Players :
        print_mutex = p => pc[p] = "printing" \/ main \in {"cancel", "exit"}

\* NoPlayer is nobody.
LEMMA NoPlayerIsNone == NoPlayer \notin Players
BY DeckAssumption DEF Players

LEMMA PrintMutexMain ==
    ASSUME IInv, PrintMutexInv, StageMain, UNCHANGED version
    PROVE  PrintMutexInv'
<1> USE DEF PrintMutexInv
<1>0. pc \in [Players -> PlayerPCs] /\ main \in MainPCs
  BY DEF IInv, TypeOK
<1>1. CASE SeatNext
  <2>1. /\ main = "sigwait" /\ current_players < N /\ pc' = [pc EXCEPT ![current_players] = "print"]
        /\ print_mutex' = print_mutex
    BY <1>1 DEF SeatNext, Goto
  <2>2. \A p \in Players : p = current_players => pc[p] # "printing"
    <3>1. Gathering
      BY <2>1, NAssumption
         DEF IInv, TypeOK, PhaseInv, Announcing, Passing, Leaving, Taking, Dispersing, Rounds
    <3>2. current_players \notin Seated
      BY DEF IInv, TypeOK, Seated
    <3> QED
      BY <3>1, <3>2 DEF Gathering
  <2> QED
    BY <1>0, <2>1, <2>2
<1>2. CASE StartGame \/ CloseLobby
  BY <1>0, <1>2 DEF StartGame, CloseLobby, TakeSigint, WakeLobby
<1>3. CASE ResetTable \/ ExitAfterJoin \/ ExitAfterGame \/ CancelJoin
  BY <1>3 DEF ResetTable, ExitAfterJoin, ExitAfterGame, CancelJoin
<1>4. CASE SigintCancel \/ ExitAfterCancel \/ \E p \in Players : CancelPlayer(p)
  BY <1>4 DEF SigintCancel, ExitAfterCancel, CancelPlayer, TakeSigint
<1> QED
  BY <1>1, <1>2, <1>3, <1>4
     DEF StageMain, DealMain, TableMain, RoundsMain, CancelMainStep, MainStep, Seat, IInv, MainInv,
         Versions

LEMMA PrintMutexThread ==
    ASSUME IInv, PrintMutexInv, NEW p \in Players, StageThread(p)
    PROVE  PrintMutexInv'
<1> USE DEF PrintMutexInv, Goto
<1>0. pc \in [Players -> PlayerPCs]
  BY DEF IInv, TypeOK
<1>1. CASE PrintLock(p)
  BY <1>0, <1>1, NoPlayerIsNone DEF PrintLock
<1>2. ASSUME NEW l, PrintUnlock(p, l) PROVE PrintMutexInv'
  BY <1>0, <1>2, NoPlayerIsNone DEF PrintUnlock
<1>3. CASE CancelledInPrint(p)
  BY <1>0, <1>3 DEF CancelledInPrint, IInv, MainInv
<1>4. CASE EnterLobby(p) \/ SpuriousWakeup(p) \/ LeaveTable(p)
  BY <1>0, <1>4 DEF EnterLobby, SpuriousWakeup, LeaveTable
<1>5. CASE Check(p) \/ ReadGameOver(p) \/ Pass(p) \/ Take(p)
  BY <1>0, <1>5 DEF Check, ReadGameOver, Pass, Take
<1>6. ASSUME NEW l \in Waits, pc[p] # "printing", BarrierWait(p, l) PROVE PrintMutexInv'
  BY <1>0, <1>6 DEF BarrierWait, After
<1>7. CASE StartBarrier(p) \/ AnnounceBarrier(p) \/ PassBarrier(p) \/ TakeBarrier(p)
  BY <1>6, <1>7 DEF StartBarrier, AnnounceBarrier, PassBarrier, TakeBarrier, Waits
<1> QED
  BY <1>1, <1>2, <1>3, <1>4, <1>5, <1>7
     DEF StageThread, DealThread, TableThread, RoundsThread, CancelPlayerStep, PlayerStep, PlayRound,
         IInv, MainInv, Versions

\* The barrier opens before all N threads wait in it.
LEMMA SomebodyMissing == CountInv => ~ All(Waits)
<1> SUFFICES ASSUME CountInv, All(Waits) PROVE FALSE
  OBVIOUS
<1>1. Waiting = Players
  BY DEF Waiting, All
<1> QED
  BY <1>1, PlayersFinite, NAssumption DEF CountInv

\* While main joins its players somebody can go on, in all five versions and for any
\* number of players: nobody sits at a barrier that will not open, in a waiting
\* room that nobody will open, or at a print_mutex that nobody gives back. What
\* SIGINT does to the players of sop-mss3.c (main at "cancel") is excepted: there the
\* program does come to a standstill.
THEOREM NeverStuck == StagesSpec => []JoinsGoOn
<1>1. ASSUME IInv, PrintMutexInv PROVE JoinsGoOn
  <2> SUFFICES ASSUME main \in {"join", "close"}, \A p \in Players : ~ PlayerRuns(p) PROVE Joined
    BY DEF JoinsGoOn
  <2>0. /\ pc \in [Players -> PlayerPCs] /\ print_mutex \in Players \cup {NoPlayer}
        /\ Seated \subseteq Players
    BY <1>1, NAssumption DEF IInv, TypeOK, Seated, Players
  <2>1. print_mutex = NoPlayer
    BY <1>1, <2>0 DEF PrintMutexInv, PlayerRuns
  <2>2. ASSUME NEW p \in Players, pc[p] = "pass" PROVE FALSE
    <3>1. Passing
      BY <1>1, <2>2
         DEF IInv, PhaseInv, Gathering, Announcing, Leaving, Taking, Dispersing, All, Lobby
    <3>2. Cardinality(hand[p]) = HandSize
      BY <1>1, <2>2, <3>1 DEF Passing, Rounds, Apart, Seated, Players
    <3>3. hand[p] # {}
      BY <3>2, DeckAssumption, FS_EmptySet
    <3> QED
      BY <2>1, <2>2, <3>3 DEF PlayerRuns
  <2>3. \A p \in Players : pc[p] # "asleep"
    BY <1>1 DEF IInv, MainInv, TableInv
  <2>4. All({"none"} \cup Waits)
    BY <2>0, <2>1, <2>2, <2>3 DEF PlayerRuns, PlayerPCs, All
  <2>5. ~ All(Waits)
    BY <1>1, SomebodyMissing DEF IInv
  <2>6. CASE main = "close"
    <3>1. \A p \in Players : pc[p] \in Lobby \cup {"none"}
      BY <1>1, <2>6 DEF IInv, MainInv, TableInv
    <3>2. \A p \in Players : pc[p] = "none"
      BY <2>4, <3>1 DEF All, Lobby, Waits
    <3> QED
      BY <2>0, <3>2 DEF Joined
  <2>7. CASE main = "join"
    <3>1. CASE Gathering
      <4>1. Seated = Players
        BY <1>1, <2>7 DEF IInv, MainInv, Seated, Players
      <4>2. version = "deal"
        BY <2>4, <2>5, <2>7, <3>1, <4>1 DEF Gathering, All
      <4> QED
        BY <2>0, <2>4, <3>1, <4>2 DEF Gathering, All, Joined, Waits
    <3>2. CASE Leaving \/ Dispersing
      BY <2>0, <2>4, <3>2 DEF Leaving, Dispersing, All, Joined, Waits
    <3>3. CASE Announcing \/ Passing \/ Taking
      BY <2>4, <2>5, <3>3 DEF Announcing, Passing, Taking, All, Waits
    <3> QED
      BY <1>1, <3>1, <3>2, <3>3 DEF IInv, PhaseInv
  <2> QED
    BY <2>6, <2>7
<1>2. StagesInit => PrintMutexInv
  BY NoPlayerIsNone DEF StagesInit, Init, PrintMutexInv
<1>3. IInv /\ PrintMutexInv /\ [StagesNext]_stagevars => PrintMutexInv'
  <2> SUFFICES ASSUME IInv, PrintMutexInv, [StagesNext]_stagevars PROVE PrintMutexInv'
    OBVIOUS
  <2>1. ASSUME NEW s \in Handled, SendSignal(s) PROVE PrintMutexInv'
    BY <2>1 DEF SendSignal, PrintMutexInv
  <2>2. CASE UNCHANGED stagevars
    BY <2>2 DEF stagevars, vars, PrintMutexInv
  <2> QED
    BY <2>1, <2>2, PrintMutexMain, PrintMutexThread DEF StagesNext
<1> QED
  BY <1>1, <1>2, <1>3, Invariance, PTL DEF StagesSpec
=============================================================================
