--------------------------- MODULE CardTableProofs ---------------------------
(***************************************************************************)
(* The card game implements CardTable, for every number of players, every  *)
(* deck and every size of hand: the threads' announcing, passing and       *)
(* taking look like rounds of a table that are one step each.              *)
(*                                                                         *)
(* The step that maps to a round is the last thread's at the barrier after *)
(* passing. Before it, all hands are what they were; behind it, every      *)
(* thread that has not taken its card yet is shown with the hand it will   *)
(* have. That nobody holds a winning hand when cards move comes from the   *)
(* phases of CardGameProofs: game_over was read by all, or by none.        *)
(***************************************************************************)
EXTENDS CardGameProofs

-----------------------------------------------------------------------------
(* The mapping *)

plays == version \in {"rounds", "cancel", "lobby"}
over == game_over = 1
ctvars == <<plays, current_players, tableHands, over>>

\* The players of the abstract table.
LEMMA SamePlayers ==
    /\ CT!Players = Players
    /\ \A p : CT!Right(p) = Right(p)
    /\ \A p \in Players : CT!Left(p) \in Players /\ Right(CT!Left(p)) = p
    /\ \A p \in Players : CT!Left(Right(p)) = p
<1>1. CT!Players = Players /\ \A p : CT!Right(p) = Right(p)
  BY DEF CT!Players, Players, CT!Right, Right
<1>2. ASSUME NEW p \in Players PROVE CT!Left(p) \in Players /\ Right(CT!Left(p)) = p
  <2>1. \E q \in Players : Right(q) = p
    BY Circle
  <2>2. CT!Left(p) = CHOOSE q \in Players : Right(q) = p
    BY <1>1 DEF CT!Left
  <2>3. QED
    BY <2>1, <2>2
<1>3. ASSUME NEW p \in Players PROVE CT!Left(Right(p)) = p
  <2>1. Right(p) \in Players
    BY Circle
  <2>2. CT!Left(Right(p)) \in Players /\ Right(CT!Left(Right(p))) = Right(p)
    BY <1>2, <2>1
  <2>3. QED
    BY <2>2, Circle
<1> QED
  BY <1>1, <1>2, <1>3

\* Both modules count with the same operator.
LEMMA SameCardinality == \A S : CT!Cardinality(S) = Cardinality(S)
  BY DEF CT!Cardinality, Cardinality

\* When the table is full, everybody's hand is on it.
LEMMA FullHands ==
    ASSUME current_players = N
    PROVE  Seated = Players /\ tableHands = NextHand
<1>1. Seated = Players
  BY DEF Seated, Players
<1> QED
  BY <1>1 DEF tableHands, NextHand

\* Outside the phase in which cards are taken, a hand is what it seems.
LEMMA HandsNow ==
    ASSUME TypeOK, \A p \in Players : pc[p] # "take"
    PROVE  NextHand = hand
BY DEF NextHand, TypeOK

\* A winning hand is one in the abstract table.
LEMMA SameWinners ==
    ASSUME TypeOK, current_players = N, \A p \in Players : pc[p] # "take"
    PROVE  CT!Won <=> Won
<1>1. tableHands = hand
  BY FullHands, HandsNow
<1> QED
  BY <1>1, SamePlayers DEF CT!Won, CT!Winning, Won, SevenOfAKind

\* Steps that the table does not show.
LEMMA Stutter ==
    ASSUME UNCHANGED <<current_players, game_over, version>>, NextHand' = NextHand
    PROVE  UNCHANGED CT!vars
<1>1. Seated' = Seated
  BY DEF Seated
<1>2. tableHands' = tableHands
  BY <1>1 DEF tableHands
<1> QED
  BY <1>2 DEF CT!vars

\* A step of a thread that moves no card, and is not at "take" before or after.
LEMMA NoCardMoves ==
    ASSUME UNCHANGED <<hand, first, received_card>>,
           \A p \in Players : pc'[p] = "take" <=> pc[p] = "take"
    PROVE  NextHand' = NextHand
BY DEF NextHand

-----------------------------------------------------------------------------
(* The steps *)

LEMMA InitTable == StagesInit => CT!Init
<1> SUFFICES ASSUME StagesInit PROVE CT!Init
  OBVIOUS
<1>1. /\ version \in Versions /\ current_players = 0 /\ game_over = 0
  BY DEF StagesInit, Init
<1>2. Seated = {}
  BY <1>1 DEF Seated
<1>3. tableHands = [p \in CT!Players |-> {}]
  BY <1>2, SamePlayers DEF tableHands
<1> QED
  BY <1>1, <1>3 DEF CT!Init

\* Seating a player is dealing to it.
LEMMA SeatDeals ==
    ASSUME IInv, UNCHANGED version, SeatNext
    PROVE  CT!Deal
<1> USE DEF IInv
<1> DEFINE n == current_players
<1>0. N \in Nat /\ N > 0 /\ n \in Nat /\ n < N /\ n \in Players
  BY NAssumption DEF SeatNext, TypeOK, Players
<1>1. PICK h \in kSubset(HandSize, Cards \ UNION {hand[p] : p \in Seated}) :
          hand' = [hand EXCEPT ![n] = h]
  BY DEF SeatNext
<1>2. /\ h \subseteq Cards /\ Cardinality(h) = HandSize
      /\ \A p \in Seated : h \cap hand[p] = {}
  BY <1>1 DEF kSubset
<1>3. /\ current_players' = n + 1 /\ pc' = [pc EXCEPT ![n] = "print"]
      /\ UNCHANGED <<game_over, first>>
  BY DEF SeatNext, Goto
<1>4. Gathering
  BY <1>0 DEF PhaseInv, Announcing, Passing, Leaving, Taking, Dispersing, Rounds
<1>5. \A p \in Players : pc[p] # "take" /\ pc'[p] # "take"
  <2>1. \A p \in Players : pc[p] # "take"
    BY <1>4 DEF Gathering, All, Lobby
  <2>2. \A p \in Players : pc'[p] # "take"
    BY <1>3, <2>1 DEF TypeOK
  <2>3. QED
    BY <2>1, <2>2
<1>6. n \notin Seated /\ Seated \subseteq Players /\ Seated' = Seated \cup {n}
  BY <1>0, <1>3 DEF Seated, Players
<1>7. hand' \in [Players -> SUBSET Cards]
  BY <1>0, <1>1, <1>2 DEF TypeOK
<1>8. NextHand = hand /\ NextHand' = hand'
  BY <1>5, <1>7 DEF NextHand, TypeOK
<1>9. tableHands' = [tableHands EXCEPT ![n] = h]
  <2>1. DOMAIN tableHands = Players
    BY DEF tableHands
  <2>2. ASSUME NEW p \in Players
        PROVE  tableHands'[p] = IF p = n THEN h ELSE tableHands[p]
    BY <1>0, <1>1, <1>6, <1>8 DEF tableHands, TypeOK
  <2>3. QED
    BY <2>1, <2>2 DEF tableHands
<1>10. h \in SUBSET (Cards \ UNION {tableHands[p] : p \in CT!Players})
  <2>1. ASSUME NEW p \in Players PROVE h \cap tableHands[p] = {}
    BY <1>2, <1>8 DEF tableHands
  <2>2. QED
    BY <1>2, <2>1, SamePlayers
<1>11. \E g \in SUBSET (Cards \ UNION {tableHands[p] : p \in CT!Players}) :
          /\ CT!Cardinality(g) = HandSize
          /\ tableHands' = [tableHands EXCEPT ![n] = g]
  BY <1>2, <1>9, <1>10, SameCardinality
<1> QED
  BY <1>0, <1>3, <1>11 DEF CT!Deal

\* Main empties a full table: the game that was played there is over.
LEMMA ResetClears ==
    ASSUME IInv, UNCHANGED version, ResetTable
    PROVE  CT!Clear
<1> USE DEF IInv
<1>1. /\ main = "join" /\ Joined /\ current_players' = 0 /\ game_over' = 0
  BY DEF ResetTable
<1>2. current_players = N
  BY <1>1 DEF MainInv
<1>3. 0 \in Players /\ pc[0] = "none" /\ 0 \in Seated
  BY <1>1, <1>2, NAssumption DEF Joined, Seated, Players
<1>4. plays => game_over = 1
  <2>1. version = "deal" \/ Leaving \/ Dispersing
    BY <1>1, <1>3 DEF PhaseInv, Gathering, Announcing, Passing, Taking, All
  <2>2. QED
    BY <2>1 DEF Leaving, Dispersing, plays
<1>5. Seated' = {}
  BY <1>1 DEF Seated
<1>6. tableHands' = [p \in CT!Players |-> {}]
  BY <1>5, SamePlayers DEF tableHands
<1> QED
  BY <1>1, <1>2, <1>4, <1>6 DEF CT!Clear, plays

\* A player announces that the game is won, or nothing.
LEMMA CheckWins ==
    ASSUME IInv, UNCHANGED version, NEW p \in Players, Check(p), version # "table"
    PROVE  CT!Win \/ UNCHANGED CT!vars
<1> USE DEF IInv
<1>1. /\ pc[p] = "check" /\ pc' = [pc EXCEPT ![p] = "announced"]
      /\ UNCHANGED <<hand, first, received_card, current_players>>
      /\ game_over' = IF SevenOfAKind(p) THEN 1 ELSE game_over
  BY DEF Check, Goto, cards, table
<1>2. Announcing
  BY <1>1 DEF PhaseInv, Gathering, Passing, Leaving, Taking, Dispersing, All, Lobby
<1>3. NextHand' = NextHand
  <2>1. \A q \in Players : pc'[q] = "take" <=> pc[q] = "take"
    BY <1>1 DEF TypeOK
  <2>2. QED
    BY <1>1, <2>1, NoCardMoves
<1>4. CASE SevenOfAKind(p)
  <2>1. Won /\ Rounds /\ \A q \in Players : pc[q] # "take"
    BY <1>2, <1>4 DEF Announcing, Won, All
  <2>2. CT!Won
    BY <2>1, SameWinners DEF Rounds
  <2>3. Seated' = Seated
    BY <1>1 DEF Seated
  <2>4. tableHands' = tableHands
    BY <1>3, <2>3 DEF tableHands
  <2>5. game_over' = 1
    BY <1>1, <1>4
  <2>6. CT!Win
    BY <1>1, <2>1, <2>2, <2>4, <2>5 DEF CT!Win, CT!FullTable, Rounds
  <2>7. QED
    BY <2>6
<1>5. CASE ~ SevenOfAKind(p)
  <2>1. game_over' = game_over
    BY <1>1, <1>5
  <2>2. QED
    BY <1>1, <1>3, <2>1, Stutter
<1> QED
  BY <1>4, <1>5

\* When the barrier after passing opens, the round happens.
LEMMA PassingExchanges ==
    ASSUME IInv, UNCHANGED version, NEW p \in Players, PassBarrier(p)
    PROVE  CT!Exchange \/ UNCHANGED CT!vars
<1> USE DEF IInv
<1>1. pc[p] = "passed" /\ BarrierWait(p, "atPass") /\ UNCHANGED cards
  BY DEF PassBarrier
<1>2. "atPass" \in Waits /\ pc[p] \notin Waits \cup Lobby \cup {"none"}
  BY <1>1 DEF Waits, Lobby
<1>3. /\ UNCHANGED <<current_players, game_over, hand, first, received_card>>
      /\ \/ pc'[p] = "atPass" /\ \A q \in Players : q # p => pc'[q] = pc[q]
         \/ /\ \A q \in Players : q # p => pc[q] \in Waits
            /\ \A q \in Players : pc'[q] = IF q = p THEN After("atPass") ELSE After(pc[q])
  BY <1>1, <1>2, BarrierFrame DEF cards
<1>4. Passing
  BY <1>1 DEF PhaseInv, Gathering, Announcing, Leaving, Taking, Dispersing, All, Lobby
<1>5. \A q \in Players : pc[q] # "take"
  BY <1>4 DEF Passing, All
<1>6. CASE pc'[p] = "atPass" /\ \A q \in Players : q # p => pc'[q] = pc[q]
  <2>1. \A q \in Players : pc'[q] = "take" <=> pc[q] = "take"
    BY <1>1, <1>6
  <2>2. QED
    BY <1>3, <2>1, NoCardMoves, Stutter
<1>7. CASE /\ \A q \in Players : q # p => pc[q] \in Waits
           /\ \A q \in Players : pc'[q] = IF q = p THEN After("atPass") ELSE After(pc[q])
  <2>1. \A q \in Players : q # p => pc[q] = "atPass"
    BY <1>4, <1>7 DEF Passing, All, Waits
  <2>2. \A q \in Players : pc'[q] = "take"
    BY <1>7, <2>1 DEF After
  <2>3. \A q \in Players : first[q] \in hand[q] /\ received_card[Right(q)] = first[q]
    BY <1>1, <1>4, <2>1 DEF Passing
  <2>4. current_players = N /\ plays /\ ~ Won
    BY <1>4 DEF Passing, Rounds, plays
  <2>5. /\ tableHands = hand /\ tableHands' = NextHand'
        /\ Seated = Players
    BY <1>3, <1>5, <2>4, FullHands, HandsNow DEF tableHands, NextHand, Seated, Players
  <2>6. \A q, r \in Players : q # r => hand[q] \cap hand[r] = {}
    BY <1>4, <2>5 DEF Passing, Apart
  <2> DEFINE given == {first[q] : q \in Players}
  <2>7. ASSUME NEW q \in Players PROVE hand[q] \cap given = {first[q]}
    BY <2>3, <2>6
  <2>8. ASSUME NEW q \in Players
        PROVE  NextHand'[q] = (hand[q] \ given) \cup (hand[CT!Left(q)] \cap given)
    <3>1. CT!Left(q) \in Players /\ Right(CT!Left(q)) = q
      BY SamePlayers
    <3>2. received_card[q] = first[CT!Left(q)]
      BY <2>3, <3>1
    <3>3. hand[CT!Left(q)] \cap given = {received_card[q]}
      BY <2>7, <3>1, <3>2
    <3>4. hand[q] \ given = hand[q] \ {first[q]}
      BY <2>7
    <3>5. NextHand'[q] = (hand[q] \ {first[q]}) \cup {received_card[q]}
      BY <1>3, <2>2 DEF NextHand
    <3>6. QED
      BY <3>3, <3>4, <3>5
  <2>9. tableHands' = [q \in CT!Players |->
                          (tableHands[q] \ given) \cup (tableHands[CT!Left(q)] \cap given)]
    <3>1. tableHands' = [q \in Players |-> NextHand'[q]]
      BY <2>5 DEF NextHand
    <3>2. QED
      BY <2>5, <2>8, <3>1, SamePlayers
  <2>10. given \in SUBSET UNION {tableHands[q] : q \in CT!Players}
    BY <2>3, <2>5, SamePlayers
  <2>11. \A q \in CT!Players : \E c \in tableHands[q] : tableHands[q] \cap given = {c}
    BY <2>3, <2>5, <2>7, SamePlayers
  <2>12. ~ CT!Won
    BY <1>5, <2>4, SameWinners
  <2>13. CT!Exchange
    <3>1. \E g \in SUBSET UNION {tableHands[q] : q \in CT!Players} :
             /\ \A q \in CT!Players : \E c \in tableHands[q] : tableHands[q] \cap g = {c}
             /\ tableHands' = [q \in CT!Players |->
                                  (tableHands[q] \ g) \cup (tableHands[CT!Left(q)] \cap g)]
      BY <2>9, <2>10, <2>11
    <3>2. QED
      BY <1>3, <2>4, <2>12, <3>1 DEF CT!Exchange, CT!FullTable, plays
  <2>14. QED
    BY <2>13
<1> QED
  BY <1>3, <1>6, <1>7

\* The other barriers let nobody take a card.
LEMMA BarriersStutter ==
    ASSUME IInv, UNCHANGED version, NEW p \in Players,
           StartBarrier(p) \/ AnnounceBarrier(p) \/ TakeBarrier(p)
    PROVE  UNCHANGED CT!vars
<1> USE DEF IInv
<1>1. PICK l \in {"atStart", "atAnnounce", "atTake"} :
          /\ BarrierWait(p, l) /\ UNCHANGED cards
          /\ pc[p] \in {"start", "announced", "taken"}
  BY DEF StartBarrier, AnnounceBarrier, TakeBarrier
<1>2. /\ l \in Waits /\ pc[p] \notin Waits \cup Lobby \cup {"none"}
  BY <1>1 DEF Waits, Lobby
<1>3. /\ UNCHANGED <<current_players, game_over, hand, first, received_card>>
      /\ \/ pc'[p] = l /\ \A q \in Players : q # p => pc'[q] = pc[q]
         \/ /\ \A q \in Players : q # p => pc[q] \in Waits
            /\ \A q \in Players : pc'[q] = IF q = p THEN After(l) ELSE After(pc[q])
  BY <1>1, <1>2, BarrierFrame DEF cards
<1>4. \A q \in Players : pc[q] # "atPass"
  BY <1>1 DEF PhaseInv, Gathering, Announcing, Passing, Leaving, Taking, Dispersing, All, Lobby
<1>5. \A q \in Players : pc'[q] = "take" <=> pc[q] = "take"
  BY <1>1, <1>3, <1>4 DEF After, Waits
<1> QED
  BY <1>3, <1>5, NoCardMoves, Stutter

\* A card that is passed is still in the hand it comes from.
LEMMA PassStutters ==
    ASSUME IInv, UNCHANGED version, NEW p \in Players, Pass(p)
    PROVE  UNCHANGED CT!vars
<1> USE DEF IInv
<1>1. /\ pc[p] = "pass" /\ pc' = [pc EXCEPT ![p] = "passed"]
      /\ UNCHANGED <<hand, game_over, current_players>>
  BY DEF Pass, Goto, table
<1>2. Passing
  BY <1>1 DEF PhaseInv, Gathering, Announcing, Leaving, Taking, Dispersing, All, Lobby
<1>3. \A q \in Players : pc[q] # "take" /\ pc'[q] # "take"
  BY <1>1, <1>2 DEF Passing, All, TypeOK
<1>4. NextHand' = NextHand
  BY <1>1, <1>3 DEF NextHand
<1> QED
  BY <1>1, <1>4, Stutter

\* A player that takes its card has the hand it was shown with.
LEMMA TakeStutters ==
    ASSUME IInv, UNCHANGED version, NEW p \in Players, Take(p)
    PROVE  UNCHANGED CT!vars
<1> USE DEF IInv
<1>1. /\ pc[p] = "take" /\ pc' = [pc EXCEPT ![p] = "taken"]
      /\ UNCHANGED <<game_over, current_players>>
      /\ hand' = [hand EXCEPT ![p] = (hand[p] \ {first[p]}) \cup ({received_card[p]} \ {NoCard})]
      /\ first' = [first EXCEPT ![p] = NoCard]
      /\ received_card' = [received_card EXCEPT ![p] = NoCard]
  BY DEF Take, Goto, table
<1>2. Taking
  BY <1>1 DEF PhaseInv, Gathering, Announcing, Passing, Leaving, Dispersing, All, Lobby
<1>3. ASSUME NEW q \in Players PROVE NextHand'[q] = NextHand[q]
  <2>1. CASE q = p
    <3>1. received_card[p] # NoCard
      BY <1>1, <1>2 DEF Taking
    <3>2. hand'[p] = (hand[p] \ {first[p]}) \cup {received_card[p]} /\ pc'[p] # "take"
      BY <1>1, <3>1 DEF TypeOK
    <3>3. QED
      BY <1>1, <2>1, <3>2 DEF NextHand
  <2>2. CASE q # p
    <3>1. UNCHANGED <<hand[q], first[q], received_card[q], pc[q]>>
      BY <1>1, <2>2 DEF TypeOK
    <3>2. QED
      BY <3>1 DEF NextHand
  <2>3. QED
    BY <2>1, <2>2
<1>4. NextHand' = NextHand
  BY <1>3 DEF NextHand
<1> QED
  BY <1>1, <1>4, Stutter

\* Nothing else moves a card, or a thread to where cards are taken.
LEMMA OthersStutter ==
    ASSUME IInv, UNCHANGED version,
           UNCHANGED <<current_players, game_over, cards>>,
           \/ pc' = pc
           \/ WakeLobby
           \/ \E p \in Players, l \in PlayerPCs :
                 pc[p] # "take" /\ l # "take" /\ pc' = [pc EXCEPT ![p] = l]
    PROVE  UNCHANGED CT!vars
<1>1. \A q \in Players : pc'[q] = "take" <=> pc[q] = "take"
  BY DEF WakeLobby, IInv, TypeOK
<1>2. NextHand' = NextHand
  BY <1>1, NoCardMoves DEF cards
<1> QED
  BY <1>2, Stutter

-----------------------------------------------------------------------------
(* The theorem *)

LEMMA PlayerRefines ==
    ASSUME IInv, UNCHANGED version, NEW p \in Players, PlayRound(p), version # "table"
    PROVE  CT!Next \/ UNCHANGED CT!vars
<1>1. ASSUME ReadGameOver(p) PROVE UNCHANGED CT!vars
  <2>1. /\ UNCHANGED <<current_players, game_over, cards>>
        /\ \E l \in PlayerPCs : pc[p] # "take" /\ l # "take" /\ pc' = [pc EXCEPT ![p] = l]
    BY <1>1 DEF ReadGameOver, Goto, table, PlayerPCs
  <2>2. QED
    BY <2>1, OthersStutter
<1> QED
  BY <1>1, BarriersStutter, CheckWins, PassStutters, PassingExchanges, TakeStutters
     DEF PlayRound, CT!Next

\* The places a thread passes on its way to the first barrier, and out.
LEMMA WayRefines ==
    ASSUME IInv, UNCHANGED version, NEW p \in Players,
           \/ PrintLock(p)
           \/ \E l \in {"none", "start", "lobby"} : PrintUnlock(p, l)
           \/ CancelledInPrint(p)
           \/ EnterLobby(p)
           \/ SpuriousWakeup(p)
           \/ LeaveTable(p)
    PROVE  UNCHANGED CT!vars
<1>1. /\ UNCHANGED <<current_players, game_over, cards>>
      /\ \E l \in PlayerPCs : pc[p] # "take" /\ l # "take" /\ pc' = [pc EXCEPT ![p] = l]
  <2> USE DEF Goto, table, PlayerPCs
  <2>1. CASE PrintLock(p)
    BY <2>1 DEF PrintLock
  <2>2. CASE \E l \in {"none", "start", "lobby"} : PrintUnlock(p, l)
    BY <2>2 DEF PrintUnlock
  <2>3. CASE CancelledInPrint(p)
    BY <2>3 DEF CancelledInPrint
  <2>4. CASE EnterLobby(p)
    BY <2>4 DEF EnterLobby, IInv, TypeOK
  <2>5. CASE SpuriousWakeup(p)
    BY <2>5 DEF SpuriousWakeup
  <2>6. CASE LeaveTable(p)
    BY <2>6 DEF LeaveTable
  <2>7. QED
    BY <2>1, <2>2, <2>3, <2>4, <2>5, <2>6
<1> QED
  BY <1>1, OthersStutter

LEMMA MainRefines ==
    ASSUME IInv, UNCHANGED version, StageMain
    PROVE  CT!Next \/ UNCHANGED CT!vars
<1>1. CASE Seat \/ SeatNext
  BY <1>1, SeatDeals DEF Seat, CT!Next
<1>2. CASE ResetTable
  BY <1>2, ResetClears DEF CT!Next
<1>3. CASE StartGame \/ CloseLobby
  BY <1>3, OthersStutter DEF StartGame, CloseLobby
<1>4. CASE \/ CancelJoin \/ ExitAfterJoin \/ SigintCancel \/ ExitAfterCancel \/ ExitAfterGame
           \/ \E p \in Players : CancelPlayer(p)
  <2>1. UNCHANGED <<current_players, game_over, cards, pc>>
    BY <1>4 DEF CancelJoin, ExitAfterJoin, SigintCancel, ExitAfterCancel, ExitAfterGame,
                CancelPlayer, table
  <2>2. QED
    BY <2>1, OthersStutter
<1> QED
  BY <1>1, <1>2, <1>3, <1>4
     DEF StageMain, DealMain, TableMain, RoundsMain, CancelMainStep, MainStep, IInv, MainInv,
         Versions

LEMMA ThreadRefines ==
    ASSUME IInv, UNCHANGED version, NEW p \in Players, StageThread(p)
    PROVE  CT!Next \/ UNCHANGED CT!vars
<1>1. CASE version = "deal"
  BY <1>1, WayRefines DEF StageThread, DealThread
<1>2. CASE version = "table"
  BY <1>2, WayRefines, BarriersStutter DEF StageThread, TableThread
<1>3. CASE version = "rounds"
  BY <1>3, WayRefines, PlayerRefines DEF StageThread, RoundsThread
<1>4. CASE version = "cancel"
  BY <1>4, WayRefines, PlayerRefines DEF StageThread, CancelPlayerStep
<1>5. CASE version = "lobby"
  BY <1>5, WayRefines, PlayerRefines DEF StageThread, PlayerStep
<1> QED
  BY <1>1, <1>2, <1>3, <1>4, <1>5 DEF IInv, MainInv, Versions

LEMMA StepRefines == IInv /\ [StagesNext]_stagevars => [CT!Next]_CT!vars
<1> SUFFICES ASSUME IInv, [StagesNext]_stagevars PROVE CT!Next \/ UNCHANGED CT!vars
  OBVIOUS
<1>1. CASE UNCHANGED stagevars
  <2>1. UNCHANGED <<current_players, game_over, cards, pc, version>>
    BY <1>1 DEF stagevars, vars, table
  <2>2. QED
    BY <2>1, OthersStutter
<1>2. ASSUME UNCHANGED version, NEW s \in Handled, SendSignal(s) PROVE UNCHANGED CT!vars
  <2>1. UNCHANGED <<current_players, game_over, cards, pc>>
    BY <1>2 DEF SendSignal, table
  <2>2. QED
    BY <1>2, <2>1, OthersStutter
<1> QED
  BY <1>1, <1>2, MainRefines, ThreadRefines DEF StagesNext

\* The card game implements the table whose rounds are one step: every card
\* moves to the right at once, no card moves once somebody holds a winning hand,
\* and a table on which a game is played is cleared only when it has been won.
THEOREM TableRefinement == StagesSpec => ImplementsCardTable
BY Invariance, InitTable, StepRefines, PTL DEF StagesSpec, ImplementsCardTable, CT!Spec
=============================================================================
