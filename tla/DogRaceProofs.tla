---------------------------- MODULE DogRaceProofs ----------------------------
(***************************************************************************)
(* Theorems about DogRace for every number of dogs, every track length and *)
(* every longest jump.                                                     *)
(***************************************************************************)
EXTENDS DogRace, FiniteSetTheorems, TLAPS

-----------------------------------------------------------------------------
(* Lemmas about the sets of dogs that are counted *)

\* The dogs on a cell are finitely many.
LEMMA OnTrackFinite ==
    \A i : IsFiniteSet(OnTrack(i)) /\ Cardinality(OnTrack(i)) \in Nat
<1>1. \A i : OnTrack(i) \in SUBSET Dogs
  BY DEF OnTrack
<1>2. QED
  BY <1>1, DogsAssumption, FS_Subset, FS_CardinalityType

\* So are the dogs that have been counted at the finish.
LEMMA ArrivedFinite ==
    /\ IsFiniteSet(Arrived)
    /\ Cardinality(Arrived) \in Nat
    /\ Cardinality(Dogs) \in Nat
    /\ Cardinality(Arrived) <= Cardinality(Dogs)
<1>1. Arrived \in SUBSET Dogs
  BY DEF Arrived
<1>2. QED
  BY <1>1, DogsAssumption, FS_Subset, FS_CardinalityType

-----------------------------------------------------------------------------
(* Each part of the invariant is kept by every step *)

\* A dog's position and the cell it wants stay in step with its control.
LEMMA PositionsStep ==
    TypeOK /\ Positions /\ [Next]_vars => Positions'
<1> SUFFICES ASSUME TypeOK, Positions, [Next]_vars PROVE Positions'
  OBVIOUS
<1>0. /\ dpc \in [Dogs -> DogPCs]
      /\ pos \in [Dogs -> Cells]
      /\ next_pos \in [Dogs -> Cells]
  BY DEF TypeOK
<1> USE <1>0 DEF Positions, Moving, DogPCs, Cells, Finish, dogs
<1>1. ASSUME NEW d \in Dogs, Place(d) PROVE Positions'
  BY <1>1, LengthAssumption, JumpAssumption DEF Place, Goto
<1>2. ASSUME NEW d \in Dogs, Wake(d) PROVE Positions'
  BY <1>2, LengthAssumption, JumpAssumption DEF Wake, Goto
<1>3. ASSUME NEW d \in Dogs, LockFirst(d) PROVE Positions'
  BY <1>3 DEF LockFirst, Goto, Lock
<1>4. ASSUME NEW d \in Dogs, LockSecond(d) PROVE Positions'
  BY <1>4 DEF LockSecond, Goto, Lock
<1>5. ASSUME NEW d \in Dogs, Check(d) PROVE Positions'
  BY <1>5, LengthAssumption, JumpAssumption DEF Check, Goto, Collides
<1>6. ASSUME NEW d \in Dogs, Waf(d) PROVE Positions'
  BY <1>6 DEF Waf, Goto, Unlock
<1>7. ASSUME NEW d \in Dogs, Move(d) PROVE Positions'
  BY <1>7, LengthAssumption, JumpAssumption DEF Move, Goto, Unlock
<1>8. ASSUME NEW d \in Dogs, RecordFinish(d) PROVE Positions'
  BY <1>8 DEF RecordFinish, Goto
<1>9. ASSUME NEW d \in Dogs, CancelDog(d) PROVE Positions'
  BY <1>9 DEF CancelDog, Goto, Cancellable
<1>10. CASE LoopTurn
  BY <1>10 DEF LoopTurn
<1>11. CASE LockAll
  BY <1>11 DEF LockAll, Lock
<1>12. CASE PrintTrack
  BY <1>12 DEF PrintTrack, Unlock
<1>13. CASE CancelNext
  BY <1>13 DEF CancelNext
<1>14. CASE JoinAll
  BY <1>14 DEF JoinAll
<1>15. CASE Sigint
  BY <1>15 DEF Sigint
<1>16. CASE UNCHANGED vars
  BY <1>16 DEF vars
<1>17. QED
  BY <1>1, <1>2, <1>3, <1>4, <1>5, <1>6, <1>7, <1>8, <1>9,
     <1>10, <1>11, <1>12, <1>13, <1>14, <1>15, <1>16
     DEF Next, DogStep, Dog3, MainStep, Main3, Terminated

\* A dog gets a mutex by locking it, and nobody takes it away.
LEMMA HoldersStep ==
    TypeOK /\ Positions /\ HoldersOwn /\ [Next]_vars => HoldersOwn'
<1> SUFFICES ASSUME TypeOK, Positions, HoldersOwn, [Next]_vars PROVE HoldersOwn'
  OBVIOUS
<1>0. /\ dpc \in [Dogs -> DogPCs]
      /\ pos \in [Dogs -> Cells]
      /\ next_pos \in [Dogs -> Cells]
      /\ mx_track \in [Cells -> Dogs \cup {Main, Nobody}]
  BY DEF TypeOK
<1> USE <1>0 DEF Positions, HoldersOwn, Moving, HoldsFirst, HoldsBoth, DogPCs, Cells, Finish, dogs
<1>1. ASSUME NEW d \in Dogs, Place(d) PROVE HoldersOwn'
  BY <1>1, DogsAssumption DEF Place, Goto
<1>2. ASSUME NEW d \in Dogs, Wake(d) PROVE HoldersOwn'
  BY <1>2, DogsAssumption DEF Wake, Goto
<1>3. ASSUME NEW d \in Dogs, LockFirst(d) PROVE HoldersOwn'
  BY <1>3, DogsAssumption DEF LockFirst, Goto, Lock
<1>4. ASSUME NEW d \in Dogs, LockSecond(d) PROVE HoldersOwn'
  BY <1>4, DogsAssumption DEF LockSecond, Goto, Lock
<1>5. ASSUME NEW d \in Dogs, Check(d) PROVE HoldersOwn'
  BY <1>5, DogsAssumption DEF Check, Goto, Collides
<1>6. ASSUME NEW d \in Dogs, Waf(d) PROVE HoldersOwn'
  BY <1>6, DogsAssumption DEF Waf, Goto, Unlock
<1>7. ASSUME NEW d \in Dogs, Move(d) PROVE HoldersOwn'
  BY <1>7, DogsAssumption DEF Move, Goto, Unlock
<1>8. ASSUME NEW d \in Dogs, RecordFinish(d) PROVE HoldersOwn'
  BY <1>8, DogsAssumption DEF RecordFinish, Goto
<1>9. ASSUME NEW d \in Dogs, CancelDog(d) PROVE HoldersOwn'
  BY <1>9, DogsAssumption DEF CancelDog, Goto, Cancellable
<1>10. CASE LoopTurn
  BY <1>10, DogsAssumption DEF LoopTurn
<1>11. CASE LockAll
  BY <1>11, DogsAssumption DEF LockAll, Lock
<1>12. CASE PrintTrack
  BY <1>12, DogsAssumption DEF PrintTrack, Unlock
<1>13. CASE CancelNext
  BY <1>13, DogsAssumption DEF CancelNext
<1>14. CASE JoinAll
  BY <1>14, DogsAssumption DEF JoinAll
<1>15. CASE Sigint
  BY <1>15, DogsAssumption DEF Sigint
<1>16. CASE UNCHANGED vars
  BY <1>16 DEF vars
<1>17. QED
  BY <1>1, <1>2, <1>3, <1>4, <1>5, <1>6, <1>7, <1>8, <1>9,
     <1>10, <1>11, <1>12, <1>13, <1>14, <1>15, <1>16
     DEF Next, DogStep, Dog3, MainStep, Main3, Terminated

\* A dog gives its mutexes back before it leaves the section that needs them.
LEMMA OwnersStep ==
    TypeOK /\ HoldersOwn /\ OwnersHold /\ [Next]_vars => OwnersHold'
<1> SUFFICES ASSUME TypeOK, HoldersOwn, OwnersHold, [Next]_vars PROVE OwnersHold'
  OBVIOUS
<1>0. /\ dpc \in [Dogs -> DogPCs]
      /\ pos \in [Dogs -> Cells]
      /\ next_pos \in [Dogs -> Cells]
      /\ mx_track \in [Cells -> Dogs \cup {Main, Nobody}]
  BY DEF TypeOK
<1> USE <1>0 DEF OwnersHold, HoldsFirst, HoldsBoth, DogPCs, Cells, dogs
<1>1. ASSUME NEW d \in Dogs, Place(d) PROVE OwnersHold'
  BY <1>1, DogsAssumption DEF Place, Goto
<1>2. ASSUME NEW d \in Dogs, Wake(d) PROVE OwnersHold'
  BY <1>2, DogsAssumption DEF Wake, Goto
<1>3. ASSUME NEW d \in Dogs, LockFirst(d) PROVE OwnersHold'
  BY <1>3, DogsAssumption DEF LockFirst, Goto, Lock
<1>4. ASSUME NEW d \in Dogs, LockSecond(d) PROVE OwnersHold'
  BY <1>4, DogsAssumption DEF LockSecond, Goto, Lock
<1>5. ASSUME NEW d \in Dogs, Check(d) PROVE OwnersHold'
  BY <1>5, DogsAssumption DEF Check, Goto, Collides
<1>6. ASSUME NEW d \in Dogs, Waf(d) PROVE OwnersHold'
  BY <1>6, DogsAssumption DEF Waf, Goto, Unlock
<1>7. ASSUME NEW d \in Dogs, Move(d) PROVE OwnersHold'
  BY <1>7, DogsAssumption DEF Move, Goto, Unlock
<1>8. ASSUME NEW d \in Dogs, RecordFinish(d) PROVE OwnersHold'
  BY <1>8, DogsAssumption DEF RecordFinish, Goto
<1>9. ASSUME NEW d \in Dogs, CancelDog(d) PROVE OwnersHold'
  BY <1>9, DogsAssumption DEF CancelDog, Goto, Cancellable
<1>10. CASE LoopTurn
  BY <1>10, DogsAssumption DEF LoopTurn
<1>11. CASE LockAll
  <2>1. \A i \in Cells, d \in Dogs : mx_track'[i] = d => mx_track[i] = d
    <3>1. \/ mx_track' = mx_track
          \/ \E j \in Cells : mx_track' = [mx_track EXCEPT ![j] = Main]
      BY <1>11 DEF LockAll, Lock
    <3>2. ASSUME NEW j \in Cells, mx_track' = [mx_track EXCEPT ![j] = Main],
                 NEW i \in Cells, NEW d \in Dogs, mx_track'[i] = d
          PROVE  mx_track[i] = d
      <4>1. Main # d
        BY DogsAssumption
      <4>2. QED
        BY <3>2, <4>1
    <3>3. QED
      BY <3>1, <3>2
  <2>2. UNCHANGED dogs
    BY <1>11 DEF LockAll
  <2>3. QED
    BY <2>1, <2>2
<1>12. CASE PrintTrack
  BY <1>12, DogsAssumption DEF PrintTrack, Unlock
<1>13. CASE CancelNext
  BY <1>13, DogsAssumption DEF CancelNext
<1>14. CASE JoinAll
  BY <1>14, DogsAssumption DEF JoinAll
<1>15. CASE Sigint
  BY <1>15, DogsAssumption DEF Sigint
<1>16. CASE UNCHANGED vars
  BY <1>16 DEF vars
<1>17. QED
  BY <1>1, <1>2, <1>3, <1>4, <1>5, <1>6, <1>7, <1>8, <1>9,
     <1>10, <1>11, <1>12, <1>13, <1>14, <1>15, <1>16
     DEF Next, DogStep, Dog3, MainStep, Main3, Terminated

\* Main has all the mutexes exactly while it prints.
LEMMA MainOwnsStep ==
    TypeOK /\ MainOwns /\ [Next]_vars => MainOwns'
<1> SUFFICES ASSUME TypeOK, MainOwns, [Next]_vars PROVE MainOwns'
  OBVIOUS
<1>0. /\ mx_track \in [Cells -> Dogs \cup {Main, Nobody}]
      /\ mx_finish \in {Main, Nobody}
  BY DEF TypeOK
<1> USE <1>0 DEF MainOwns, Cells, dogs
<1>1. ASSUME NEW d \in Dogs, Place(d) PROVE MainOwns'
  BY <1>1, DogsAssumption DEF Place, Goto
<1>2. ASSUME NEW d \in Dogs, Wake(d) PROVE MainOwns'
  BY <1>2, DogsAssumption DEF Wake, Goto
<1>3. ASSUME NEW d \in Dogs, LockFirst(d) PROVE MainOwns'
  BY <1>3, DogsAssumption DEF LockFirst, Goto, Lock
<1>4. ASSUME NEW d \in Dogs, LockSecond(d) PROVE MainOwns'
  BY <1>4, DogsAssumption DEF LockSecond, Goto, Lock
<1>5. ASSUME NEW d \in Dogs, Check(d) PROVE MainOwns'
  BY <1>5, DogsAssumption DEF Check, Goto, Collides
<1>6. ASSUME NEW d \in Dogs, Waf(d) PROVE MainOwns'
  BY <1>6, DogsAssumption DEF Waf, Goto, Unlock
<1>7. ASSUME NEW d \in Dogs, Move(d) PROVE MainOwns'
  BY <1>7, DogsAssumption DEF Move, Goto, Unlock
<1>8. ASSUME NEW d \in Dogs, RecordFinish(d) PROVE MainOwns'
  BY <1>8, DogsAssumption DEF RecordFinish, Goto
<1>9. ASSUME NEW d \in Dogs, CancelDog(d) PROVE MainOwns'
  BY <1>9, DogsAssumption DEF CancelDog, Goto, Cancellable
<1>10. CASE LoopTurn
  BY <1>10, DogsAssumption DEF LoopTurn
<1>11. CASE LockAll
  <2>1. CASE UNCHANGED <<mx_finish, mpc>>
    BY <1>11, <2>1, DogsAssumption DEF LockAll, Lock
  <2>2. CASE mpc' = "snapshot"
    BY <1>11, <2>2, DogsAssumption DEF LockAll, Lock
  <2>3. QED
    BY <1>11, <2>1, <2>2 DEF LockAll
<1>12. CASE PrintTrack
  BY <1>12, DogsAssumption DEF PrintTrack, Unlock
<1>13. CASE CancelNext
  BY <1>13, DogsAssumption DEF CancelNext
<1>14. CASE JoinAll
  BY <1>14, DogsAssumption DEF JoinAll
<1>15. CASE Sigint
  BY <1>15, DogsAssumption DEF Sigint
<1>16. CASE UNCHANGED vars
  BY <1>16 DEF vars
<1>17. QED
  BY <1>1, <1>2, <1>3, <1>4, <1>5, <1>6, <1>7, <1>8, <1>9,
     <1>10, <1>11, <1>12, <1>13, <1>14, <1>15, <1>16
     DEF Next, DogStep, Dog3, MainStep, Main3, Terminated

-----------------------------------------------------------------------------
(* The counts *)

\* A dog appears on the first cell when it is placed, changes cells when it
\* moves, and stays where it is otherwise.
LEMMA OnTrackStep ==
    ASSUME TypeOK, Positions, [Next]_vars
    PROVE  \/ UNCHANGED track /\ \A i : OnTrack(i)' = OnTrack(i)
           \/ \E d \in Dogs : Place(d) \/ Move(d)
<1>1. ASSUME UNCHANGED pos,
             \A d \in Dogs : dpc[d] = "place" <=> dpc'[d] = "place"
      PROVE  \A i : OnTrack(i)' = OnTrack(i)
  BY <1>1 DEF OnTrack
<1>2. dpc \in [Dogs -> DogPCs]
  BY DEF TypeOK
<1>3. ASSUME NEW d \in Dogs, Wake(d)
      PROVE  UNCHANGED track /\ \A i : OnTrack(i)' = OnTrack(i)
  BY <1>1, <1>2, <1>3 DEF Wake, Goto
<1>4. ASSUME NEW d \in Dogs, LockFirst(d)
      PROVE  UNCHANGED track /\ \A i : OnTrack(i)' = OnTrack(i)
  BY <1>1, <1>2, <1>4 DEF LockFirst, Goto
<1>5. ASSUME NEW d \in Dogs, LockSecond(d)
      PROVE  UNCHANGED track /\ \A i : OnTrack(i)' = OnTrack(i)
  BY <1>1, <1>2, <1>5 DEF LockSecond, Goto
<1>6. ASSUME NEW d \in Dogs, Check(d)
      PROVE  UNCHANGED track /\ \A i : OnTrack(i)' = OnTrack(i)
  BY <1>1, <1>2, <1>6 DEF Check, Goto
<1>7. ASSUME NEW d \in Dogs, Waf(d)
      PROVE  UNCHANGED track /\ \A i : OnTrack(i)' = OnTrack(i)
  BY <1>1, <1>2, <1>7 DEF Waf, Goto
<1>8. ASSUME NEW d \in Dogs, RecordFinish(d)
      PROVE  UNCHANGED track /\ \A i : OnTrack(i)' = OnTrack(i)
  BY <1>1, <1>2, <1>8 DEF RecordFinish, Goto
<1>9. ASSUME NEW d \in Dogs, CancelDog(d)
      PROVE  UNCHANGED track /\ \A i : OnTrack(i)' = OnTrack(i)
  BY <1>1, <1>2, <1>9 DEF CancelDog, Goto, Cancellable
<1>10. CASE LoopTurn
  BY <1>1, <1>10 DEF LoopTurn, dogs
<1>11. CASE LockAll
  BY <1>1, <1>11 DEF LockAll, dogs
<1>12. CASE PrintTrack
  BY <1>1, <1>12 DEF PrintTrack, dogs
<1>13. CASE CancelNext
  BY <1>1, <1>13 DEF CancelNext, dogs
<1>14. CASE JoinAll
  BY <1>1, <1>14 DEF JoinAll, dogs
<1>15. CASE Sigint
  BY <1>1, <1>15 DEF Sigint, dogs
<1>16. CASE UNCHANGED vars
  BY <1>1, <1>16 DEF vars, dogs
<1>17. QED
  BY <1>3, <1>4, <1>5, <1>6, <1>7, <1>8, <1>9, <1>10, <1>11,
     <1>12, <1>13, <1>14, <1>15, <1>16
     DEF Next, DogStep, Dog3, MainStep, Main3, Terminated

\* Each cell goes on counting its dogs: a move takes the dog from the one cell and
\* adds it to the other, which differ.
LEMMA TrackCountsStep ==
    TypeOK /\ Positions /\ TrackCounts /\ [Next]_vars => TrackCounts'
<1> SUFFICES ASSUME TypeOK, Positions, TrackCounts, [Next]_vars,
                    NEW i \in Cells
             PROVE  track'[i] = Cardinality(OnTrack(i)')
  BY DEF TrackCounts
<1>1. CASE UNCHANGED track /\ \A j : OnTrack(j)' = OnTrack(j)
  BY <1>1 DEF TrackCounts
<1>2. ASSUME NEW d \in Dogs, Place(d) PROVE track'[i] = Cardinality(OnTrack(i)')
  <2>1. OnTrack(i)' = IF i = 0 THEN OnTrack(i) \cup {d} ELSE OnTrack(i)
    BY <1>2 DEF Place, Goto, OnTrack, TypeOK, Positions
  <2>2. d \notin OnTrack(i)
    BY <1>2 DEF Place, OnTrack
  <2>3. track'[i] = IF i = 0 THEN track[i] + 1 ELSE track[i]
    BY <1>2 DEF Place, TypeOK
  <2>4. Cardinality(OnTrack(i) \cup {d}) = Cardinality(OnTrack(i)) + 1
    BY <2>2, OnTrackFinite, FS_AddElement
  <2>5. track[i] = Cardinality(OnTrack(i))
    BY DEF TrackCounts
  <2>6. QED
    BY <2>1, <2>3, <2>4, <2>5
<1>3. ASSUME NEW d \in Dogs, Move(d) PROVE track'[i] = Cardinality(OnTrack(i)')
  <2>1. pos[d] # next_pos[d] /\ d \in OnTrack(pos[d]) /\ d \notin OnTrack(next_pos[d])
    BY <1>3 DEF Move, OnTrack, TypeOK, Positions, Moving, Cells
  <2>2. OnTrack(i)' = IF i = pos[d] THEN OnTrack(i) \ {d}
                      ELSE IF i = next_pos[d] THEN OnTrack(i) \cup {d} ELSE OnTrack(i)
    BY <1>3, <2>1 DEF Move, Goto, OnTrack, TypeOK
  <2>3. track'[i] = IF i = pos[d] THEN track[i] - 1
                    ELSE IF i = next_pos[d] THEN track[i] + 1 ELSE track[i]
    BY <1>3, <2>1 DEF Move, TypeOK
  <2>4. track[i] = Cardinality(OnTrack(i))
    BY DEF TrackCounts
  <2>5. CASE i = pos[d]
    <3>1. Cardinality(OnTrack(i) \ {d}) = Cardinality(OnTrack(i)) - 1
      BY <2>1, <2>5, OnTrackFinite, FS_RemoveElement
    <3>2. QED
      BY <2>2, <2>3, <2>4, <2>5, <3>1
  <2>6. CASE i = next_pos[d]
    <3>1. Cardinality(OnTrack(i) \cup {d}) = Cardinality(OnTrack(i)) + 1
      BY <2>1, <2>6, OnTrackFinite, FS_AddElement
    <3>2. QED
      BY <2>1, <2>2, <2>3, <2>4, <2>6, <3>1
  <2>7. QED
    BY <2>2, <2>3, <2>4, <2>5, <2>6
<1>4. QED
  BY <1>1, <1>2, <1>3, OnTrackStep

\* Only the section under mx_finish adds a dog to those that have arrived: a dog
\* that is cancelled is not on the last cell.
LEMMA ArrivedStep ==
    ASSUME TypeOK, Positions, [Next]_vars
    PROVE  \/ UNCHANGED race /\ Arrived' = Arrived
           \/ \E d \in Dogs : /\ RecordFinish(d)
                             /\ d \notin Arrived
                             /\ Arrived' = Arrived \cup {d}
<1> USE DEF race
<1>0. /\ dpc \in [Dogs -> DogPCs]
      /\ pos \in [Dogs -> Cells]
  BY DEF TypeOK
<1>1. ASSUME NEW d \in Dogs, Place(d) PROVE UNCHANGED race /\ Arrived' = Arrived
  BY <1>0, <1>1 DEF Place, Goto, Arrived
<1>2. ASSUME NEW d \in Dogs, Wake(d) PROVE UNCHANGED race /\ Arrived' = Arrived
  BY <1>0, <1>2 DEF Wake, Goto, Arrived
<1>3. ASSUME NEW d \in Dogs, LockFirst(d) PROVE UNCHANGED race /\ Arrived' = Arrived
  BY <1>0, <1>3 DEF LockFirst, Goto, Arrived
<1>4. ASSUME NEW d \in Dogs, LockSecond(d) PROVE UNCHANGED race /\ Arrived' = Arrived
  BY <1>0, <1>4 DEF LockSecond, Goto, Arrived
<1>5. ASSUME NEW d \in Dogs, Check(d) PROVE UNCHANGED race /\ Arrived' = Arrived
  BY <1>0, <1>5 DEF Check, Goto, Arrived
<1>6. ASSUME NEW d \in Dogs, Waf(d) PROVE UNCHANGED race /\ Arrived' = Arrived
  BY <1>0, <1>6 DEF Waf, Goto, Arrived
<1>7. ASSUME NEW d \in Dogs, Move(d) PROVE UNCHANGED race /\ Arrived' = Arrived
  BY <1>0, <1>7 DEF Move, Goto, Arrived
<1>8. ASSUME NEW d \in Dogs, RecordFinish(d)
      PROVE  d \notin Arrived /\ Arrived' = Arrived \cup {d}
  BY <1>0, <1>8 DEF RecordFinish, Goto, Arrived, Positions
<1>9. ASSUME NEW d \in Dogs, CancelDog(d) PROVE UNCHANGED race /\ Arrived' = Arrived
  BY <1>0, <1>9, LengthAssumption DEF CancelDog, Goto, Cancellable, Arrived, Positions, Cells, Finish
<1>10. CASE LoopTurn
  BY <1>10 DEF LoopTurn, Arrived, dogs
<1>11. CASE LockAll
  BY <1>11 DEF LockAll, Arrived, dogs
<1>12. CASE PrintTrack
  BY <1>12 DEF PrintTrack, Arrived, dogs
<1>13. CASE CancelNext
  BY <1>13 DEF CancelNext, Arrived, dogs
<1>14. CASE JoinAll
  BY <1>14 DEF JoinAll, Arrived, dogs
<1>15. CASE Sigint
  BY <1>15 DEF Sigint, Arrived, dogs
<1>16. CASE UNCHANGED vars
  BY <1>16 DEF vars, Arrived, dogs
<1>17. QED
  BY <1>1, <1>2, <1>3, <1>4, <1>5, <1>6, <1>7, <1>8, <1>9,
     <1>10, <1>11, <1>12, <1>13, <1>14, <1>15, <1>16
     DEF Next, DogStep, Dog3, MainStep, Main3, Terminated

\* finished_count goes on counting them.
LEMMA FinishCountsStep ==
    TypeOK /\ Positions /\ FinishCounts /\ [Next]_vars => FinishCounts'
<1> SUFFICES ASSUME TypeOK, Positions, FinishCounts, [Next]_vars PROVE FinishCounts'
  OBVIOUS
<1>1. CASE UNCHANGED race /\ Arrived' = Arrived
  BY <1>1 DEF FinishCounts, race
<1>2. ASSUME NEW d \in Dogs, RecordFinish(d), d \notin Arrived, Arrived' = Arrived \cup {d}
      PROVE  FinishCounts'
  <2>1. Cardinality(Arrived') = Cardinality(Arrived) + 1
    BY <1>2, ArrivedFinite, FS_AddElement
  <2>2. QED
    BY <1>2, <2>1 DEF FinishCounts, RecordFinish
<1>3. QED
  BY <1>1, <1>2, ArrivedStep

\* A dog is recorded at the next free place of the podium, or on none.
LEMMA RecordedStep ==
    TypeOK /\ Positions /\ Recorded /\ [Next]_vars => Recorded'
<1> SUFFICES ASSUME TypeOK, Positions, Recorded, [Next]_vars PROVE Recorded'
  OBVIOUS
<1>1. CASE UNCHANGED race /\ Arrived' = Arrived
  BY <1>1 DEF Recorded, race
<1>2. ASSUME NEW d \in Dogs, RecordFinish(d), d \notin Arrived, Arrived' = Arrived \cup {d}
      PROVE  Recorded'
  <2>1. /\ winners \in [1 .. 3 -> Dogs \cup {Nobody}]
        /\ finished_count \in Nat
        /\ finished_count' = finished_count + 1
        /\ winners' = IF finished_count + 1 <= 3
                      THEN [winners EXCEPT ![finished_count + 1] = d]
                      ELSE winners
    BY <1>2, ArrivedFinite DEF RecordFinish, TypeOK
  <2>2. CASE finished_count + 1 <= 3
    BY <1>2, <2>1, <2>2, DogsAssumption DEF Recorded
  <2>3. CASE finished_count + 1 > 3
    BY <1>2, <2>1, <2>3 DEF Recorded
  <2>4. QED
    BY <2>1, <2>2, <2>3
<1>3. QED
  BY <1>1, <1>2, ArrivedStep

\* Nobody steps on a cell whose mutex another dog holds, so what a dog saw there
\* stays true until it moves.
LEMMA CheckHoldsStep ==
    TypeOK /\ Positions /\ HoldersOwn /\ TrackCounts /\ CheckHolds /\ [Next]_vars => CheckHolds'
<1> SUFFICES ASSUME TypeOK, Positions, HoldersOwn, TrackCounts, CheckHolds, [Next]_vars PROVE CheckHolds'
  OBVIOUS
<1>0. /\ dpc \in [Dogs -> DogPCs]
      /\ pos \in [Dogs -> Cells]
      /\ next_pos \in [Dogs -> Cells]
      /\ mx_track \in [Cells -> Dogs \cup {Main, Nobody}]
      /\ track \in [Cells -> Int]
  BY DEF TypeOK
<1> USE <1>0 DEF CheckHolds, Cells, dogs, DogPCs
<1>1. ASSUME NEW d \in Dogs, Place(d) PROVE CheckHolds'
  BY <1>1, DogsAssumption, LengthAssumption DEF Place, Goto, Positions, HoldersOwn, HoldsBoth, Moving
<1>2. ASSUME NEW d \in Dogs, Wake(d) PROVE CheckHolds'
  BY <1>2 DEF Wake, Goto
<1>3. ASSUME NEW d \in Dogs, LockFirst(d) PROVE CheckHolds'
  BY <1>3 DEF LockFirst, Goto, Lock
<1>4. ASSUME NEW d \in Dogs, LockSecond(d) PROVE CheckHolds'
  BY <1>4 DEF LockSecond, Goto, Lock
<1>5. ASSUME NEW d \in Dogs, Check(d) PROVE CheckHolds'
  BY <1>5, OnTrackFinite DEF Check, Goto, Collides, TrackCounts
<1>6. ASSUME NEW d \in Dogs, Waf(d) PROVE CheckHolds'
  BY <1>6 DEF Waf, Goto, Unlock
<1>7. ASSUME NEW d \in Dogs, Move(d) PROVE CheckHolds'
  BY <1>7 DEF Move, Goto, Unlock, HoldersOwn, HoldsFirst, HoldsBoth, Positions, Moving
<1>8. ASSUME NEW d \in Dogs, RecordFinish(d) PROVE CheckHolds'
  BY <1>8 DEF RecordFinish, Goto
<1>9. ASSUME NEW d \in Dogs, CancelDog(d) PROVE CheckHolds'
  BY <1>9 DEF CancelDog, Goto, Cancellable
<1>10. CASE LoopTurn
  BY <1>10 DEF LoopTurn
<1>11. CASE LockAll
  BY <1>11 DEF LockAll, Lock
<1>12. CASE PrintTrack
  BY <1>12 DEF PrintTrack, Unlock
<1>13. CASE CancelNext
  BY <1>13 DEF CancelNext
<1>14. CASE JoinAll
  BY <1>14 DEF JoinAll
<1>15. CASE Sigint
  BY <1>15 DEF Sigint
<1>16. CASE UNCHANGED vars
  BY <1>16 DEF vars
<1>17. QED
  BY <1>1, <1>2, <1>3, <1>4, <1>5, <1>6, <1>7, <1>8, <1>9,
     <1>10, <1>11, <1>12, <1>13, <1>14, <1>15, <1>16
     DEF Next, DogStep, Dog3, MainStep, Main3, Terminated

\* A dog moves to a cell it found empty, or to the last one.
LEMMA CellExclusiveStep ==
    TypeOK /\ Positions /\ CheckHolds /\ CellExclusive /\ [Next]_vars => CellExclusive'
<1> SUFFICES ASSUME TypeOK, Positions, CheckHolds, CellExclusive, [Next]_vars PROVE CellExclusive'
  OBVIOUS
<1>0. /\ dpc \in [Dogs -> DogPCs]
      /\ pos \in [Dogs -> Cells]
      /\ next_pos \in [Dogs -> Cells]
      /\ track \in [Cells -> Int]
  BY DEF TypeOK
<1> USE <1>0 DEF CellExclusive, Cells, dogs
<1>1. ASSUME NEW d \in Dogs, Place(d) PROVE CellExclusive'
  BY <1>1, LengthAssumption DEF Place, Goto
<1>2. ASSUME NEW d \in Dogs, Wake(d) PROVE CellExclusive'
  BY <1>2 DEF Wake, Goto
<1>3. ASSUME NEW d \in Dogs, LockFirst(d) PROVE CellExclusive'
  BY <1>3 DEF LockFirst, Goto, Lock
<1>4. ASSUME NEW d \in Dogs, LockSecond(d) PROVE CellExclusive'
  BY <1>4 DEF LockSecond, Goto, Lock
<1>5. ASSUME NEW d \in Dogs, Check(d) PROVE CellExclusive'
  BY <1>5 DEF Check, Goto, Collides
<1>6. ASSUME NEW d \in Dogs, Waf(d) PROVE CellExclusive'
  BY <1>6 DEF Waf, Goto, Unlock
<1>7. ASSUME NEW d \in Dogs, Move(d) PROVE CellExclusive'
  <2>1. /\ next_pos[d] = Finish \/ track[next_pos[d]] = 0
        /\ pos[d] # next_pos[d]
    BY <1>7 DEF Move, CheckHolds, Positions, Moving
  <2>2. \A i \in Cells : track'[i] = IF i = pos[d] THEN track[i] - 1
                                   ELSE IF i = next_pos[d] THEN track[i] + 1 ELSE track[i]
    BY <1>7, <2>1 DEF Move
  <2>3. ASSUME NEW i \in Cells \ {0, Finish} PROVE track'[i] <= 1
    <3>1. track[i] <= 1 /\ track[i] \in Int
      OBVIOUS
    <3>2. CASE i = next_pos[d]
      BY <2>1, <2>2, <3>2
    <3>3. QED
      BY <2>2, <3>1, <3>2
  <2>4. QED
    BY <2>3
<1>8. ASSUME NEW d \in Dogs, RecordFinish(d) PROVE CellExclusive'
  BY <1>8 DEF RecordFinish, Goto
<1>9. ASSUME NEW d \in Dogs, CancelDog(d) PROVE CellExclusive'
  BY <1>9 DEF CancelDog, Goto, Cancellable
<1>10. CASE LoopTurn
  BY <1>10 DEF LoopTurn
<1>11. CASE LockAll
  BY <1>11 DEF LockAll, Lock
<1>12. CASE PrintTrack
  BY <1>12 DEF PrintTrack, Unlock
<1>13. CASE CancelNext
  BY <1>13 DEF CancelNext
<1>14. CASE JoinAll
  BY <1>14 DEF JoinAll
<1>15. CASE Sigint
  BY <1>15 DEF Sigint
<1>16. CASE UNCHANGED vars
  BY <1>16 DEF vars
<1>17. QED
  BY <1>1, <1>2, <1>3, <1>4, <1>5, <1>6, <1>7, <1>8, <1>9,
     <1>10, <1>11, <1>12, <1>13, <1>14, <1>15, <1>16
     DEF Next, DogStep, Dog3, MainStep, Main3, Terminated

\* Main decides on facts that stay true.
LEMMA MainKnowsStep ==
    TypeOK /\ MainKnows /\ [Next]_vars => MainKnows'
<1> SUFFICES ASSUME TypeOK, MainKnows, [Next]_vars PROVE MainKnows'
  OBVIOUS
<1>0. /\ dpc \in [Dogs -> DogPCs]
      /\ finished_count \in 0 .. Cardinality(Dogs)
      /\ mpc \in MainPCs
      /\ sigint_received \in {0, 1}
  BY DEF TypeOK
<1> USE <1>0 DEF MainKnows, Over, MainPCs, DogPCs, dogs, race
<1>1. ASSUME NEW d \in Dogs, Place(d) PROVE MainKnows'
  BY <1>1, ArrivedFinite DEF Place, Goto
<1>2. ASSUME NEW d \in Dogs, Wake(d) PROVE MainKnows'
  BY <1>2, ArrivedFinite DEF Wake, Goto
<1>3. ASSUME NEW d \in Dogs, LockFirst(d) PROVE MainKnows'
  BY <1>3, ArrivedFinite DEF LockFirst, Goto, Lock
<1>4. ASSUME NEW d \in Dogs, LockSecond(d) PROVE MainKnows'
  BY <1>4, ArrivedFinite DEF LockSecond, Goto, Lock
<1>5. ASSUME NEW d \in Dogs, Check(d) PROVE MainKnows'
  BY <1>5, ArrivedFinite DEF Check, Goto, Collides
<1>6. ASSUME NEW d \in Dogs, Waf(d) PROVE MainKnows'
  BY <1>6, ArrivedFinite DEF Waf, Goto, Unlock
<1>7. ASSUME NEW d \in Dogs, Move(d) PROVE MainKnows'
  BY <1>7, ArrivedFinite DEF Move, Goto, Unlock
<1>8. ASSUME NEW d \in Dogs, RecordFinish(d) PROVE MainKnows'
  BY <1>8, ArrivedFinite DEF RecordFinish, Goto
<1>9. ASSUME NEW d \in Dogs, CancelDog(d) PROVE MainKnows'
  BY <1>9, ArrivedFinite DEF CancelDog, Goto, Cancellable
<1>10. CASE LoopTurn
  BY <1>10, ArrivedFinite DEF LoopTurn
<1>11. CASE LockAll
  BY <1>11, ArrivedFinite DEF LockAll, Lock
<1>12. CASE PrintTrack
  BY <1>12, ArrivedFinite DEF PrintTrack, Unlock
<1>13. CASE CancelNext
  BY <1>13, ArrivedFinite DEF CancelNext
<1>14. CASE JoinAll
  BY <1>14, ArrivedFinite DEF JoinAll
<1>15. CASE Sigint
  BY <1>15, ArrivedFinite DEF Sigint
<1>16. CASE UNCHANGED vars
  BY <1>16 DEF vars
<1>17. QED
  BY <1>1, <1>2, <1>3, <1>4, <1>5, <1>6, <1>7, <1>8, <1>9,
     <1>10, <1>11, <1>12, <1>13, <1>14, <1>15, <1>16
     DEF Next, DogStep, Dog3, MainStep, Main3, Terminated

-----------------------------------------------------------------------------
(* Type correctness *)

\* The next value of finished_count is a count of dogs too.
LEMMA CountBounded ==
    ASSUME TypeOK, Positions, FinishCounts, [Next]_vars
    PROVE  finished_count' \in 0 .. Cardinality(Dogs)
<1>1. finished_count' = Cardinality(Arrived')
  BY FinishCountsStep DEF FinishCounts
<1>2. Arrived' \in SUBSET Dogs
  BY DEF Arrived
<1>3. QED
  BY <1>1, <1>2, DogsAssumption, FS_Subset, FS_CardinalityType

\* A jump ends on the track.
LEMMA WakeType ==
    ASSUME TypeOK, NEW d \in Dogs, Wake(d)
    PROVE  next_pos' \in [Dogs -> Cells]
<1>1. next_pos \in [Dogs -> Cells] /\ pos[d] \in Cells
  BY DEF TypeOK
<1>2. PICK jump \in 1 .. MaxJump :
        next_pos' = [next_pos EXCEPT ![d] =
                       IF pos[d] + jump >= Length THEN Finish ELSE pos[d] + jump]
  BY DEF Wake
<1>3. (IF pos[d] + jump >= Length THEN Finish ELSE pos[d] + jump) \in Cells
  BY <1>1, LengthAssumption, JumpAssumption DEF Cells, Finish
<1>4. QED
  BY <1>1, <1>2, <1>3

\* A move stays on the track.
LEMMA MoveType ==
    ASSUME TypeOK, NEW d \in Dogs, Move(d)
    PROVE  /\ track' \in [Cells -> Int]
           /\ mx_track' \in [Cells -> Dogs \cup {Main, Nobody}]
           /\ dpc' \in [Dogs -> DogPCs]
           /\ pos' \in [Dogs -> Cells]
<1>1. /\ next_pos \in [Dogs -> Cells] /\ pos \in [Dogs -> Cells]
      /\ track \in [Cells -> Int]
  BY DEF TypeOK
<1>2. track' \in [Cells -> Int]
  BY <1>1 DEF Move
<1>3. mx_track' \in [Cells -> Dogs \cup {Main, Nobody}]
  BY DEF Move, Unlock, TypeOK
<1>4. dpc' \in [Dogs -> DogPCs] /\ pos' \in [Dogs -> Cells]
  BY <1>1 DEF Move, Goto, TypeOK, DogPCs
<1>5. QED
  BY <1>2, <1>3, <1>4

\* So does the first step onto it.
LEMMA PlaceType ==
    ASSUME TypeOK, NEW d \in Dogs, Place(d)
    PROVE  track' \in [Cells -> Int]
<1>1. track \in [Cells -> Int]
  BY DEF TypeOK
<1>2. track' = [track EXCEPT ![0] = @ + 1]
  BY DEF Place
<1>3. 0 \in Cells
  BY LengthAssumption DEF Cells
<1>4. track[0] + 1 \in Int
  BY <1>1, <1>3
<1>5. QED
  BY <1>1, <1>2, <1>3, <1>4

\* Every step keeps the variables in their types.
LEMMA TypeStep ==
    TypeOK /\ Positions /\ FinishCounts /\ [Next]_vars => TypeOK'
<1> SUFFICES ASSUME TypeOK, Positions, FinishCounts, [Next]_vars PROVE TypeOK'
  OBVIOUS
<1> USE DEF TypeOK, DogPCs, MainPCs, Cells, Finish, dogs, race
<1>1. ASSUME NEW d \in Dogs, Place(d) PROVE TypeOK'
  <2>1. track' \in [Cells -> Int]
    BY <1>1, PlaceType
  <2>2. dpc' \in [Dogs -> DogPCs]
    BY <1>1 DEF Place, Goto
  <2>3. QED
    BY <1>1, <2>1, <2>2 DEF Place
<1>2. ASSUME NEW d \in Dogs, Wake(d) PROVE TypeOK'
  BY <1>2, WakeType DEF Wake, Goto
<1>3. ASSUME NEW d \in Dogs, LockFirst(d) PROVE TypeOK'
  BY <1>3 DEF LockFirst, Goto, Lock
<1>4. ASSUME NEW d \in Dogs, LockSecond(d) PROVE TypeOK'
  BY <1>4 DEF LockSecond, Goto, Lock
<1>5. ASSUME NEW d \in Dogs, Check(d) PROVE TypeOK'
  BY <1>5 DEF Check, Goto, Collides
<1>6. ASSUME NEW d \in Dogs, Waf(d) PROVE TypeOK'
  BY <1>6 DEF Waf, Goto, Unlock
<1>7. ASSUME NEW d \in Dogs, Move(d) PROVE TypeOK'
  BY <1>7, MoveType DEF Move
<1>8. ASSUME NEW d \in Dogs, RecordFinish(d) PROVE TypeOK'
  BY <1>8, CountBounded DEF RecordFinish, Goto
<1>9. ASSUME NEW d \in Dogs, CancelDog(d) PROVE TypeOK'
  BY <1>9 DEF CancelDog, Goto, Cancellable
<1>10. CASE LoopTurn
  BY <1>10 DEF LoopTurn
<1>11. CASE LockAll
  BY <1>11 DEF LockAll, Lock
<1>12. CASE PrintTrack
  BY <1>12 DEF PrintTrack, Unlock
<1>13. CASE CancelNext
  BY <1>13 DEF CancelNext
<1>14. CASE JoinAll
  BY <1>14 DEF JoinAll
<1>15. CASE Sigint
  BY <1>15 DEF Sigint
<1>16. CASE UNCHANGED vars
  BY <1>16 DEF vars
<1>17. QED
  BY <1>1, <1>2, <1>3, <1>4, <1>5, <1>6, <1>7, <1>8, <1>9,
     <1>10, <1>11, <1>12, <1>13, <1>14, <1>15, <1>16
     DEF Next, DogStep, Dog3, MainStep, Main3, Terminated

-----------------------------------------------------------------------------
(* The invariant *)

\* The race starts with every mutex free and no dog on the track.
LEMMA InitInvariant == Init => IInv
<1> SUFFICES ASSUME Init PROVE IInv
  OBVIOUS
<1> USE DEF Init
<1>1. TypeOK
  BY LengthAssumption, ArrivedFinite DEF TypeOK, Cells, DogPCs, MainPCs
<1>2. Positions /\ HoldersOwn /\ OwnersHold /\ MainOwns /\ CheckHolds /\ CellExclusive
  BY LengthAssumption, DogsAssumption
     DEF Positions, HoldersOwn, OwnersHold, MainOwns, CheckHolds, CellExclusive, Cells,
         Finish, Moving, HoldsFirst, HoldsBoth
<1>3. TrackCounts
  <2>1. \A i : OnTrack(i) = {}
    BY DEF OnTrack
  <2>2. QED
    BY <2>1, FS_EmptySet DEF TrackCounts
<1>4. FinishCounts
  <2>1. Arrived = {}
    BY DEF Arrived
  <2>2. QED
    BY <2>1, FS_EmptySet DEF FinishCounts
<1>5. Recorded /\ MainKnows
  BY DEF Recorded, MainKnows, Over
<1>6. QED
  BY <1>1, <1>2, <1>3, <1>4, <1>5 DEF IInv

LEMMA InvariantStep == IInv /\ [Next]_vars => IInv'
  BY TypeStep, PositionsStep, HoldersStep, OwnersStep, MainOwnsStep, TrackCountsStep,
     CellExclusiveStep, CheckHoldsStep, FinishCountsStep, RecordedStep, MainKnowsStep
     DEF IInv

\* The invariant holds for every track and every pack of dogs.
THEOREM Invariance == Spec => []IInv
  BY InitInvariant, InvariantStep, PTL DEF Spec

\* Type correctness.
THEOREM TypeCorrect == Spec => []TypeOK
<1>1. IInv => TypeOK
  BY DEF IInv
<1>2. QED
  BY <1>1, Invariance, PTL

\* No two dogs share a cell between the start and the finish: the check of a cell
\* and the move there (task3_4.c:99-112) are under the mutex of that cell.
THEOREM NoCollision == Spec => []CellExclusive
<1>1. IInv => CellExclusive
  BY DEF IInv
<1>2. QED
  BY <1>1, Invariance, PTL

\* What main prints with every mutex in hand (task3_4.c:201-215) is a state of the
\* race.
THEOREM SnapshotsConsistent == Spec => []SnapshotConsistent
<1>1. IInv => SnapshotConsistent
  <2> SUFFICES ASSUME IInv, mpc = "snapshot" PROVE
                 /\ \A i \in Cells : track[i] = Cardinality(OnTrack(i))
                 /\ finished_count <= track[Finish]
                 /\ \A d \in Dogs : dpc[d] \notin {"second", "check", "waf", "move"}
    BY DEF SnapshotConsistent
  <2>1. \A i \in Cells : track[i] = Cardinality(OnTrack(i))
    BY DEF IInv, TrackCounts
  <2>2. finished_count <= track[Finish]
    <3>1. Arrived \subseteq OnTrack(Finish)
      BY DEF Arrived, OnTrack
    <3>2. Finish \in Cells
      BY LengthAssumption DEF Finish, Cells
    <3>3. QED
      BY <2>1, <3>1, <3>2, OnTrackFinite, FS_Subset DEF IInv, FinishCounts
  <2>3. ASSUME NEW d \in Dogs, dpc[d] \in HoldsFirst PROVE FALSE
    BY <2>3, DogsAssumption DEF IInv, TypeOK, HoldersOwn, MainOwns
  <2>4. QED
    BY <2>1, <2>2, <2>3 DEF HoldsFirst
<1>2. QED
  BY <1>1, Invariance, PTL

\* Cancellation leaves no mutex locked: it acts only on a dog that sleeps
\* (task3_4.c:88, 106, 118).
THEOREM LocksReleased == Spec => []NoLockLeftBehind
<1>1. IInv => NoLockLeftBehind
  <2> SUFFICES ASSUME IInv PROVE NoLockLeftBehind
    OBVIOUS
  <2>1. ASSUME NEW i \in Cells, mx_track[i] \in Dogs PROVE dpc[mx_track[i]] # "gone"
    BY <2>1 DEF IInv, OwnersHold, HoldsFirst, HoldsBoth
  <2>2. ASSUME Over PROVE mx_finish = Nobody /\ \A i \in Cells : mx_track[i] = Nobody
    BY <2>1, <2>2 DEF IInv, TypeOK, MainOwns, MainKnows, Over
  <2>3. QED
    BY <2>1, <2>2 DEF NoLockLeftBehind
<1>2. QED
  BY <1>1, Invariance, PTL

\* The podium names different dogs that have finished, from the first place on.
THEOREM PodiumCorrect == Spec => []PodiumSound
<1>1. IInv => PodiumSound
  BY DEF IInv, Recorded, Arrived, PodiumSound
<1>2. QED
  BY <1>1, Invariance, PTL

\* Results are printed only for a race that every dog has finished.
THEOREM CompleteResults == Spec => []ResultsComplete
<1>1. IInv => ResultsComplete
  BY ArrivedFinite DEF IInv, TypeOK, MainKnows, ResultsComplete
<1>2. QED
  BY <1>1, Invariance, PTL

-----------------------------------------------------------------------------
(* The race implements the abstract one *)

\* A dog on its way between two cells is one jump away from the second.
Jumped ==
    \A d \in Dogs :
        dpc[d] \in Moving => \E jump \in 1 .. MaxJump : next_pos[d] = R!Landing(d, jump)

LEMMA JumpedStep == TypeOK /\ Jumped /\ [Next]_vars => Jumped'
<1> SUFFICES ASSUME TypeOK, Jumped, [Next]_vars PROVE Jumped'
  OBVIOUS
<1>0. /\ dpc \in [Dogs -> DogPCs]
      /\ pos \in [Dogs -> Cells]
      /\ next_pos \in [Dogs -> Cells]
  BY DEF TypeOK
<1> USE <1>0 DEF Jumped, Moving, dogs
<1>1. ASSUME NEW d \in Dogs, Place(d) PROVE Jumped'
  BY <1>1 DEF Place, Goto, R!Landing
<1>2. ASSUME NEW d \in Dogs, Wake(d) PROVE Jumped'
  <2>1. PICK jump \in 1 .. MaxJump : next_pos' = [next_pos EXCEPT ![d] = R!Landing(d, jump)]
    BY <1>2 DEF Wake, R!Landing, R!Finish, Finish
  <2>2. UNCHANGED pos /\ dpc' = [dpc EXCEPT ![d] = "first"]
    BY <1>2 DEF Wake, Goto
  <2> QED
    BY <2>1, <2>2 DEF R!Landing
<1>3. ASSUME NEW d \in Dogs,
             LockFirst(d) \/ LockSecond(d) \/ Check(d) \/ Waf(d) \/ RecordFinish(d) \/ CancelDog(d)
      PROVE  Jumped'
  <2>1. /\ UNCHANGED <<pos, next_pos>>
        /\ \E l : dpc' = [dpc EXCEPT ![d] = l] /\ (l \in Moving => dpc[d] \in Moving)
    BY <1>3 DEF LockFirst, LockSecond, Check, Waf, RecordFinish, CancelDog, Goto
  <2> QED
    BY <2>1 DEF R!Landing
<1>4. ASSUME NEW d \in Dogs, Move(d) PROVE Jumped'
  <2>1. /\ UNCHANGED next_pos /\ \A e \in Dogs : e # d => pos'[e] = pos[e] /\ dpc'[e] = dpc[e]
        /\ dpc'[d] \notin Moving
    BY <1>4 DEF Move, Goto
  <2> QED
    BY <2>1 DEF R!Landing
<1>5. CASE UNCHANGED dogs
  BY <1>5 DEF R!Landing
<1> QED
  BY <1>1, <1>2, <1>3, <1>4, <1>5
     DEF Next, DogStep, Dog3, MainStep, Main3, Terminated, vars, LoopTurn, LockAll, PrintTrack,
         CancelNext, JoinAll, Sigint

\* A dog that is still on its way keeps the race on.
LEMMA RaceIsOn ==
    ASSUME IInv, NEW d \in Dogs, dpc[d] # "gone"
    PROVE  ~ Over
  BY DEF IInv, MainKnows

\* Steps of the dogs: only to start, to move and to be counted are seen.
LEMMA DogRaces ==
    ASSUME IInv, Jumped, NEW d \in Dogs, DogStep(d)
    PROVE  [R!Next]_(R!vars)
<1>0. /\ dpc \in [Dogs -> DogPCs] /\ pos \in [Dogs -> Cells]
      /\ TypeOK /\ Positions /\ TrackCounts /\ CheckHolds /\ FinishCounts
  BY DEF IInv, TypeOK
<1>1. UNCHANGED mpc
  BY DEF DogStep, Dog3, Place, Wake, LockFirst, LockSecond, Check, Waf, Move, RecordFinish, CancelDog
<1>2. dpc[d] # "gone" => R!On /\ UNCHANGED (IF Over THEN mpc ELSE "none")
  BY <1>1, RaceIsOn DEF R!On, Over
<1>3. CASE Place(d)
  <2>1. dpc[d] = "place" /\ dpc' = [dpc EXCEPT ![d] = "sleep"] /\ UNCHANGED <<pos, winners>>
    BY <1>3 DEF Place, Goto, dogs, race
  <2>2. Arrived' = Arrived
    BY <1>0, <2>1 DEF Arrived
  <2>3. {e \in Dogs : dpc[e] # "place"}' = {e \in Dogs : dpc[e] # "place"} \cup {d}
    BY <1>0, <2>1
  <2> QED
    BY <1>2, <2>1, <2>2, <2>3 DEF R!Start, R!Next
<1>4. CASE Move(d)
  <2>1. /\ dpc[d] = "move" /\ pos' = [pos EXCEPT ![d] = next_pos[d]] /\ UNCHANGED winners
        /\ dpc' = [dpc EXCEPT ![d] = IF next_pos[d] = Finish THEN "finish" ELSE "sleep"]
    BY <1>4 DEF Move, Goto, race
  <2>2. Arrived' = Arrived /\ {e \in Dogs : dpc[e] # "place"}' = {e \in Dogs : dpc[e] # "place"}
    BY <1>0, <2>1 DEF Arrived
  <2>3. PICK jump \in 1 .. MaxJump : next_pos[d] = R!Landing(d, jump)
    BY <2>1 DEF Jumped, Moving
  <2>4. R!Free(next_pos[d])
    <3>1. CASE next_pos[d] = Finish
      BY <3>1 DEF R!Free, R!Finish, Finish
    <3>2. CASE next_pos[d] # Finish
      <4>1. next_pos[d] \in Cells /\ track[next_pos[d]] = 0
        BY <1>0, <2>1, <3>2 DEF CheckHolds, TypeOK
      <4>2. Cardinality(OnTrack(next_pos[d])) = 0
        BY <1>0, <4>1 DEF TrackCounts
      <4>3. OnTrack(next_pos[d]) = {}
        BY <4>2, OnTrackFinite, FS_EmptySet
      <4> QED
        BY <4>3 DEF R!Free, OnTrack
    <3> QED
      BY <3>1, <3>2
  <2>5. pos[d] # R!Finish
    BY <1>0, <2>1, LengthAssumption DEF Positions, Moving, R!Finish, Finish, Cells
  <2>6. R!Jump(d)
    BY <1>2, <2>1, <2>2, <2>3, <2>4, <2>5 DEF R!Jump
  <2> QED
    BY <2>6 DEF R!Next
<1>5. CASE RecordFinish(d)
  <2>1. /\ dpc[d] = "finish" /\ dpc' = [dpc EXCEPT ![d] = "gone"] /\ UNCHANGED pos
        /\ winners' = IF finished_count + 1 <= 3
                      THEN [winners EXCEPT ![finished_count + 1] = d]
                      ELSE winners
    BY <1>5 DEF RecordFinish, Goto
  <2>2. pos[d] = R!Finish /\ d \notin Arrived
    BY <1>0, <2>1 DEF Positions, R!Finish, Finish, Arrived
  <2>3. Arrived' = Arrived \cup {d}
    BY <1>0, <2>1, <2>2 DEF Arrived, R!Finish, Finish
  <2>4. finished_count = Cardinality(Arrived) /\ finished_count \in Nat
    BY <1>0, ArrivedFinite DEF FinishCounts
  <2>5. winners' = IF R!Cardinality(Arrived) < 3
                   THEN [winners EXCEPT ![R!Cardinality(Arrived) + 1] = d]
                   ELSE winners
    <3>1. R!Cardinality(Arrived) = Cardinality(Arrived)
      BY DEF R!Cardinality, Cardinality
    <3> QED
      BY <2>1, <2>4, <3>1
  <2>6. {e \in Dogs : dpc[e] # "place"}' = {e \in Dogs : dpc[e] # "place"}
    BY <1>0, <2>1
  <2>7. R!Rank(d)
    BY <1>2, <2>1, <2>2, <2>3, <2>5, <2>6 DEF R!Rank
  <2> QED
    BY <2>7 DEF R!Next
<1>6. CASE Wake(d) \/ LockFirst(d) \/ LockSecond(d) \/ Check(d) \/ Waf(d) \/ CancelDog(d)
  <2>1. /\ dpc[d] \in Moving \cup {"sleep"} /\ UNCHANGED <<pos, winners>>
        /\ \E l \in Moving \cup {"sleep", "gone"} : dpc' = [dpc EXCEPT ![d] = l]
    BY <1>6
       DEF Wake, LockFirst, LockSecond, Check, Waf, CancelDog, Cancellable, Goto, dogs, race, Moving
  <2>2. pos[d] # Finish
    BY <1>0, <2>1, LengthAssumption DEF Positions, Finish, Cells
  <2>3. Arrived' = Arrived
    BY <1>0, <2>1, <2>2 DEF Arrived, Moving
  <2>4. {e \in Dogs : dpc[e] # "place"}' = {e \in Dogs : dpc[e] # "place"}
    BY <1>0, <2>1 DEF Moving
  <2>5. dpc[d] # "gone"
    BY <2>1 DEF Moving
  <2> QED
    BY <1>2, <2>1, <2>3, <2>4, <2>5 DEF R!vars
<1> QED
  BY <1>3, <1>4, <1>5, <1>6 DEF DogStep, Dog3

\* Steps of main and of SIGINT: only the end of the race is seen.
LEMMA MainRaces ==
    ASSUME IInv, MainStep \/ Sigint \/ UNCHANGED vars
    PROVE  [R!Next]_(R!vars)
<1>1. UNCHANGED <<dpc, pos, winners>>
  BY DEF MainStep, Main3, LoopTurn, LockAll, PrintTrack, CancelNext, JoinAll, Sigint, vars, dogs, race
<1>2. Arrived' = Arrived /\ {e \in Dogs : dpc[e] # "place"}' = {e \in Dogs : dpc[e] # "place"}
  BY <1>1 DEF Arrived
<1>3. CASE JoinAll
  <2>1. mpc = "join" /\ mpc' = IF sigint_received = 1 THEN "interrupted" ELSE "finished"
    BY <1>3 DEF JoinAll
  <2>2. R!On
    BY <2>1 DEF R!On, Over
  <2>3. CASE sigint_received = 1
    <3>1. (IF Over THEN mpc ELSE "none")' = "interrupted"
      BY <2>1, <2>3 DEF Over
    <3> QED
      BY <1>1, <1>2, <2>2, <3>1 DEF R!End, R!Next
  <2>4. CASE sigint_received # 1
    <3>1. (IF Over THEN mpc ELSE "none")' = "finished"
      BY <2>1, <2>4 DEF Over
    <3>2. Cardinality(Arrived) >= Cardinality(Dogs)
      BY <2>1, <2>4 DEF IInv, TypeOK, MainKnows, FinishCounts
    <3>3. Arrived = Dogs
      <4>1. Arrived \in SUBSET Dogs
        BY DEF Arrived
      <4>2. Cardinality(Arrived) = Cardinality(Dogs)
        BY <3>2, ArrivedFinite
      <4> QED
        BY <4>1, <4>2, DogsAssumption, FS_Subset
    <3> QED
      BY <1>1, <1>2, <2>2, <3>1, <3>3 DEF R!End, R!Next
  <2> QED
    BY <2>3, <2>4
<1>4. CASE ~ JoinAll
  <2>1. UNCHANGED (IF Over THEN mpc ELSE "none")
    BY <1>4 DEF MainStep, Main3, LoopTurn, LockAll, PrintTrack, CancelNext, Sigint, vars, Over
  <2> QED
    BY <1>1, <1>2, <2>1 DEF R!vars
<1> QED
  BY <1>3, <1>4

\* The race of task3_3.c and task3_4.c implements the abstract race, for every
\* number of dogs, track and longest jump: what a dog found out under its two
\* mutexes (task3_4.c:99-112) is true until it moves, and main calls a race
\* finished (task3_4.c:227) only when every dog has its rank.
THEOREM RaceRefinement == Spec => ImplementsRace
<1>1. Init => R!Init
  BY DEF Init, R!Init, R!On, Arrived, Over
<1>2. Init => Jumped
  BY DEF Init, Jumped, Moving
<1>3. IInv /\ Jumped /\ [Next]_vars => [R!Next]_(R!vars)
  BY DogRaces, MainRaces DEF Next, Terminated
<1>4. IInv => TypeOK
  BY DEF IInv
<1>5. Spec => []Jumped
  BY <1>2, <1>4, JumpedStep, Invariance, PTL DEF Spec
<1> QED
  BY <1>1, <1>3, <1>5, Invariance, PTL DEF Spec, R!Spec, ImplementsRace

\* While main has the mutexes and prints, the race stands still: no dog starts,
\* moves or is counted. So the lines main prints, cell after cell
\* (task3_4.c:201-215), are one state of the race.
THEOREM SnapshotStill ==
    Spec => [][mpc = "snapshot" => UNCHANGED <<track, pos, finished_count, winners>>]_vars
<1>1. ASSUME IInv, [Next]_vars, mpc = "snapshot"
      PROVE  UNCHANGED <<track, pos, finished_count, winners>>
  <2>1. /\ \A i \in Cells : mx_track[i] = Main
        /\ mx_finish = Main /\ Main \notin Dogs /\ Main # Nobody
        /\ 0 \in Cells /\ pos \in [Dogs -> Cells]
    BY <1>1, DogsAssumption, LengthAssumption DEF IInv, MainOwns, TypeOK, Cells
  <2>2. \A d \in Dogs : dpc[d] \notin HoldsFirst
    BY <1>1, <2>1 DEF IInv, HoldersOwn
  <2>3. \A d \in Dogs : ~ Place(d) /\ ~ Move(d) /\ ~ RecordFinish(d)
    BY <2>1, <2>2 DEF Place, Move, RecordFinish, HoldsFirst
  <2> QED
    BY <1>1, <2>3
       DEF Next, DogStep, Dog3, MainStep, Main3, Terminated, vars, dogs, race, Wake, LockFirst,
           LockSecond, Check, Waf, CancelDog, LoopTurn, LockAll, PrintTrack, CancelNext, JoinAll,
           Sigint
<1> QED
  BY <1>1, Invariance, PTL DEF Spec

-----------------------------------------------------------------------------
(* The lock order lets everyone out again *)

\* The cell whose mutex a dog, or main, is about to lock.
DogWants(d, i) == \/ dpc[d] = "place" /\ i = 0
                  \/ dpc[d] = "first" /\ i = pos[d]
                  \/ dpc[d] = "second" /\ i = next_pos[d]
MainWants(i) == mpc = "lock" /\ \A j \in Cells : mx_track[j] = Main <=> j < i

\* A dog on its way can run unless a mutex it wants is taken ...
DogRuns(d) ==
    /\ dpc[d] # "gone"
    /\ \A i \in Cells : DogWants(d, i) => mx_track[i] = Nobody
    /\ dpc[d] = "finish" => mx_finish = Nobody

\* ... and main, unless its next mutex is taken or a dog it joins is still there.
MainRuns ==
    \/ mpc \in {"loop", "snapshot", "cancel"}
    \/ \E i \in Cells : MainWants(i) /\ mx_track[i] = Nobody
    \/ mpc = "lock" /\ mx_finish = Nobody /\ \A i \in Cells : mx_track[i] = Main
    \/ mpc = "join" /\ \A d \in Dogs : dpc[d] = "gone"

\* Until the race is over, somebody can run.
NeverStuck == Over \/ MainRuns \/ \E d \in Dogs : DogRuns(d)

\* Main locks the track from its first cell on.
MainAtCell ==
    mpc = "lock" => \E i \in 0 .. Length : \A j \in Cells : mx_track[j] = Main <=> j < i

LEMMA MainAtCellStep == IInv /\ MainAtCell /\ [Next]_vars => MainAtCell'
<1> SUFFICES ASSUME IInv, MainAtCell, [Next]_vars, mpc' = "lock"
             PROVE  \E i \in 0 .. Length : \A j \in Cells : mx_track'[j] = Main <=> j < i
  BY DEF MainAtCell
<1>0. /\ mx_track \in [Cells -> Dogs \cup {Main, Nobody}]
      /\ Main \notin Dogs /\ Main # Nobody /\ Length \in Nat
  BY DogsAssumption, LengthAssumption DEF IInv, TypeOK
<1>1. CASE mpc = "lock" /\ \A j \in Cells : mx_track'[j] = Main <=> mx_track[j] = Main
  BY <1>1 DEF MainAtCell
<1>2. CASE LoopTurn
  <2>1. \A j \in Cells : mx_track'[j] # Main /\ ~ (j < 0)
    BY <1>2 DEF LoopTurn, IInv, MainOwns, Cells
  <2> QED
    BY <1>0, <2>1
<1>3. CASE LockAll
  <2>1. PICK i \in Cells : (\A j \in Cells : mx_track[j] = Main <=> j < i) /\ Lock(i, Main)
    BY <1>3 DEF LockAll
  <2>2. \A j \in Cells : mx_track'[j] = Main <=> j < i + 1
    BY <1>0, <2>1 DEF Lock, Cells
  <2>3. i + 1 \in 0 .. Length
    BY <1>0 DEF Cells
  <2> QED
    BY <2>2, <2>3
<1>4. ASSUME NEW d \in Dogs, DogStep(d)
      PROVE  mpc = "lock" /\ \A j \in Cells : mx_track'[j] = Main <=> mx_track[j] = Main
  BY <1>0, <1>4
     DEF DogStep, Dog3, Place, Wake, LockFirst, LockSecond, Check, Waf, Move, RecordFinish,
         CancelDog, Lock, Unlock
<1>5. CASE PrintTrack \/ CancelNext \/ JoinAll
  BY <1>5 DEF PrintTrack, CancelNext, JoinAll
<1>6. CASE Sigint \/ Terminated \/ UNCHANGED vars
  BY <1>1, <1>6 DEF Sigint, Terminated, vars
<1> QED
  BY <1>1, <1>2, <1>3, <1>4, <1>5, <1>6 DEF Next, MainStep, Main3

\* A set of cells has a last one.
LEMMA LastCell == ASSUME NEW T \in SUBSET Cells, T # {} PROVE \E m \in T : \A i \in T : i <= m
<1> DEFINE D == {Length - i : i \in T}
<1>0. Length \in Nat /\ \A i \in T : i \in Nat /\ Length - i \in Nat
  BY LengthAssumption DEF Cells
<1>1. D \in SUBSET Nat /\ D # {}
  BY <1>0
<1>2. PICK k \in D : \A e \in D : ~ (<<e, k>> \in OpToRel(<, Nat))
  BY <1>1, WFMin, NatLessThanWellFounded
<1>3. \A e \in D : ~ (e < k)
  BY <1>1, <1>2 DEF OpToRel
<1>4. PICK m \in T : k = Length - m
  OBVIOUS
<1>5. ASSUME NEW i \in T PROVE i <= m
  <2>1. Length - i \in D
    OBVIOUS
  <2>2. ~ (Length - i < Length - m)
    BY <1>3, <1>4, <2>1
  <2> QED
    BY <1>0, <2>2
<1> QED
  BY <1>5

\* Dogs lock their two cells in the order of the track (task3_4.c:94-95) and main locks
\* all of them in that order (task3_4.c:201-202), so whoever has got furthest can go
\* on: in no race, of any number of dogs on any track, do dogs and main wait for each
\* other, cancelled or not.
THEOREM LockOrder == Spec => []NeverStuck
<1>1. ASSUME IInv, MainAtCell PROVE NeverStuck
  <2> SUFFICES ASSUME ~ Over, ~ MainRuns, \A d \in Dogs : ~ DogRuns(d) PROVE FALSE
    BY DEF NeverStuck
  <2>0. /\ mx_track \in [Cells -> Dogs \cup {Main, Nobody}]
        /\ dpc \in [Dogs -> DogPCs] /\ pos \in [Dogs -> Cells] /\ next_pos \in [Dogs -> Cells]
        /\ Main \notin Dogs /\ Nobody \notin Dogs /\ Main # Nobody
        /\ Length \in Nat /\ 0 \in Cells
    BY <1>1, DogsAssumption, LengthAssumption DEF IInv, TypeOK, Cells
  <2>1. mpc \in {"lock", "join"} /\ mx_finish = Nobody
    BY <1>1 DEF MainRuns, Over, IInv, TypeOK, MainPCs, MainOwns
  <2> DEFINE Wanted == {i \in Cells : /\ mx_track[i] # Nobody
                                      /\ MainWants(i) \/ \E d \in Dogs : DogWants(d, i)}
  <2>2. ASSUME NEW d \in Dogs, dpc[d] # "gone" PROVE \E i \in Wanted : DogWants(d, i)
    BY <2>1, <2>2 DEF DogRuns
  <2>3. ASSUME mpc = "lock" PROVE \E i \in Wanted : MainWants(i)
    <3>1. PICK i \in 0 .. Length : \A j \in Cells : mx_track[j] = Main <=> j < i
      BY <1>1, <2>3 DEF MainAtCell
    <3>2. i # Length
      BY <2>0, <2>1, <2>3, <3>1 DEF MainRuns, Cells
    <3>3. i \in Cells /\ MainWants(i)
      BY <2>0, <2>3, <3>1, <3>2 DEF Cells, MainWants
    <3> QED
      BY <3>3 DEF MainRuns
  <2>4. Wanted # {}
    <3>1. CASE mpc = "join"
      BY <2>2, <3>1 DEF MainRuns
    <3> QED
      BY <2>1, <2>3, <3>1
  <2>5. PICK m \in Wanted : \A i \in Wanted : i <= m
    <3> HIDE DEF Wanted
    <3>1. Wanted \in SUBSET Cells
      BY DEF Wanted
    <3> QED
      BY <2>4, <3>1, LastCell
  <2>6. m \in Cells /\ mx_track[m] # Nobody /\ \A i \in Wanted : i \in Cells /\ ~ (m < i)
    BY <2>5 DEF Cells
  <2>7. CASE mx_track[m] = Main
    <3>1. mpc = "lock"
      BY <1>1, <2>1, <2>6, <2>7 DEF IInv, MainOwns
    <3>2. PICK i \in Wanted : MainWants(i)
      BY <2>3, <3>1
    <3> QED
      BY <2>6, <2>7, <3>2 DEF MainWants
  <2>8. CASE mx_track[m] \in Dogs
    <3> DEFINE d == mx_track[m]
    <3>1. \/ dpc[d] \in HoldsFirst /\ m = pos[d]
          \/ dpc[d] \in HoldsBoth /\ m = next_pos[d]
      BY <1>1, <2>6, <2>8 DEF IInv, OwnersHold
    <3>2. PICK i \in Wanted : DogWants(d, i)
      BY <2>2, <2>8, <3>1 DEF HoldsFirst, HoldsBoth
    <3>3. dpc[d] = "second" /\ m = pos[d] /\ i = next_pos[d]
      BY <3>1, <3>2 DEF HoldsFirst, HoldsBoth, DogWants
    <3>4. m < i
      BY <1>1, <2>8, <3>3 DEF IInv, Positions, Moving
    <3> QED
      BY <2>6, <3>4
  <2> QED
    BY <2>0, <2>6, <2>7, <2>8
<1>2. Init => MainAtCell
  BY DEF Init, MainAtCell
<1> QED
  BY <1>1, <1>2, MainAtCellStep, Invariance, PTL DEF Spec
=============================================================================
