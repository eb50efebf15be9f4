---------------------------- MODULE ArraySwapProofs ----------------------------
(***************************************************************************)
(* Theorems about the array swapper and its earlier stages, for every      *)
(* length of the array, every number of threads and any signals.           *)
(***************************************************************************)
EXTENDS SwapStages, FiniteSetTheorems, TLAPS

-----------------------------------------------------------------------------
(* The inductive invariant *)

Types ==
    /\ array \in [Indices -> Indices]
    /\ mx_array \in [Indices -> Swappers \cup Printers \cup {Nobody}]
    /\ spc \in [Swappers -> SwapperPCs]
    /\ left \in [Swappers -> Indices]
    /\ right \in [Swappers -> Indices]
    /\ temp \in [Swappers -> Indices]
    /\ ppc \in [Printers -> PrinterPCs]
    /\ next \in [Printers -> Indices]
    /\ printed \in [Printers -> [Indices -> Indices]]

\* A pair of cells is two cells, until the indices meet.
PairOrdered == \A t \in Swappers : spc[t] \notin {"idle", "stats"} => left[t] < right[t]

\* The cells that a swapper has locked are those its control says ...
HoldsLeft == {"lock_right", "move", "put", "unlock_right", "unlock_left"}
HoldsRight == {"move", "put", "unlock_right"}
HeldBySwapper(t, i) == \/ spc[t] \in HoldsLeft /\ left[t] = i
                       \/ spc[t] \in HoldsRight /\ right[t] = i
SwapperLocks == \A t \in Swappers, i \in Indices : mx_array[i] = t <=> HeldBySwapper(t, i)

\* ... and so are those of a printer, until main frees the array under it.
HeldByPrinter(p, i) == \/ ppc[p] = "lock" /\ i < next[p]
                       \/ ppc[p] = "print"
                       \/ ppc[p] = "unlock" /\ i >= next[p]
PrinterLocks ==
    \A p \in Printers, i \in Indices : ppc[p] # "undefined" => (mx_array[i] = p <=> HeldByPrinter(p, i))

\* What a printer has read of the line is still in the array.
LineIsCurrent ==
    \A p \in Printers : ppc[p] = "print" => \A i \in Indices : i < next[p] => printed[p][i] = array[i]

\* The swappers that run.
Running == {t \in Swappers : spc[t] # "idle"}

\* Where main inverts itself it is in perform_inversion or in its loop, counts
\* nothing and frees nothing.
MainInverts ==
    stage # 4 => /\ mpc = "invert" <=> spc[MainThread] # "idle"
                 /\ mpc # "create"
                 /\ ~ freed

\* Where it waits for its threads, they are gone before it cleans up.
MainWaits ==
    /\ active_threads \in Nat
    /\ mpc = "clean" => Running = {}
    /\ freed => mpc \in {"clean", "exit"} /\ Running = {}

MainInv == MainInverts /\ MainWaits /\ StagesCountIsExact /\ stage \in {1, 2, 4}

IInv ==
    /\ Types /\ PairOrdered /\ SwapperLocks /\ PrinterLocks
    /\ NothingLost
    /\ LineIsCurrent /\ LineIsPermutation
    /\ MainInv

-----------------------------------------------------------------------------
(* The steps as the cells see them *)

cells == <<array, mx_array, swapping, printing>>

Starts(t) ==
    /\ spc[t] = "idle"
    /\ \E a, b \in Indices :
          /\ a < b
          /\ spc' = [spc EXCEPT ![t] = "lock_left"]
          /\ left' = [left EXCEPT ![t] = a]
          /\ right' = [right EXCEPT ![t] = b]
    /\ UNCHANGED <<array, mx_array, temp, printing>>

Ends(t) ==
    /\ spc[t] = "stats"
    /\ spc' = [spc EXCEPT ![t] = "idle"]
    /\ left' = [left EXCEPT ![t] = 0]
    /\ right' = [right EXCEPT ![t] = 0]
    /\ temp' = [temp EXCEPT ![t] = 0]
    /\ UNCHANGED <<array, mx_array, printing>>

PrinterStarts(p) ==
    /\ ppc[p] = "idle"
    /\ ppc' = [ppc EXCEPT ![p] = "lock"]
    /\ next' = [next EXCEPT ![p] = 0]
    /\ UNCHANGED <<array, mx_array, swapping, printed>>

PrinterLost(p) ==
    /\ ppc' = [ppc EXCEPT ![p] = "undefined"]
    /\ UNCHANGED <<array, mx_array, swapping, next, printed>>

CellStep ==
    \/ \E t \in Swappers : Starts(t) \/ Ends(t) \/ LockStep(t) \/ Move(t) \/ Put(t)
                              \/ UnlockRight(t) \/ UnlockLeft(t)
    \/ \E p \in Printers : PrinterStarts(p) \/ PrinterLost(p) \/ LockCells(p) \/ PrintCells(p)
                              \/ UnlockCells(p)
    \/ UNCHANGED cells

\* One of the swappers stands for main.
LEMMA MainIsSwapper == MainThread \in Swappers
BY SwappersAssumption DEF MainThread

\* Every step of every stage is one of these, or leaves the cells alone.
LEMMA Dispatch ==
    ASSUME MainInverts, [StagesNext]_stagevars
    PROVE  CellStep
<1> USE MainIsSwapper
<1>1. CASE \E s \in Signals : Handled(s) /\ Signal(s) /\ UNCHANGED stage
  BY <1>1 DEF CellStep, cells, Signal, shared
<1>2. CASE StageMain
  <2>1. CASE CheckInterrupt \/ CheckSwap \/ BackToPause \/ Admit \/ CreateFails \/ Ending4
    BY <2>1
       DEF CellStep, cells, CheckInterrupt, CheckSwap, BackToPause, Admit, CreateFails, Ending4,
           WaitForThreads, CleanUp, Exit, shared
  <2>2. CASE stage # 4 /\ Invert
    <3>1. spc[MainThread] = "idle"
      BY <2>2 DEF Invert, MainInverts
    <3> QED
      BY <2>2, <3>1 DEF CellStep, cells, Invert, Starts, shared
  <2>3. CASE CreateSwapper
    BY <2>3 DEF CellStep, CreateSwapper, Starts, shared
  <2>4. CASE CheckPrint
    BY <2>4 DEF CellStep, cells, CheckPrint, PrinterStarts, shared, printing
  <2>5. ASSUME NEW l, InvertStep(l) PROVE CellStep
    BY <2>5 DEF CellStep, InvertStep, Inversion1, Inversion2, Ends, SGoto, shared
  <2> QED
    BY <1>2, <2>1, <2>2, <2>3, <2>4, <2>5 DEF StageMain, Main1, Main2, Main3
<1>3. ASSUME NEW t \in Swappers, StageSwapper(t) PROVE CellStep
  <2>1. CASE Finish(t)
    BY <2>1 DEF CellStep, Finish, Ends, SGoto
  <2> QED
    BY <1>3, <2>1 DEF CellStep, StageSwapper, Swapping3, Inversion3, Inversion1
<1>4. ASSUME NEW p \in Printers, StagePrinter(p) PROVE CellStep
  <2>1. CASE UseFreed(p)
    BY <2>1 DEF CellStep, UseFreed, PrinterLost, shared
  <2> QED
    BY <1>4, <2>1 DEF CellStep, StagePrinter, Printing2, Printing3
<1>5. CASE (Quiet /\ UNCHANGED stage) \/ UNCHANGED stagevars
  BY <1>5 DEF Quiet, stagevars, vars, cells, CellStep, shared
<1> QED
  BY <1>1, <1>2, <1>3, <1>4, <1>5 DEF StagesNext

-----------------------------------------------------------------------------
(* Locks *)

\* The indices of a swapper stay in the array: they meet in its middle.
LEMMA TypesStep ==
    ASSUME Types, PairOrdered, CellStep PROVE Types' /\ PairOrdered'
<1> USE DEF Types, PairOrdered, SwapperPCs, PrinterPCs, SGoto, swapping, printing, shared
<1>0. 0 \in Indices /\ \A i \in Indices : i < N - 1 => i + 1 \in Indices
  BY SizeAssumption DEF Indices
<1>1. ASSUME NEW t \in Swappers, Starts(t) PROVE Types' /\ PairOrdered'
  <2>1. PICK a \in Indices, b \in Indices :
           /\ a < b
           /\ spc' = [spc EXCEPT ![t] = "lock_left"]
           /\ left' = [left EXCEPT ![t] = a]
           /\ right' = [right EXCEPT ![t] = b]
    BY <1>1 DEF Starts
  <2>2. Types'
    BY <1>1, <2>1 DEF Starts
  <2>3. PairOrdered'
    BY <2>1
  <2> QED
    BY <2>2, <2>3
<1>2. ASSUME NEW t \in Swappers, Ends(t) PROVE Types' /\ PairOrdered'
  <2>1. Types'
    BY <1>0, <1>2 DEF Ends
  <2>2. PairOrdered'
    BY <1>2 DEF Ends
  <2> QED
    BY <2>1, <2>2
<1>3. ASSUME NEW t \in Swappers, LockStep(t) PROVE Types' /\ PairOrdered'
  <2>1. PICK i \in Indices, l \in {"lock_right", "move"} :
           /\ mx_array' = [mx_array EXCEPT ![i] = t] /\ spc' = [spc EXCEPT ![t] = l]
           /\ spc[t] \in {"lock_left", "lock_right"}
    BY <1>3 DEF LockStep, LockPair, Lock
  <2>2. UNCHANGED <<array, left, right, temp, printing>>
    BY <1>3 DEF LockStep
  <2> QED
    BY <2>1, <2>2
<1>4. ASSUME NEW t \in Swappers, Move(t) PROVE Types' /\ PairOrdered'
  BY <1>4 DEF Move
<1>5. ASSUME NEW t \in Swappers, Put(t) PROVE Types' /\ PairOrdered'
  BY <1>5 DEF Put
<1>6. ASSUME NEW t \in Swappers, UnlockRight(t) PROVE Types' /\ PairOrdered'
  BY <1>6 DEF UnlockRight, Unlock
<1>7. ASSUME NEW t \in Swappers, UnlockLeft(t) PROVE Types' /\ PairOrdered'
  <2>0. left[t] \in Indices /\ right[t] \in Indices /\ left[t] < right[t]
    BY <1>7 DEF UnlockLeft
  <2>1. left[t] + 1 \in Indices /\ right[t] - 1 \in Indices
    BY <2>0, SizeAssumption DEF Indices
  <2>2. /\ spc' \in [Swappers -> SwapperPCs] /\ mx_array' \in [Indices -> Swappers \cup Printers \cup {Nobody}]
        /\ left' \in [Swappers -> Indices] /\ right' \in [Swappers -> Indices]
    BY <1>7, <2>1 DEF UnlockLeft, Unlock
  <2>3. Types'
    BY <1>7, <2>2 DEF UnlockLeft
  <2>4. PairOrdered'
    BY <1>7 DEF UnlockLeft
  <2> QED
    BY <2>3, <2>4
<1>8. ASSUME NEW p \in Printers, PrinterStarts(p) PROVE Types' /\ PairOrdered'
  BY <1>0, <1>8 DEF PrinterStarts
<1>9. ASSUME NEW p \in Printers, PrinterLost(p) PROVE Types' /\ PairOrdered'
  BY <1>9 DEF PrinterLost
<1>10. ASSUME NEW p \in Printers, NEW l \in PrinterPCs, NEW k \in PrinterPCs, PNext(p, l, k)
       PROVE  ppc' \in [Printers -> PrinterPCs] /\ next' \in [Printers -> Indices]
  BY <1>0, <1>10 DEF PNext
<1>11. ASSUME NEW p \in Printers, LockCells(p) PROVE Types' /\ PairOrdered'
  <2>1. ppc' \in [Printers -> PrinterPCs] /\ next' \in [Printers -> Indices]
    BY <1>10, <1>11 DEF LockCells
  <2> QED
    BY <1>11, <2>1 DEF LockCells, Lock
<1>12. ASSUME NEW p \in Printers, PrintCells(p) PROVE Types' /\ PairOrdered'
  <2>1. ppc' \in [Printers -> PrinterPCs] /\ next' \in [Printers -> Indices]
    BY <1>10, <1>12 DEF PrintCells
  <2> QED
    BY <1>12, <2>1 DEF PrintCells
<1>13. ASSUME NEW p \in Printers, UnlockCells(p) PROVE Types' /\ PairOrdered'
  <2>1. ppc' \in [Printers -> PrinterPCs] /\ next' \in [Printers -> Indices]
    BY <1>10, <1>13 DEF UnlockCells
  <2> QED
    BY <1>13, <2>1 DEF UnlockCells, Unlock
<1>14. CASE UNCHANGED cells
  BY <1>14 DEF cells
<1> QED
  BY <1>1, <1>2, <1>3, <1>4, <1>5, <1>6, <1>7, <1>8, <1>9, <1>11, <1>12, <1>13, <1>14
     DEF CellStep

\* A swapper gets a cell by locking it and keeps it until it unlocks it.
LEMMA SwapperLocksStep ==
    ASSUME Types, PairOrdered, SwapperLocks, PrinterLocks, CellStep PROVE SwapperLocks'
<1> USE ThreadsAssumption DEF SGoto, swapping, printing, shared
<1>0. /\ spc \in [Swappers -> SwapperPCs]
      /\ left \in [Swappers -> Indices] /\ right \in [Swappers -> Indices]
      /\ mx_array \in [Indices -> Swappers \cup Printers \cup {Nobody}]
      /\ \A i, j \in Indices : i < j => i # j
  BY DEF Types, Indices
<1> USE DEF SwapperLocks, HeldBySwapper, HoldsLeft, HoldsRight
<1>1. ASSUME NEW t \in Swappers, Starts(t) PROVE SwapperLocks'
  BY <1>0, <1>1 DEF Starts
<1>2. ASSUME NEW t \in Swappers, Ends(t) PROVE SwapperLocks'
  BY <1>0, <1>2 DEF Ends
<1>3. ASSUME NEW t \in Swappers, LockStep(t) PROVE SwapperLocks'
  <2>1. CASE spc[t] = "lock_left"
    <3>1. /\ mx_array[left[t]] = Nobody
          /\ mx_array' = [mx_array EXCEPT ![left[t]] = t]
          /\ spc' = [spc EXCEPT ![t] = "lock_right"]
          /\ UNCHANGED <<left, right>>
      BY <1>3, <2>1 DEF LockStep, LockPair, Lock
    <3>2. \A j \in Indices : mx_array'[j] = IF j = left[t] THEN t ELSE mx_array[j]
      BY <1>0, <3>1
    <3> QED
      BY <1>0, <2>1, <3>1, <3>2
  <2>2. CASE spc[t] = "lock_right"
    <3>1. /\ mx_array[right[t]] = Nobody
          /\ mx_array' = [mx_array EXCEPT ![right[t]] = t]
          /\ spc' = [spc EXCEPT ![t] = "move"]
          /\ UNCHANGED <<left, right>>
      BY <1>3, <2>2 DEF LockStep, LockPair, Lock
    <3>2. \A j \in Indices : mx_array'[j] = IF j = right[t] THEN t ELSE mx_array[j]
      BY <1>0, <3>1
    <3> QED
      BY <1>0, <2>2, <3>1, <3>2
  <2> QED
    BY <1>3, <2>1, <2>2 DEF LockStep, LockPair
<1>4. ASSUME NEW t \in Swappers, Move(t) PROVE SwapperLocks'
  BY <1>0, <1>4 DEF Move
<1>5. ASSUME NEW t \in Swappers, Put(t) PROVE SwapperLocks'
  BY <1>0, <1>5 DEF Put
<1>6. ASSUME NEW t \in Swappers, UnlockRight(t) PROVE SwapperLocks'
  <2>1. /\ spc[t] = "unlock_right" /\ spc' = [spc EXCEPT ![t] = "unlock_left"]
        /\ mx_array' = [mx_array EXCEPT ![right[t]] = Nobody]
        /\ UNCHANGED <<left, right>>
    BY <1>6 DEF UnlockRight, Unlock
  <2>2. \A j \in Indices : mx_array'[j] = IF j = right[t] THEN Nobody ELSE mx_array[j]
    BY <1>0, <2>1
  <2>3. left[t] # right[t] /\ mx_array[right[t]] = t
    BY <1>0, <2>1 DEF PairOrdered
  <2> QED
    BY <1>0, <2>1, <2>2, <2>3
<1>7. ASSUME NEW t \in Swappers, UnlockLeft(t) PROVE SwapperLocks'
  <2>1. /\ spc[t] = "unlock_left"
        /\ spc' = [spc EXCEPT ![t] = spc'[t]] /\ spc'[t] \in {"lock_left", "stats"}
        /\ mx_array' = [mx_array EXCEPT ![left[t]] = Nobody]
        /\ left' = [left EXCEPT ![t] = left'[t]] /\ right' = [right EXCEPT ![t] = right'[t]]
    BY <1>0, <1>7 DEF UnlockLeft, Unlock
  <2>2. \A j \in Indices : mx_array'[j] = IF j = left[t] THEN Nobody ELSE mx_array[j]
    BY <1>0, <2>1
  <2>3. mx_array[left[t]] = t
    BY <1>0, <2>1
  <2>4. \A u \in Swappers : u # t => spc'[u] = spc[u] /\ left'[u] = left[u] /\ right'[u] = right[u]
    BY <1>0, <2>1
  <2> QED
    BY <1>0, <2>1, <2>2, <2>3, <2>4
<1>8. ASSUME NEW p \in Printers, PrinterStarts(p) PROVE SwapperLocks'
  BY <1>8 DEF PrinterStarts
<1>9. ASSUME NEW p \in Printers, PrinterLost(p) PROVE SwapperLocks'
  BY <1>9 DEF PrinterLost
<1>10. ASSUME NEW p \in Printers, LockCells(p) PROVE SwapperLocks'
  <2>1. \A j \in Indices : mx_array'[j] = IF j = next[p] THEN p ELSE mx_array[j]
    BY <1>10 DEF LockCells, Lock, Types
  <2> QED
    BY <1>0, <1>10, <2>1 DEF LockCells, Lock
<1>11. ASSUME NEW p \in Printers, PrintCells(p) PROVE SwapperLocks'
  BY <1>11 DEF PrintCells
<1>12. ASSUME NEW p \in Printers, UnlockCells(p) PROVE SwapperLocks'
  <2>1. next[p] \in Indices
    BY DEF Types
  <2>2. \A j \in Indices : mx_array'[j] = IF j = next[p] THEN Nobody ELSE mx_array[j]
    BY <1>0, <1>12, <2>1 DEF UnlockCells, Unlock
  <2>3. mx_array[next[p]] = p
    BY <1>12, <2>1 DEF UnlockCells, PrinterLocks, HeldByPrinter, Indices
  <2> QED
    BY <1>0, <1>12, <2>2, <2>3 DEF UnlockCells
<1>13. CASE UNCHANGED cells
  BY <1>13 DEF cells
<1> QED
  BY <1>1, <1>2, <1>3, <1>4, <1>5, <1>6, <1>7, <1>8, <1>9, <1>10, <1>11, <1>12, <1>13
     DEF CellStep

\* So does a printer, with all cells one after the other.
LEMMA PrinterLocksStep ==
    ASSUME Types, SwapperLocks, PrinterLocks, CellStep PROVE PrinterLocks'
<1> USE ThreadsAssumption DEF swapping, printing, shared
<1>0. /\ ppc \in [Printers -> PrinterPCs] /\ next \in [Printers -> Indices]
      /\ mx_array \in [Indices -> Swappers \cup Printers \cup {Nobody}]
      /\ left \in [Swappers -> Indices] /\ right \in [Swappers -> Indices]
  BY DEF Types
<1> USE DEF PrinterLocks, HeldByPrinter
<1>1. ASSUME NEW i \in Indices, NEW t \in Swappers, UNCHANGED printing,
             \/ mx_array[i] = Nobody /\ mx_array' = [mx_array EXCEPT ![i] = t]
             \/ mx_array[i] = t /\ mx_array' = [mx_array EXCEPT ![i] = Nobody]
      PROVE  PrinterLocks'
  <2>1. ASSUME NEW p \in Printers, NEW j \in Indices PROVE mx_array'[j] = p <=> mx_array[j] = p
    BY <1>0, <1>1
  <2> QED
    BY <1>1, <2>1
<1>2. ASSUME UNCHANGED <<mx_array, printing>> PROVE PrinterLocks'
  BY <1>2
<1>3. ASSUME NEW t \in Swappers, Starts(t) \/ Ends(t) \/ Move(t) \/ Put(t) PROVE PrinterLocks'
  BY <1>2, <1>3 DEF Starts, Ends, Move, Put
<1>4. ASSUME NEW t \in Swappers, LockStep(t) PROVE PrinterLocks'
  BY <1>0, <1>1, <1>4 DEF LockStep, LockPair, Lock
<1>5. ASSUME NEW t \in Swappers, UnlockRight(t) \/ UnlockLeft(t) PROVE PrinterLocks'
  <2>1. /\ spc[t] = "unlock_right" => mx_array[right[t]] = t
        /\ spc[t] = "unlock_left" => mx_array[left[t]] = t
    BY <1>0 DEF SwapperLocks, HeldBySwapper, HoldsLeft, HoldsRight
  <2> QED
    BY <1>0, <1>1, <1>5, <2>1 DEF UnlockRight, UnlockLeft, Unlock
<1> USE DEF Indices
<1>6. ASSUME NEW p \in Printers, PrinterStarts(p) PROVE PrinterLocks'
  <2>1. ppc[p] = "idle" => \A j \in Indices : mx_array[j] # p
    OBVIOUS
  <2>2. /\ UNCHANGED mx_array /\ ppc[p] = "idle" /\ ppc'[p] = "lock" /\ next'[p] = 0
        /\ \A q \in Printers : q # p => ppc'[q] = ppc[q] /\ next'[q] = next[q]
    BY <1>0, <1>6 DEF PrinterStarts
  <2> QED
    BY <2>1, <2>2
<1>7. ASSUME NEW p \in Printers, PrinterLost(p) PROVE PrinterLocks'
  BY <1>0, <1>7 DEF PrinterLost
<1>8. ASSUME NEW p \in Printers, NEW l, NEW k, PNext(p, l, k)
      PROVE  /\ \A q \in Printers : q # p => ppc'[q] = ppc[q] /\ next'[q] = next[q]
             /\ \/ next[p] < N - 1 /\ ppc'[p] = l /\ next'[p] = next[p] + 1
                \/ next[p] = N - 1 /\ ppc'[p] = k /\ next'[p] = 0
  BY <1>0, <1>8, SizeAssumption DEF PNext
<1>9. ASSUME NEW p \in Printers, LockCells(p) PROVE PrinterLocks'
  <2>1. /\ \A j \in Indices : mx_array'[j] = IF j = next[p] THEN p ELSE mx_array[j]
        /\ mx_array[next[p]] = Nobody /\ ppc[p] = "lock"
    BY <1>0, <1>9 DEF LockCells, Lock
  <2>2. ASSUME NEW q \in Printers, NEW j \in Indices, ppc'[q] # "undefined", q # p
        PROVE  mx_array'[j] = q <=> HeldByPrinter(q, j)'
    BY <1>0, <1>8, <1>9, <2>1, <2>2 DEF LockCells
  <2>3. ASSUME NEW j \in Indices
        PROVE  mx_array'[j] = p <=> HeldByPrinter(p, j)'
    <3>1. mx_array[j] = p <=> j < next[p]
      BY <2>1
    <3>2. mx_array'[j] = p <=> j <= next[p]
      BY <1>0, <2>1, <3>1
    <3> QED
      BY <1>0, <1>8, <1>9, <3>2 DEF LockCells
  <2> QED
    BY <2>2, <2>3
<1>10. ASSUME NEW p \in Printers, PrintCells(p) PROVE PrinterLocks'
  <2>1. ppc[p] = "print" /\ UNCHANGED mx_array
    BY <1>10 DEF PrintCells
  <2>2. \A j \in Indices : mx_array[j] = p
    BY <2>1
  <2> QED
    BY <1>0, <1>8, <1>10, <2>1, <2>2 DEF PrintCells
<1>11. ASSUME NEW p \in Printers, UnlockCells(p) PROVE PrinterLocks'
  <2>1. /\ \A j \in Indices : mx_array'[j] = IF j = next[p] THEN Nobody ELSE mx_array[j]
        /\ ppc[p] = "unlock" /\ mx_array[next[p]] = p
    BY <1>0, <1>11 DEF UnlockCells, Unlock
  <2>2. ASSUME NEW q \in Printers, NEW j \in Indices, ppc'[q] # "undefined", q # p
        PROVE  mx_array'[j] = q <=> HeldByPrinter(q, j)'
    BY <1>0, <1>8, <1>11, <2>1, <2>2 DEF UnlockCells
  <2>3. ASSUME NEW j \in Indices
        PROVE  mx_array'[j] = p <=> HeldByPrinter(p, j)'
    <3>1. mx_array[j] = p <=> j >= next[p]
      BY <2>1
    <3>2. mx_array'[j] = p <=> j > next[p]
      BY <1>0, <2>1, <3>1
    <3> QED
      BY <1>0, <1>8, <1>11, <3>2 DEF UnlockCells
  <2> QED
    BY <2>2, <2>3
<1>12. CASE UNCHANGED cells
  BY <1>2, <1>12 DEF cells
<1> QED
  BY <1>3, <1>4, <1>5, <1>6, <1>7, <1>9, <1>10, <1>11, <1>12 DEF CellStep

-----------------------------------------------------------------------------
(* The numbers in the array *)

\* Restored puts back what is in temp: two swappers never have the same cell.
RestoredCells ==
    \A i \in Indices :
        /\ \A t \in Swappers : spc[t] = "put" /\ right[t] = i => Restored[i] = temp[t]
        /\ (\A t \in Swappers : ~ (spc[t] = "put" /\ right[t] = i)) => Restored[i] = array[i]

LEMMA RestoredIs == SwapperLocks => RestoredCells
<1> SUFFICES ASSUME SwapperLocks, NEW i \in Indices
             PROVE  /\ \A t \in Swappers : spc[t] = "put" /\ right[t] = i => Restored[i] = temp[t]
                    /\ (\A t \in Swappers : ~ (spc[t] = "put" /\ right[t] = i))
                           => Restored[i] = array[i]
  BY DEF RestoredCells
<1>1. ASSUME NEW t \in Swappers, NEW u \in Swappers,
             spc[t] = "put", right[t] = i, spc[u] = "put", right[u] = i
      PROVE  t = u
  BY <1>1 DEF SwapperLocks, HeldBySwapper, HoldsRight
<1>2. Restored[i] = IF \E t \in Swappers : spc[t] = "put" /\ right[t] = i
                    THEN temp[CHOOSE t \in Swappers : spc[t] = "put" /\ right[t] = i]
                    ELSE array[i]
  BY DEF Restored
<1>3. ASSUME NEW t \in Swappers, spc[t] = "put", right[t] = i PROVE Restored[i] = temp[t]
  <2>1. (CHOOSE u \in Swappers : spc[u] = "put" /\ right[u] = i) = t
    BY <1>1, <1>3
  <2> QED
    BY <1>2, <1>3, <2>1
<1> QED
  BY <1>2, <1>3

\* A cell that t holds is no other swapper's to put into.
LEMMA OwnCells ==
    ASSUME SwapperLocks, NEW t \in Swappers, NEW i \in Indices, mx_array[i] = t, spc[t] # "put"
    PROVE  \A u \in Swappers : ~ (spc[u] = "put" /\ right[u] = i)
BY DEF SwapperLocks, HeldBySwapper, HoldsRight

\* A step outside the two assignments of a swap leaves Restored as it is.
LEMMA RestoredKept ==
    ASSUME RestoredCells, RestoredCells', UNCHANGED array,
           \A t \in Swappers : /\ spc'[t] = "put" <=> spc[t] = "put"
                               /\ spc[t] = "put" => right'[t] = right[t] /\ temp'[t] = temp[t]
    PROVE  \A i \in Indices : Restored'[i] = Restored[i]
<1> SUFFICES ASSUME NEW i \in Indices PROVE Restored'[i] = Restored[i]
  OBVIOUS
<1>1. CASE \E t \in Swappers : spc[t] = "put" /\ right[t] = i
  BY <1>1 DEF RestoredCells
<1>2. CASE \A t \in Swappers : ~ (spc[t] = "put" /\ right[t] = i)
  BY <1>2 DEF RestoredCells
<1> QED
  BY <1>1, <1>2

LEMMA InjectiveIs ==
    /\ NothingLost <=> \A i, j \in Indices : Restored[i] = Restored[j] => i = j
    /\ NothingLost' <=> \A i, j \in Indices : Restored'[i] = Restored'[j] => i = j
<1>1. DOMAIN Restored = Indices /\ DOMAIN Restored' = Indices
  BY DEF Restored, Indices
<1> QED
  BY <1>1 DEF NothingLost, IsInjective

\* The first assignment of a swap exchanges the two numbers for Restored ...
LEMMA MoveSwaps ==
    ASSUME Types, PairOrdered, SwapperLocks, SwapperLocks', NEW t \in Swappers, Move(t)
    PROVE  /\ left[t] \in Indices /\ right[t] \in Indices /\ left[t] # right[t]
           /\ Restored'[left[t]] = Restored[right[t]] /\ Restored'[right[t]] = Restored[left[t]]
           /\ \A i \in Indices : i # left[t] /\ i # right[t] => Restored'[i] = Restored[i]
<1> DEFINE l == left[t]
           r == right[t]
<1>0. /\ spc \in [Swappers -> SwapperPCs] /\ temp \in [Swappers -> Indices]
      /\ left \in [Swappers -> Indices] /\ right \in [Swappers -> Indices]
      /\ array \in [Indices -> Indices]
      /\ \A i, j \in Indices : i < j => i # j
  BY DEF Types, Indices
<1>1. RestoredCells /\ RestoredCells'
  <2>1. SwapperLocks' => RestoredCells'
    BY RestoredIs, PTL
  <2> QED
    BY <2>1, RestoredIs
<1>2. /\ l \in Indices /\ r \in Indices /\ l # r
      /\ mx_array[l] = t /\ mx_array[r] = t
  BY <1>0 DEF Move, PairOrdered, SwapperLocks, HeldBySwapper, HoldsLeft, HoldsRight
<1>3. Restored[l] = array[l] /\ Restored[r] = array[r]
  BY <1>1, <1>2, OwnCells DEF RestoredCells, Move
<1>4. /\ spc[t] = "move" /\ spc' = [spc EXCEPT ![t] = "put"]
      /\ temp' = [temp EXCEPT ![t] = array[l]] /\ UNCHANGED <<left, right>>
      /\ array' = [array EXCEPT ![l] = array[r]]
  BY DEF Move, SGoto
<1> HIDE DEF l, r
<1>5. Restored'[r] = array[l]
  BY <1>0, <1>1, <1>2, <1>4 DEF RestoredCells, r
<1>6. Restored'[l] = array[r]
  <2>1. \A u \in Swappers : ~ (spc[u] = "put" /\ right[u] = l)
    BY <1>2, <1>4, OwnCells
  <2>2. \A u \in Swappers : ~ (spc'[u] = "put" /\ right'[u] = l)
    BY <1>0, <1>2, <1>4, <2>1 DEF r
  <2>3. Restored'[l] = array'[l]
    BY <1>1, <1>2, <2>2 DEF RestoredCells
  <2> QED
    BY <1>0, <1>2, <1>4, <2>3
<1>7. ASSUME NEW i \in Indices, i # l, i # r PROVE Restored'[i] = Restored[i]
  <2>1. array'[i] = array[i]
    BY <1>0, <1>2, <1>4, <1>7
  <2>2. CASE \E u \in Swappers : spc[u] = "put" /\ right[u] = i
    <3>1. PICK u \in Swappers : spc[u] = "put" /\ right[u] = i
      BY <2>2
    <3>2. u # t /\ spc'[u] = "put" /\ right'[u] = i /\ temp'[u] = temp[u]
      BY <1>0, <1>4, <3>1
    <3> QED
      BY <1>1, <3>1, <3>2 DEF RestoredCells
  <2>3. CASE \A u \in Swappers : ~ (spc[u] = "put" /\ right[u] = i)
    <3>1. \A u \in Swappers : ~ (spc'[u] = "put" /\ right'[u] = i)
      BY <1>0, <1>4, <1>7, <2>3 DEF r
    <3> QED
      BY <1>1, <2>1, <2>3, <3>1 DEF RestoredCells
  <2> QED
    BY <2>2, <2>3
<1> QED
  BY <1>2, <1>3, <1>5, <1>6, <1>7 DEF l, r

\* ... and the second changes nothing for it.
LEMMA PutKeeps ==
    ASSUME Types, SwapperLocks, SwapperLocks', NEW t \in Swappers, Put(t)
    PROVE  \A i \in Indices : Restored'[i] = Restored[i]
<1> DEFINE r == right[t]
<1>0. /\ spc \in [Swappers -> SwapperPCs] /\ right \in [Swappers -> Indices]
      /\ array \in [Indices -> Indices]
  BY DEF Types
<1>1. RestoredCells /\ RestoredCells'
  <2>1. SwapperLocks' => RestoredCells'
    BY RestoredIs, PTL
  <2> QED
    BY <2>1, RestoredIs
<1>2. /\ r \in Indices /\ mx_array[r] = t
      /\ \A u \in Swappers : spc[u] = "put" /\ right[u] = r => u = t
  BY <1>0 DEF Put, SwapperLocks, HeldBySwapper, HoldsRight
<1>3. /\ spc[t] = "put" /\ spc' = [spc EXCEPT ![t] = "unlock_right"]
      /\ UNCHANGED <<left, right, temp>>
      /\ array' = [array EXCEPT ![r] = temp[t]]
  BY DEF Put, SGoto
<1>4. Restored[r] = temp[t]
  BY <1>1, <1>2, <1>3 DEF RestoredCells
<1> HIDE DEF r
<1>5. ASSUME NEW i \in Indices PROVE Restored'[i] = Restored[i]
  <2>1. CASE i = r
    <3>1. \A u \in Swappers : ~ (spc'[u] = "put" /\ right'[u] = r)
      BY <1>0, <1>2, <1>3
    <3>2. Restored'[r] = array'[r]
      BY <1>1, <1>2, <3>1 DEF RestoredCells
    <3> QED
      BY <1>0, <1>2, <1>3, <1>4, <2>1, <3>2
  <2>2. CASE i # r /\ \E u \in Swappers : spc[u] = "put" /\ right[u] = i
    <3>1. PICK u \in Swappers : spc[u] = "put" /\ right[u] = i
      BY <2>2
    <3>2. u # t /\ spc'[u] = "put" /\ right'[u] = i /\ temp'[u] = temp[u]
      BY <1>0, <1>3, <2>2, <3>1 DEF r
    <3> QED
      BY <1>1, <3>1, <3>2 DEF RestoredCells
  <2>3. CASE i # r /\ \A u \in Swappers : ~ (spc[u] = "put" /\ right[u] = i)
    <3>1. \A u \in Swappers : ~ (spc'[u] = "put" /\ right'[u] = i)
      BY <1>0, <1>3, <2>3
    <3>2. array'[i] = array[i]
      BY <1>0, <1>2, <1>3, <2>3
    <3> QED
      BY <1>1, <2>3, <3>1, <3>2 DEF RestoredCells
  <2> QED
    BY <2>1, <2>2, <2>3
<1> QED
  BY <1>5

\* All other steps leave it alone.
OtherStep ==
    \/ \E t \in Swappers : Starts(t) \/ Ends(t) \/ LockStep(t) \/ Put(t)
                              \/ UnlockRight(t) \/ UnlockLeft(t)
    \/ \E p \in Printers : PrinterStarts(p) \/ PrinterLost(p) \/ LockCells(p) \/ PrintCells(p)
                              \/ UnlockCells(p)
    \/ UNCHANGED cells

LEMMA OthersKeep ==
    ASSUME Types, SwapperLocks, SwapperLocks', OtherStep
    PROVE  \A i \in Indices : Restored'[i] = Restored[i]
<1> DEFINE Kept == \A i \in Indices : Restored'[i] = Restored[i]
<1>0. spc \in [Swappers -> SwapperPCs]
  BY DEF Types
<1>1. RestoredCells /\ RestoredCells'
  <2>1. SwapperLocks' => RestoredCells'
    BY RestoredIs, PTL
  <2> QED
    BY <2>1, RestoredIs
<1>2. ASSUME UNCHANGED array,
             \A t \in Swappers : /\ spc'[t] = "put" <=> spc[t] = "put"
                                 /\ spc[t] = "put" => right'[t] = right[t] /\ temp'[t] = temp[t]
      PROVE  Kept
  BY <1>1, <1>2, RestoredKept
<1> HIDE DEF Kept
<1>3. ASSUME UNCHANGED <<array, swapping>> PROVE Kept
  BY <1>2, <1>3 DEF swapping
<1>4. ASSUME NEW t \in Swappers, Starts(t) \/ Ends(t) PROVE Kept
  BY <1>0, <1>2, <1>4 DEF Starts, Ends, Types
<1>5. ASSUME NEW t \in Swappers, LockStep(t) PROVE Kept
  BY <1>0, <1>2, <1>5 DEF LockStep, LockPair, SGoto
<1>6. ASSUME NEW t \in Swappers, UnlockRight(t) \/ UnlockLeft(t) PROVE Kept
  BY <1>0, <1>2, <1>6 DEF UnlockRight, UnlockLeft, SGoto, Types
<1>7. ASSUME NEW t \in Swappers, Put(t) PROVE Kept
  BY <1>7, PutKeeps DEF Kept
<1>8. ASSUME NEW p \in Printers,
             PrinterStarts(p) \/ PrinterLost(p) \/ LockCells(p) \/ PrintCells(p) \/ UnlockCells(p)
      PROVE  Kept
  <2>1. UNCHANGED <<array, swapping>>
    BY <1>8 DEF PrinterStarts, PrinterLost, LockCells, PrintCells, UnlockCells, shared
  <2> QED
    BY <1>3, <2>1
<1>9. ASSUME UNCHANGED cells PROVE Kept
  BY <1>3, <1>9 DEF cells
<1> QED
  BY <1>4, <1>5, <1>6, <1>7, <1>8, <1>9 DEF OtherStep, Kept

\* A swap exchanges two numbers, in two steps that are one for Restored.
LEMMA NothingLostStep ==
    ASSUME Types, PairOrdered, SwapperLocks, NothingLost, SwapperLocks', CellStep
    PROVE  NothingLost'
<1>1. ASSUME NEW t \in Swappers, Move(t) PROVE NothingLost'
  <2> DEFINE l == left[t]
             r == right[t]
             Other(i) == IF i = l THEN r ELSE IF i = r THEN l ELSE i
  <2>1. /\ l \in Indices /\ r \in Indices /\ l # r
        /\ Restored'[l] = Restored[r] /\ Restored'[r] = Restored[l]
        /\ \A i \in Indices : i # l /\ i # r => Restored'[i] = Restored[i]
    BY <1>1, MoveSwaps
  <2> HIDE DEF l, r
  <2>2. \A i \in Indices : Other(i) \in Indices /\ Restored'[i] = Restored[Other(i)]
    BY <2>1
  <2>3. \A i, j \in Indices : Other(i) = Other(j) => i = j
    BY <2>1
  <2> HIDE DEF Other
  <2> QED
    BY <2>2, <2>3, InjectiveIs
<1>2. CASE OtherStep
  BY <1>2, OthersKeep, InjectiveIs
<1> QED
  BY <1>1, <1>2 DEF CellStep, OtherStep

-----------------------------------------------------------------------------
(* The line that is printed *)

\* While a printer reads, all cells are its own: nobody writes and nobody is
\* between the two assignments of a swap.
LEMMA PrinterAlone ==
    ASSUME Types, SwapperLocks, PrinterLocks, NEW p \in Printers, ppc[p] = "print"
    PROVE  \A t \in Swappers : spc[t] \notin {"move", "put"}
<1> SUFFICES ASSUME NEW t \in Swappers, spc[t] \in {"move", "put"} PROVE FALSE
  OBVIOUS
<1>1. right[t] \in Indices /\ mx_array[right[t]] = t
  BY DEF Types, SwapperLocks, HeldBySwapper, HoldsRight
<1>2. mx_array[right[t]] = p
  BY <1>1 DEF PrinterLocks, HeldByPrinter
<1> QED
  BY <1>1, <1>2, ThreadsAssumption

LEMMA ArrayIsPermutation ==
    ASSUME SwapperLocks, NothingLost, \A t \in Swappers : spc[t] # "put"
    PROVE  \A i, j \in Indices : array[i] = array[j] => i = j
<1>1. RestoredCells
  BY RestoredIs
<1>2. \A i \in Indices : Restored[i] = array[i]
  BY <1>1 DEF RestoredCells
<1> QED
  BY <1>2, InjectiveIs

\* The cells that a printer has read, with the one it reads now.
LEMMA CellsRead ==
    ASSUME Types, LineIsCurrent, NEW p \in Printers, PrintCells(p)
    PROVE  /\ printed'[p] \in [Indices -> Indices]
           /\ \A i \in Indices : i <= next[p] => printed'[p][i] = array[i]
<1>1. /\ next[p] \in Indices /\ printed[p] \in [Indices -> Indices]
      /\ printed \in [Printers -> [Indices -> Indices]]
      /\ array \in [Indices -> Indices]
  BY DEF Types
<1>2. printed'[p] = [printed[p] EXCEPT ![next[p]] = array[next[p]]]
  BY <1>1 DEF PrintCells
<1>3. \A i \in Indices : i < next[p] => printed[p][i] = array[i]
  BY DEF PrintCells, LineIsCurrent
<1>4. \A i \in Indices : i <= next[p] => i < next[p] \/ i = next[p]
  BY <1>1 DEF Indices
<1> QED
  BY <1>1, <1>2, <1>3, <1>4

\* The line a printer has read is the array, and a permutation when it is whole.
LEMMA LineStep ==
    ASSUME Types, SwapperLocks, PrinterLocks, NothingLost, LineIsCurrent, LineIsPermutation, CellStep
    PROVE  LineIsCurrent' /\ LineIsPermutation'
<1> USE DEF LineIsCurrent, LineIsPermutation, swapping, printing, shared
<1>0. /\ ppc \in [Printers -> PrinterPCs] /\ next \in [Printers -> Indices]
      /\ printed \in [Printers -> [Indices -> Indices]] /\ array \in [Indices -> Indices]
  BY DEF Types
<1>1. CASE UNCHANGED <<array, printing>>
  BY <1>1 DEF Indices
<1>2. ASSUME NEW t \in Swappers, Starts(t) \/ Ends(t) \/ LockStep(t) \/ UnlockRight(t) \/ UnlockLeft(t)
      PROVE  UNCHANGED <<array, printing>>
  BY <1>2 DEF Starts, Ends, LockStep, UnlockRight, UnlockLeft
<1>3. ASSUME NEW t \in Swappers, Move(t) \/ Put(t) PROVE LineIsCurrent' /\ LineIsPermutation'
  <2>1. \A p \in Printers : ppc[p] # "print"
    BY <1>3, PrinterAlone DEF Move, Put
  <2>2. UNCHANGED printing
    BY <1>3 DEF Move, Put
  <2> QED
    BY <2>1, <2>2
<1>4. ASSUME NEW p \in Printers, UNCHANGED <<array, printed>>, NEW k,
             \A q \in Printers : q # p => ppc'[q] = ppc[q] /\ next'[q] = next[q],
             \/ ppc'[p] \in {"lock", "undefined", "idle"}
             \/ ppc'[p] = "print" /\ next'[p] = 0
             \/ ppc'[p] = "unlock" /\ ppc[p] = "unlock"
      PROVE  LineIsCurrent' /\ LineIsPermutation'
  BY <1>0, <1>4 DEF Indices
<1>5. ASSUME NEW p \in Printers, PrinterStarts(p) \/ PrinterLost(p)
      PROVE  LineIsCurrent' /\ LineIsPermutation'
  BY <1>0, <1>4, <1>5 DEF PrinterStarts, PrinterLost
<1>6. ASSUME NEW p \in Printers, LockCells(p) \/ UnlockCells(p)
      PROVE  LineIsCurrent' /\ LineIsPermutation'
  BY <1>0, <1>4, <1>6 DEF LockCells, UnlockCells, PNext
<1>7. ASSUME NEW p \in Printers, PrintCells(p) PROVE LineIsCurrent' /\ LineIsPermutation'
  <2>1. /\ ppc[p] = "print" /\ UNCHANGED array
        /\ printed' = [printed EXCEPT ![p][next[p]] = array[next[p]]]
        /\ PNext(p, "print", "unlock")
    BY <1>7 DEF PrintCells
  <2>2. \A i \in Indices : i <= next[p] => printed'[p][i] = array[i]
    BY <1>7, CellsRead
  <2>3. /\ printed'[p] \in [Indices -> Indices]
        /\ \A q \in Printers : q # p => /\ printed'[q] = printed[q]
                                        /\ ppc'[q] = ppc[q] /\ next'[q] = next[q]
    BY <1>0, <2>1 DEF PNext
  <2>4. CASE next[p] < N - 1
    <3>1. ppc'[p] = "print" /\ next'[p] = next[p] + 1
      BY <1>0, <2>1, <2>4 DEF PNext
    <3>2. \A i \in Indices : i < next'[p] => printed'[p][i] = array[i]
      BY <1>0, <2>2, <3>1 DEF Indices
    <3> QED
      BY <2>1, <2>3, <3>1, <3>2 DEF Indices
  <2>5. CASE ~ next[p] < N - 1
    <3>1. ppc'[p] = "unlock"
      BY <1>0, <2>1, <2>5 DEF PNext
    <3>2. \A i \in Indices : printed'[p][i] = array[i]
      BY <1>0, <2>2, <2>5, SizeAssumption DEF Indices
    <3>3. \A i, j \in Indices : array[i] = array[j] => i = j
      BY <2>1, PrinterAlone, ArrayIsPermutation
    <3>4. IsInjective(printed'[p])
      BY <2>3, <3>2, <3>3 DEF IsInjective
    <3> QED
      BY <2>1, <2>3, <3>1, <3>4 DEF Indices
  <2> QED
    BY <2>4, <2>5
<1>8. CASE UNCHANGED cells
  BY <1>1, <1>8 DEF cells
<1> QED
  BY <1>1, <1>2, <1>3, <1>5, <1>6, <1>7, <1>8 DEF CellStep

-----------------------------------------------------------------------------
(* Counting the swappers, and the end *)

\* The swappers that run are finitely many.
LEMMA RunningFinite == IsFiniteSet(Running) /\ Cardinality(Running) \in Nat
<1>1. Running \in SUBSET Swappers
  BY DEF Running
<1> QED
  BY <1>1, ThreadsAssumption, FS_Subset, FS_CardinalityType


\* active_threads goes up with a swapper that main creates and down with one that
\* finishes; main frees the array when there is none, and creates none after that.
LEMMA MainStepInv ==
    ASSUME Types, MainInv, [StagesNext]_stagevars PROVE MainInv'
<1>0. /\ spc \in [Swappers -> SwapperPCs] /\ MainThread \in Swappers
      /\ IsFiniteSet(Running) /\ Cardinality(Running) \in Nat /\ P \in Nat \ {0}
      /\ active_threads \in Nat /\ stage \in {1, 2, 4}
  BY MainIsSwapper, RunningFinite, SizeAssumption DEF Types, MainInv, MainWaits
<1>1. stage = 4 => /\ active_threads <= P
                   /\ active_threads = Cardinality(Running) + (IF mpc = "create" THEN 1 ELSE 0)
  BY DEF MainInv, StagesCountIsExact, CountIsExact, Running
<1>2. stage # 4 => (mpc = "invert" <=> spc[MainThread] # "idle") /\ mpc # "create" /\ ~ freed
  BY DEF MainInv, MainInverts
<1>3. (mpc = "clean" => Running = {}) /\ (freed => mpc \in {"clean", "exit"} /\ Running = {})
  BY DEF MainInv, MainWaits
<1>4. ASSUME /\ UNCHANGED stage /\ active_threads' \in Nat
             /\ stage = 4 =>
                   /\ active_threads' <= P
                   /\ active_threads' = Cardinality(Running') + (IF mpc' = "create" THEN 1 ELSE 0)
             /\ stage # 4 =>
                   (mpc' = "invert" <=> spc'[MainThread] # "idle") /\ mpc' # "create" /\ ~ freed'
             /\ mpc' = "clean" => Running' = {}
             /\ freed' => mpc' \in {"clean", "exit"} /\ Running' = {}
      PROVE  MainInv'
  BY <1>0, <1>4
     DEF MainInv, MainInverts, MainWaits, StagesCountIsExact, CountIsExact, Running, MainThread
<1>5. (\A t \in Swappers : spc'[t] # "idle" <=> spc[t] # "idle") => Running' = Running
  BY DEF Running
<1>6. UNCHANGED swapping => Running' = Running /\ UNCHANGED spc
  BY <1>5 DEF swapping
<1> USE DEF shared, SGoto
<1>7. ASSUME NEW s \in Signals, Signal(s), UNCHANGED stage PROVE MainInv'
  BY <1>0, <1>1, <1>2, <1>3, <1>4, <1>6, <1>7 DEF Signal
<1>8. CASE StageMain
  <2>1. CASE CheckInterrupt \/ CheckSwap \/ BackToPause \/ CheckPrint \/ Exit
    BY <1>0, <1>1, <1>2, <1>3, <1>4, <1>6, <1>8, <2>1
       DEF StageMain, CheckInterrupt, CheckSwap, BackToPause, CheckPrint, Exit
  <2>2. CASE stage = 4 /\ WaitForThreads
    <3>1. Running = {}
      BY <1>0, <1>1, <2>2, FS_EmptySet DEF WaitForThreads
    <3> QED
      BY <1>0, <1>1, <1>2, <1>3, <1>4, <1>6, <1>8, <2>2, <3>1 DEF StageMain, WaitForThreads
  <2>3. CASE stage = 4 /\ CleanUp
    BY <1>0, <1>1, <1>2, <1>3, <1>4, <1>6, <1>8, <2>3 DEF StageMain, CleanUp
  <2>4. CASE stage = 4 /\ Admit
    BY <1>0, <1>1, <1>2, <1>3, <1>4, <1>6, <1>8, <2>4 DEF StageMain, Admit, Busy
  <2>5. CASE stage = 4 /\ CreateFails
    BY <1>0, <1>1, <1>2, <1>3, <1>4, <1>6, <1>8, <2>5 DEF StageMain, CreateFails
  <2>6. CASE stage = 4 /\ CreateSwapper
    <3>1. PICK t \in Swappers : spc[t] = "idle" /\ spc' = [spc EXCEPT ![t] = "lock_left"]
      BY <2>6 DEF CreateSwapper
    <3>2. Running' = Running \cup {t} /\ t \notin Running
      BY <1>0, <3>1 DEF Running
    <3>3. Cardinality(Running') = Cardinality(Running) + 1
      BY <1>0, <3>2, FS_AddElement
    <3>4. mpc = "create" /\ mpc' = "sig2" /\ UNCHANGED <<active_threads, freed, stage>>
      BY <1>8, <2>6 DEF CreateSwapper, StageMain
    <3> QED
      BY <1>0, <1>1, <1>3, <1>4, <2>6, <3>3, <3>4
  <2>7. CASE stage # 4 /\ Invert
    <3>1. /\ mpc = "admit" /\ UNCHANGED <<active_threads, freed, stage>>
          /\ \/ mpc' = "pause" /\ UNCHANGED swapping
             \/ mpc' = "invert" /\ spc' = [spc EXCEPT ![MainThread] = "lock_left"]
      BY <1>8, <2>7 DEF Invert, StageMain
    <3> QED
      BY <1>0, <1>2, <1>3, <1>4, <1>6, <2>7, <3>1
  <2>8. ASSUME stage # 4, NEW l \in {"pause", "sig2"}, InvertStep(l) PROVE MainInv'
    <3>1. mpc = "invert" /\ spc[MainThread] # "idle"
      BY <1>0, <1>2, <2>8 DEF InvertStep
    <3>2. /\ UNCHANGED <<active_threads, freed, stage>>
          /\ \/ mpc' = "invert" /\ spc'[MainThread] # "idle"
             \/ mpc' = l /\ spc'[MainThread] = "idle"
      BY <1>0, <1>8, <2>8, <3>1
         DEF StageMain, InvertStep, Inversion1, Inversion2, LockStep, LockPair, Move, Put,
             UnlockRight, UnlockLeft, main
    <3> QED
      BY <1>0, <1>2, <1>3, <1>4, <2>8, <3>1, <3>2
  <2> QED
    BY <1>0, <1>8, <2>1, <2>2, <2>3, <2>4, <2>5, <2>6, <2>7, <2>8
       DEF StageMain, Main1, Main2, Main3, Ending4
<1>9. ASSUME NEW t \in Swappers, StageSwapper(t) PROVE MainInv'
  <2>0. stage = 4 /\ UNCHANGED stage /\ ~ freed
    BY <1>9 DEF StageSwapper, Alive
  <2>1. CASE LockStep(t) \/ Move(t) \/ Put(t) \/ UnlockRight(t) \/ UnlockLeft(t)
    <3>1. /\ spc[t] # "idle" /\ UNCHANGED <<active_threads, main>>
          /\ \E l \in SwapperPCs \ {"idle"} : spc' = [spc EXCEPT ![t] = l]
      BY <2>1 DEF LockStep, LockPair, Move, Put, UnlockRight, UnlockLeft, SwapperPCs
    <3>2. Running' = Running
      BY <1>0, <1>5, <3>1
    <3> QED
      BY <1>0, <1>1, <1>3, <1>4, <2>0, <3>1, <3>2 DEF main
  <2>2. CASE Finish(t)
    <3>1. /\ spc[t] = "stats" /\ spc' = [spc EXCEPT ![t] = "idle"]
          /\ active_threads' = active_threads - 1 /\ UNCHANGED main
      BY <2>2 DEF Finish
    <3>2. Running' = Running \ {t} /\ t \in Running
      BY <1>0, <3>1 DEF Running
    <3>3. Cardinality(Running') = Cardinality(Running) - 1 /\ Cardinality(Running') \in Nat
      BY <1>0, <3>2, FS_RemoveElement, FS_CardinalityType
    <3>4. active_threads' \in Nat
      BY <1>0, <1>1, <2>0, <3>1, <3>3
    <3> QED
      BY <1>0, <1>1, <1>3, <1>4, <2>0, <3>1, <3>2, <3>3, <3>4 DEF main
  <2> QED
    BY <1>9, <2>1, <2>2 DEF StageSwapper, Swapping3, Inversion3, Inversion1
<1>10. ASSUME NEW p \in Printers, StagePrinter(p) PROVE MainInv'
  <2>1. UNCHANGED <<active_threads, main, swapping, stage>>
    BY <1>10 DEF StagePrinter, Printing2, Printing3, LockCells, PrintCells, UnlockCells, UseFreed
  <2> QED
    BY <1>0, <1>1, <1>2, <1>3, <1>4, <1>6, <2>1 DEF main
<1>11. CASE UNCHANGED stagevars
  BY <1>0, <1>1, <1>2, <1>3, <1>4, <1>6, <1>11 DEF stagevars, vars, main
<1>12. Quiet /\ UNCHANGED stage => UNCHANGED stagevars
  BY DEF Quiet, stagevars
<1> QED
  BY <1>7, <1>8, <1>9, <1>10, <1>11, <1>12 DEF StagesNext

-----------------------------------------------------------------------------
(* The theorems *)

LEMMA Initially == StagesInit => IInv
<1> SUFFICES ASSUME Init, stage \in {1, 2, 4} PROVE IInv
  BY DEF StagesInit, Start1, Start2, Start3, Start4
<1>0. 0 \in Indices /\ MainThread \in Swappers
  BY SizeAssumption, MainIsSwapper DEF Indices
<1>1. Types /\ PairOrdered
  BY <1>0 DEF Init, Types, PairOrdered, SwapperPCs, PrinterPCs
<1>2. SwapperLocks
  BY ThreadsAssumption DEF Init, SwapperLocks, HeldBySwapper, HoldsLeft, HoldsRight
<1>3. PrinterLocks /\ LineIsCurrent /\ LineIsPermutation
  BY ThreadsAssumption DEF Init, PrinterLocks, HeldByPrinter, LineIsCurrent, LineIsPermutation
<1>4. NothingLost
  <2>1. \A i \in Indices : Restored[i] = array[i]
    BY <1>2, RestoredIs DEF RestoredCells, Init
  <2> QED
    BY <2>1, InjectiveIs DEF Init
<1>5. Running = {}
  BY DEF Init, Running
<1>6. MainInv
  BY <1>0, <1>5, FS_EmptySet, SizeAssumption
     DEF Init, MainInv, MainInverts, MainWaits, StagesCountIsExact, CountIsExact, Running
<1> QED
  BY <1>1, <1>2, <1>3, <1>4, <1>6 DEF IInv

LEMMA Inductive == IInv /\ [StagesNext]_stagevars => IInv'
<1> SUFFICES ASSUME IInv, [StagesNext]_stagevars PROVE IInv'
  OBVIOUS
<1>1. CellStep
  BY Dispatch DEF IInv, MainInv
<1>2. Types' /\ PairOrdered'
  BY <1>1, TypesStep DEF IInv
<1>3. SwapperLocks' /\ PrinterLocks'
  BY <1>1, SwapperLocksStep, PrinterLocksStep DEF IInv
<1>4. NothingLost'
  BY <1>1, <1>3, NothingLostStep DEF IInv
<1>5. LineIsCurrent' /\ LineIsPermutation'
  BY <1>1, LineStep DEF IInv
<1>6. MainInv'
  BY MainStepInv DEF IInv
<1> QED
  BY <1>2, <1>3, <1>4, <1>5, <1>6 DEF IInv

\* The invariant always holds, in every stage.
THEOREM Invariance == StagesSpec => []IInv
BY Initially, Inductive, PTL DEF StagesSpec

\* perform_inversion: however many swappers overlap, no number is lost or doubled.
THEOREM SwapLosesNothing == StagesSpec => []NothingLost
<1>1. IInv => NothingLost
  BY DEF IInv
<1> QED
  BY <1>1, Invariance, PTL

\* printer_thread: a printed line shows each number once. (That it is the array at one
\* moment is InversionRefinement.)
THEOREM PrintsPermutations == StagesSpec => []LineIsPermutation
<1>1. IInv => LineIsPermutation
  BY DEF IInv
<1> QED
  BY <1>1, Invariance, PTL

\* active_threads is the number of the swappers and at most P.
THEOREM ExactCount == StagesSpec => []StagesCountIsExact
<1>1. IInv => StagesCountIsExact
  BY DEF IInv, MainInv
<1> QED
  BY <1>1, Invariance, PTL

\* No swapper runs when main destroys the mutexes and frees the array.
THEOREM CleanupAfterSwappers == StagesSpec => []NoSwapperAfterCleanup
<1>1. IInv => NoSwapperAfterCleanup
  BY DEF IInv, MainInv, MainWaits, Running, NoSwapperAfterCleanup
<1> QED
  BY <1>1, Invariance, PTL

\* Mutual exclusion of the cells: two swappers that swap have no cell in common,
\* and none swaps while a printer reads.
CellsExclusive ==
    /\ \A t, u \in Swappers :
          t # u /\ {spc[t], spc[u]} \subseteq {"move", "put"} =>
              {left[t], right[t]} \cap {left[u], right[u]} = {}
    /\ \A t \in Swappers, p \in Printers : ppc[p] = "print" => spc[t] \notin {"move", "put"}

THEOREM Exclusive == StagesSpec => []CellsExclusive
<1>1. IInv => CellsExclusive
  <2> SUFFICES ASSUME IInv PROVE CellsExclusive
    OBVIOUS
  <2>1. Types /\ SwapperLocks /\ PrinterLocks
    BY DEF IInv
  <2>2. ASSUME NEW t \in Swappers, NEW u \in Swappers, t # u,
               spc[t] \in {"move", "put"}, spc[u] \in {"move", "put"}
        PROVE  {left[t], right[t]} \cap {left[u], right[u]} = {}
    <3>1. /\ \A c \in {left[t], right[t]} : mx_array[c] = t
          /\ \A c \in {left[u], right[u]} : mx_array[c] = u
      BY <2>1, <2>2 DEF Types, SwapperLocks, HeldBySwapper, HoldsLeft, HoldsRight
    <3> QED
      BY <2>2, <3>1
  <2>3. \A t \in Swappers, p \in Printers : ppc[p] = "print" => spc[t] \notin {"move", "put"}
    BY <2>1, PrinterAlone
  <2> QED
    BY <2>2, <2>3 DEF CellsExclusive
<1> QED
  BY <1>1, Invariance, PTL
-----------------------------------------------------------------------------
(* Every stage implements Inversions *)

\* What rest is, by where the swapper is ...
RestCells ==
    /\ rest = [t \in Swappers |-> rest[t]]
    /\ \A t \in Swappers :
          /\ spc[t] \in {"idle", "stats"} => rest[t] = <<>>
          /\ spc[t] \in {"lock_left", "lock_right", "move"} => rest[t] = <<left[t], right[t]>>
          /\ spc[t] \in {"put", "unlock_right", "unlock_left"} =>
                rest[t] = AI!Piece(left[t] + 1, right[t] - 1)

LEMMA RestIs == RestCells
BY DEF RestCells, rest, AI!Piece

\* ... and line, by where the printer is.
LineCells ==
    /\ line = [p \in Printers |-> line[p]]
    /\ \A p \in Printers : line[p] = IF ppc[p] = "unlock" THEN printed[p] ELSE <<>>

LEMMA LineIs == LineCells
BY DEF LineCells, line

\* A step that keeps what a swapper has to invert keeps rest, ...
LEMMA RestKept ==
    ASSUME \A t \in Swappers : rest'[t] = rest[t] PROVE UNCHANGED rest
<1>1. RestCells /\ RestCells'
  BY RestIs, PTL
<1> QED
  BY <1>1 DEF RestCells

\* ... one that changes it for one swapper changes rest there, ...
LEMMA RestSet ==
    ASSUME NEW t \in Swappers, NEW piece, rest'[t] = piece,
           \A u \in Swappers : u # t => spc'[u] = spc[u] /\ left'[u] = left[u] /\ right'[u] = right[u]
    PROVE  rest' = [rest EXCEPT ![t] = piece]
<1>1. RestCells /\ RestCells'
  BY RestIs, PTL
<1>2. \A u \in Swappers : u # t => rest'[u] = rest[u]
  BY DEF rest
<1> QED
  BY <1>1, <1>2 DEF RestCells

\* ... and so it is with lines.
LEMMA LineKept ==
    ASSUME \A p \in Printers : line'[p] = line[p] PROVE UNCHANGED line
<1>1. LineCells /\ LineCells'
  BY LineIs, PTL
<1> QED
  BY <1>1 DEF LineCells

LEMMA LineSet ==
    ASSUME NEW p \in Printers, NEW shown, line'[p] = shown,
           \A q \in Printers : q # p => ppc'[q] = ppc[q] /\ printed'[q] = printed[q]
    PROVE  line' = [line EXCEPT ![p] = shown]
<1>1. LineCells /\ LineCells'
  BY LineIs, PTL
<1>2. \A q \in Printers : q # p => line'[q] = line[q]
  BY DEF line
<1> QED
  BY <1>1, <1>2 DEF LineCells

\* Restored is a function of the indices, so equal cells make it equal.
LEMMA RestoredSame ==
    ASSUME \A i \in Indices : Restored'[i] = Restored[i] PROVE UNCHANGED Restored
BY DEF Restored

\* With the printers and the pieces it stays as it is outside the steps that follow.
Mapped == <<Restored, rest, line>>

\* A swapper that starts begins its piece.
LEMMA StartsBegins ==
    ASSUME Types, SwapperLocks, SwapperLocks', NEW t \in Swappers, Starts(t)
    PROVE  AI!Begin(t)
<1>1. PICK a \in Indices, b \in Indices :
         /\ a < b
         /\ spc' = [spc EXCEPT ![t] = "lock_left"]
         /\ left' = [left EXCEPT ![t] = a]
         /\ right' = [right EXCEPT ![t] = b]
  BY DEF Starts
<1>2. UNCHANGED Restored
  BY OthersKeep, RestoredSame DEF OtherStep
<1>3. UNCHANGED line
  BY LineKept DEF Starts, printing, line
<1>4. RestCells /\ RestCells'
  BY RestIs, PTL
<1>5. rest[t] = <<>>
  BY <1>4 DEF RestCells, Starts
<1>6. rest'[t] = <<a, b>>
  BY <1>1, <1>4 DEF RestCells, Types
<1>7. rest' = [rest EXCEPT ![t] = <<a, b>>]
  BY <1>1, <1>6, RestSet DEF Types
<1> QED
  BY <1>1, <1>2, <1>3, <1>5, <1>7 DEF AI!Begin, AI!Indices, Indices

\* The first assignment of a swap is the swap.
LEMMA MoveIsSwap ==
    ASSUME Types, PairOrdered, SwapperLocks, SwapperLocks', NEW t \in Swappers, Move(t)
    PROVE  AI!Swap(t)
<1> DEFINE l == left[t]
           r == right[t]
<1>1. /\ l \in Indices /\ r \in Indices /\ l # r
      /\ Restored'[l] = Restored[r] /\ Restored'[r] = Restored[l]
      /\ \A i \in Indices : i # l /\ i # r => Restored'[i] = Restored[i]
  BY MoveSwaps
<1>2. l < r
  BY DEF Move, PairOrdered
<1>3. /\ spc[t] = "move" /\ spc' = [spc EXCEPT ![t] = "put"] /\ UNCHANGED <<left, right, printing>>
  BY DEF Move, SGoto
<1>4. Restored' = [Restored EXCEPT ![l] = Restored[r], ![r] = Restored[l]]
  <2>1. /\ Restored = [i \in Indices |-> Restored[i]]
        /\ Restored' = [i \in Indices |-> Restored'[i]]
    BY DEF Restored
  <2> HIDE DEF l, r
  <2> QED
    BY <1>1, <2>1
<1>5. UNCHANGED line
  BY <1>3, LineKept DEF printing, line
<1>6. RestCells /\ RestCells'
  BY RestIs, PTL
<1>7. rest[t] = <<l, r>> /\ rest'[t] = AI!Piece(l + 1, r - 1)
  BY <1>3, <1>6 DEF RestCells, Types
<1>8. rest' = [rest EXCEPT ![t] = AI!Piece(l + 1, r - 1)]
  BY <1>3, <1>7, RestSet DEF Types
<1> HIDE DEF l, r
<1> QED
  BY <1>1, <1>2, <1>4, <1>5, <1>7, <1>8 DEF AI!Swap, AI!Indices, Indices

\* The other steps of a swapper change nothing that can be seen.
LEMMA SwapperStutters ==
    ASSUME Types, PairOrdered, SwapperLocks, SwapperLocks', NEW t \in Swappers,
           Ends(t) \/ LockStep(t) \/ Put(t) \/ UnlockRight(t) \/ UnlockLeft(t)
    PROVE  UNCHANGED Mapped
<1>1. UNCHANGED Restored
  BY OthersKeep, RestoredSame DEF OtherStep
<1>2. UNCHANGED printing
  BY DEF Ends, LockStep, Put, UnlockRight, UnlockLeft
<1>3. UNCHANGED line
  BY <1>2, LineKept DEF printing, line
<1>4. RestCells /\ RestCells'
  BY RestIs, PTL
<1>5. \A u \in Swappers : u # t => spc'[u] = spc[u] /\ left'[u] = left[u] /\ right'[u] = right[u]
  BY DEF Ends, LockStep, LockPair, Put, UnlockRight, UnlockLeft, SGoto, Types
<1>6. rest'[t] = rest[t]
  <2>1. CASE Ends(t)
    BY <1>4, <2>1 DEF RestCells, Ends, Types
  <2>2. CASE LockStep(t)
    BY <1>4, <2>2 DEF RestCells, LockStep, LockPair, SGoto, Types
  <2>3. CASE Put(t)
    BY <1>4, <2>3 DEF RestCells, Put, SGoto, Types
  <2>4. CASE UnlockRight(t)
    BY <1>4, <2>4 DEF RestCells, UnlockRight, SGoto, Types
  <2>5. CASE UnlockLeft(t)
    <3>1. rest[t] = AI!Piece(left[t] + 1, right[t] - 1)
      BY <1>4, <2>5 DEF RestCells, UnlockLeft
    <3>2. /\ left'[t] = left[t] + 1 /\ right'[t] = right[t] - 1
          /\ spc'[t] = IF left[t] + 1 < right[t] - 1 THEN "lock_left" ELSE "stats"
      BY <2>5 DEF UnlockLeft, SGoto, Types
    <3>3. CASE left[t] + 1 < right[t] - 1
      BY <1>4, <3>1, <3>2, <3>3 DEF RestCells, AI!Piece
    <3>4. CASE ~ left[t] + 1 < right[t] - 1
      BY <1>4, <3>1, <3>2, <3>4 DEF RestCells, AI!Piece
    <3> QED
      BY <3>3, <3>4
  <2> QED
    BY <2>1, <2>2, <2>3, <2>4, <2>5
<1>7. \A u \in Swappers : u # t => rest'[u] = rest[u]
  BY <1>5 DEF rest
<1>8. UNCHANGED rest
  BY <1>6, <1>7, RestKept
<1> QED
  BY <1>1, <1>3, <1>8 DEF Mapped

\* A printer has its line with the last cell it reads, and drops it with the
\* last mutex: in between it holds all cells.
LEMMA PrinterMaps ==
    ASSUME Types, SwapperLocks, SwapperLocks', PrinterLocks, LineIsCurrent, NEW p \in Printers,
           PrinterStarts(p) \/ PrinterLost(p) \/ LockCells(p) \/ PrintCells(p) \/ UnlockCells(p)
    PROVE  AI!PrintLine(p) \/ AI!Forget(p) \/ UNCHANGED Mapped
<1>0. /\ ppc \in [Printers -> PrinterPCs] /\ next \in [Printers -> Indices]
      /\ printed \in [Printers -> [Indices -> Indices]]
  BY DEF Types
<1>1. UNCHANGED Restored
  BY OthersKeep, RestoredSame DEF OtherStep
<1>2. UNCHANGED rest
  <2>1. UNCHANGED swapping
    BY DEF PrinterStarts, PrinterLost, LockCells, PrintCells, UnlockCells
  <2> QED
    BY <2>1, RestKept DEF swapping, rest
<1>3. LineCells /\ LineCells'
  BY LineIs, PTL
<1>4. \A q \in Printers : q # p => ppc'[q] = ppc[q] /\ printed'[q] = printed[q]
  BY <1>0 DEF PrinterStarts, PrinterLost, LockCells, PrintCells, UnlockCells, PNext
<1>5. \A q \in Printers : q # p => line'[q] = line[q]
  BY <1>4 DEF line
<1>6. line'[p] = line[p] => UNCHANGED Mapped
  BY <1>1, <1>2, <1>5, LineKept DEF Mapped
<1>7. line'[p] = <<>> => AI!Forget(p)
  BY <1>1, <1>2, <1>4, LineSet DEF AI!Forget
<1>8. line'[p] = Restored => AI!PrintLine(p)
  BY <1>1, <1>2, <1>4, LineSet DEF AI!PrintLine
<1>9. CASE PrinterStarts(p) \/ PrinterLost(p) \/ LockCells(p)
  <2>1. ppc'[p] # "unlock"
    BY <1>0, <1>9 DEF PrinterStarts, PrinterLost, LockCells, PNext
  <2> QED
    BY <1>3, <1>7, <2>1 DEF LineCells
<1>10. CASE PrintCells(p)
  <2>1. CASE next[p] < N - 1
    <3>1. ppc'[p] = "print"
      BY <1>0, <1>10, <2>1 DEF PrintCells, PNext
    <3> QED
      BY <1>3, <1>7, <3>1 DEF LineCells
  <2>2. CASE ~ next[p] < N - 1
    <3>1. ppc[p] = "print" /\ ppc'[p] = "unlock"
      BY <1>0, <1>10, <2>2 DEF PrintCells, PNext
    <3>2. /\ printed'[p] \in [Indices -> Indices]
          /\ \A i \in Indices : i <= next[p] => printed'[p][i] = array[i]
      BY <1>10, CellsRead
    <3>3. \A i \in Indices : i <= next[p]
      BY <1>0, <2>2, SizeAssumption DEF Indices
    <3>4. \A t \in Swappers : spc[t] # "put"
      BY <3>1, PrinterAlone
    <3>5. \A i \in Indices : Restored[i] = array[i]
      BY <3>4, RestoredIs DEF RestoredCells
    <3>6. Restored = [i \in Indices |-> Restored[i]]
      BY DEF Restored
    <3>7. printed'[p] = Restored
      BY <3>2, <3>3, <3>5, <3>6
    <3> QED
      BY <1>3, <1>8, <3>1, <3>7 DEF LineCells
  <2> QED
    BY <2>1, <2>2
<1>11. CASE UnlockCells(p)
  <2>1. CASE next[p] < N - 1
    <3>1. ppc[p] = "unlock" /\ ppc'[p] = "unlock" /\ UNCHANGED printed
      BY <1>0, <1>11, <2>1 DEF UnlockCells, PNext
    <3> QED
      BY <1>3, <1>6, <3>1 DEF LineCells
  <2>2. CASE ~ next[p] < N - 1
    <3>1. ppc'[p] = "idle"
      BY <1>0, <1>11, <2>2 DEF UnlockCells, PNext
    <3> QED
      BY <1>3, <1>7, <3>1 DEF LineCells
  <2> QED
    BY <2>1, <2>2
<1> QED
  BY <1>9, <1>10, <1>11

LEMMA InitMaps == StagesInit => AI!Init
<1> SUFFICES ASSUME Init, IInv PROVE AI!Init
  BY Initially DEF StagesInit, Start1, Start2, Start3, Start4
<1>1. Restored = [i \in Indices |-> i]
  <2>1. \A i \in Indices : Restored[i] = i
    BY RestoredIs DEF RestoredCells, Init, IInv
  <2>2. Restored = [i \in Indices |-> Restored[i]]
    BY DEF Restored
  <2> QED
    BY <2>1, <2>2
<1>2. rest = [t \in Swappers |-> <<>>]
  BY RestIs DEF RestCells, Init
<1>3. line = [p \in Printers |-> <<>>]
  BY LineIs DEF LineCells, Init
<1> QED
  BY <1>1, <1>2, <1>3 DEF AI!Init, AI!Indices, Indices

LEMMA StepMaps == IInv /\ IInv' /\ [StagesNext]_stagevars => [AI!Next]_(AI!vars)
<1> SUFFICES ASSUME IInv, IInv', [StagesNext]_stagevars PROVE AI!Next \/ UNCHANGED Mapped
  BY DEF Mapped, AI!vars
<1>1. CellStep
  BY Dispatch DEF IInv, MainInv
<1>2. Types /\ PairOrdered /\ SwapperLocks /\ SwapperLocks' /\ PrinterLocks /\ LineIsCurrent
  BY DEF IInv
<1>3. ASSUME NEW t \in Swappers,
             Starts(t) \/ Ends(t) \/ LockStep(t) \/ Move(t) \/ Put(t)
                \/ UnlockRight(t) \/ UnlockLeft(t)
      PROVE  AI!Next \/ UNCHANGED Mapped
  BY <1>2, <1>3, StartsBegins, MoveIsSwap, SwapperStutters DEF AI!Next
<1>4. ASSUME NEW p \in Printers,
             PrinterStarts(p) \/ PrinterLost(p) \/ LockCells(p) \/ PrintCells(p) \/ UnlockCells(p)
      PROVE  AI!Next \/ UNCHANGED Mapped
  BY <1>2, <1>4, PrinterMaps DEF AI!Next
<1>5. CASE UNCHANGED cells
  <2>1. UNCHANGED Restored
    BY <1>2, <1>5, OthersKeep, RestoredSame DEF OtherStep
  <2>2. UNCHANGED rest
    BY <1>5, RestKept DEF cells, swapping, rest
  <2>3. UNCHANGED line
    BY <1>5, LineKept DEF cells, printing, line
  <2> QED
    BY <2>1, <2>2, <2>3 DEF Mapped
<1> QED
  BY <1>1, <1>3, <1>4, <1>5 DEF CellStep

\* Swappers and printers with a mutex for each cell do what one thread would that
\* swaps two cells, or prints the whole array, in one step.
THEOREM InversionRefinement == StagesSpec => ImplementsInversions
BY InitMaps, StepMaps, Invariance, PTL DEF StagesSpec, ImplementsInversions, AI!Spec

-----------------------------------------------------------------------------
(* The lock order lets everyone out again *)

\* The cell whose mutex a thread is about to lock.
SwapperWants(t, i) == \/ spc[t] = "lock_left" /\ left[t] = i
                      \/ spc[t] = "lock_right" /\ right[t] = i
PrinterWants(p, i) == ppc[p] = "lock" /\ next[p] = i

\* Every other step of a swapper or printer, and a free mutex, is there for the taking.
SwapperRuns(t) == spc[t] # "idle" /\ \A i \in Indices : SwapperWants(t, i) => mx_array[i] = Nobody
PrinterRuns(p) == ppc[p] # "idle" /\ \A i \in Indices : PrinterWants(p, i) => mx_array[i] = Nobody

\* While the array is there and some thread works on it, some thread can go on: the
\* mutexes are never locked in a circle.
NoCircularWait ==
    ~ freed => \/ \E t \in Swappers : SwapperRuns(t)
               \/ \E p \in Printers : PrinterRuns(p)
               \/ /\ \A t \in Swappers : spc[t] = "idle"
                  /\ \A p \in Printers : ppc[p] = "idle"

\* A set of cells has a last one.
LEMMA LastCell == ASSUME NEW T \in SUBSET Indices, T # {} PROVE \E m \in T : \A i \in T : i <= m
<1> DEFINE D == {N - i : i \in T}
<1>0. N \in Nat /\ \A i \in T : i \in Nat /\ N - i \in Nat
  BY SizeAssumption DEF Indices
<1>1. D \in SUBSET Nat /\ D # {}
  BY <1>0
<1>2. PICK d \in D : \A e \in D : ~ (<<e, d>> \in OpToRel(<, Nat))
  BY <1>1, WFMin, NatLessThanWellFounded
<1>3. \A e \in D : ~ (e < d)
  BY <1>1, <1>2 DEF OpToRel
<1>4. PICK m \in T : d = N - m
  OBVIOUS
<1>5. ASSUME NEW i \in T PROVE i <= m
  <2>1. N - i \in D
    OBVIOUS
  <2>2. ~ (N - i < N - m)
    BY <1>3, <1>4, <2>1
  <2> QED
    BY <1>0, <2>2
<1> QED
  BY <1>5

\* The owner of a cell holds none behind it that it still wants: it wants only
\* cells that come later.
LEMMA OwnerWantsLater ==
    ASSUME Types, PairOrdered, SwapperLocks, PrinterLocks, NEW m \in Indices,
           \A p \in Printers : ppc[p] # "undefined", mx_array[m] # Nobody
    PROVE  \/ \E t \in Swappers : /\ spc[t] # "idle"
                                  /\ \A i \in Indices : SwapperWants(t, i) => m < i
           \/ \E p \in Printers : /\ ppc[p] # "idle"
                                  /\ \A i \in Indices : PrinterWants(p, i) => m < i
<1>1. CASE mx_array[m] \in Swappers
  <2> DEFINE t == mx_array[m]
  <2>1. HeldBySwapper(t, m)
    BY <1>1 DEF SwapperLocks
  <2>2. spc[t] # "idle"
    BY <2>1 DEF HeldBySwapper, HoldsLeft, HoldsRight
  <2>3. ASSUME NEW i \in Indices, SwapperWants(t, i) PROVE m < i
    <3>1. left[t] = m /\ right[t] = i /\ spc[t] = "lock_right"
      BY <2>1, <2>3 DEF HeldBySwapper, HoldsLeft, HoldsRight, SwapperWants
    <3> QED
      BY <1>1, <3>1 DEF PairOrdered
  <2> QED
    BY <1>1, <2>2, <2>3
<1>2. CASE mx_array[m] \in Printers
  <2> DEFINE p == mx_array[m]
  <2>1. HeldByPrinter(p, m)
    BY <1>2 DEF PrinterLocks
  <2>2. ppc[p] # "idle"
    BY <2>1 DEF HeldByPrinter
  <2>3. ASSUME NEW i \in Indices, PrinterWants(p, i) PROVE m < i
    BY <2>1, <2>3 DEF HeldByPrinter, PrinterWants
  <2> QED
    BY <1>2, <2>2, <2>3
<1> QED
  BY <1>1, <1>2 DEF Types

\* The printers that lost the array to main do so after it was freed.
Undefined == ~ freed => \A p \in Printers : ppc[p] # "undefined"

LEMMA UndefinedStep == Types /\ Undefined /\ [StagesNext]_stagevars => Undefined'
<1> SUFFICES ASSUME Types, Undefined, [StagesNext]_stagevars, ~ freed', NEW p \in Printers
             PROVE  ppc'[p] # "undefined"
  BY DEF Undefined
<1>0. ppc \in [Printers -> PrinterPCs] /\ (~ freed => ppc[p] # "undefined")
  BY DEF Types, Undefined
<1> USE DEF shared, main, swapping, printing
<1>1. CASE UNCHANGED <<freed, printing>>
  BY <1>0, <1>1
<1>2. CASE CheckPrint
  BY <1>0, <1>2 DEF CheckPrint
<1>3. CASE CleanUp
  BY <1>3 DEF CleanUp
<1>4. ASSUME NEW q \in Printers, StagePrinter(q) PROVE ppc'[p] # "undefined"
  <2>1. CASE UseFreed(q)
    BY <2>1 DEF UseFreed
  <2>2. CASE LockCells(q) \/ PrintCells(q) \/ UnlockCells(q)
    BY <1>0, <2>2 DEF LockCells, PrintCells, UnlockCells, PNext
  <2> QED
    BY <1>4, <2>1, <2>2 DEF StagePrinter, Printing2, Printing3
<1>5. ASSUME NEW t \in Swappers, StageSwapper(t) PROVE UNCHANGED <<freed, printing>>
  BY <1>5
     DEF StageSwapper, Swapping3, Inversion3, Inversion1, LockStep, Move, Put, UnlockRight,
         UnlockLeft, Finish
<1>6. CASE StageMain
  <2>1. CASE CheckInterrupt \/ CheckSwap \/ Admit \/ CreateSwapper \/ CreateFails \/ BackToPause
                \/ WaitForThreads \/ Exit
    BY <1>1, <2>1
       DEF CheckInterrupt, CheckSwap, Admit, CreateSwapper, CreateFails, BackToPause,
           WaitForThreads, Exit
  <2>2. CASE Invert \/ InvertStep("pause") \/ InvertStep("sig2")
    BY <1>1, <2>2
       DEF Invert, InvertStep, Inversion1, Inversion2, LockStep, Move, Put, UnlockRight, UnlockLeft
  <2> QED
    BY <1>2, <1>3, <1>6, <2>1, <2>2 DEF StageMain, Main1, Main2, Main3, Ending4
<1>7. ASSUME NEW s \in Signals, Signal(s) PROVE UNCHANGED <<freed, printing>>
  BY <1>7 DEF Signal
<1>8. CASE Quiet \/ UNCHANGED stagevars
  BY <1>1, <1>8 DEF Quiet, vars, stagevars
<1> QED
  BY <1>1, <1>4, <1>5, <1>6, <1>7, <1>8 DEF StagesNext

\* Swappers lock their two cells in the order of the array (task2_4.c) and a printer
\* locks all of them in that order, so the thread that has got furthest can go on: no
\* number of threads and no length of the array makes them wait for each other in a
\* circle.
THEOREM LockOrder == StagesSpec => []NoCircularWait
<1>1. ASSUME IInv, Undefined PROVE NoCircularWait
  <2> SUFFICES ASSUME ~ freed,
                      \A t \in Swappers : ~ SwapperRuns(t),
                      \A p \in Printers : ~ PrinterRuns(p)
               PROVE  /\ \A t \in Swappers : spc[t] = "idle"
                      /\ \A p \in Printers : ppc[p] = "idle"
    BY DEF NoCircularWait
  <2> DEFINE Wanted == {i \in Indices : /\ mx_array[i] # Nobody
                                        /\ \/ \E t \in Swappers : SwapperWants(t, i)
                                           \/ \E p \in Printers : PrinterWants(p, i)}
  <2>1. Wanted = {}
    <3> SUFFICES ASSUME Wanted # {} PROVE FALSE
      OBVIOUS
    <3>1. PICK m \in Wanted : \A i \in Wanted : i <= m
      <4> HIDE DEF Wanted
      <4>1. Wanted \in SUBSET Indices
        BY DEF Wanted
      <4> QED
        BY <4>1, LastCell
    <3>2. m \in Indices /\ mx_array[m] # Nobody
      OBVIOUS
    <3>3. ASSUME NEW i \in Wanted PROVE ~ (m < i)
      BY <3>1, <3>2 DEF Indices
    <3>4. ASSUME NEW t \in Swappers, spc[t] # "idle", \A i \in Indices : SwapperWants(t, i) => m < i
          PROVE  FALSE
      BY <3>3, <3>4 DEF SwapperRuns
    <3>5. ASSUME NEW p \in Printers, ppc[p] # "idle", \A i \in Indices : PrinterWants(p, i) => m < i
          PROVE  FALSE
      BY <3>3, <3>5 DEF PrinterRuns
    <3> QED
      BY <1>1, <3>2, <3>4, <3>5, OwnerWantsLater DEF IInv, Undefined
  <2>2. \A t \in Swappers : spc[t] = "idle"
    BY <2>1 DEF SwapperRuns
  <2>3. \A p \in Printers : ppc[p] = "idle"
    BY <2>1 DEF PrinterRuns
  <2> QED
    BY <2>2, <2>3
<1>2. StagesInit => Undefined
  BY DEF StagesInit, Start1, Start2, Start3, Start4, Init, Undefined
<1>3. IInv => Types
  BY DEF IInv
<1> QED
  BY <1>1, <1>2, <1>3, UndefinedStep, Invariance, PTL DEF StagesSpec
=============================================================================
