-------------------------- MODULE ThreadPoolProofs --------------------------
(***************************************************************************)
(* Theorems about ThreadPool for every number of workers and tasks, for    *)
(* both admission policies, and without a bound on what the user types.    *)
(* What is said of the tasks holds whatever the shutdown flag starts as;   *)
(* the rest is about the pool whose flag starts at 0 (sop-pool5.c).        *)
(***************************************************************************)
EXTENDS ThreadPool, FiniteSetTheorems, TLAPS

-----------------------------------------------------------------------------
(* Lemmas about the set of busy workers *)

\* The busy workers are finitely many, and never more than the pool has.
LEMMA BusyFinite ==
    /\ IsFiniteSet(Busy)
    /\ Cardinality(Busy) \in Nat
    /\ Cardinality(Busy) <= Cardinality(Workers)
    /\ Cardinality(Workers) \in Nat
    /\ Cardinality(Busy) = Cardinality(Workers) => Busy = Workers
<1>1. Busy \in SUBSET Workers
  BY DEF Busy
<1>2. QED
  BY <1>1, WorkersAssumption, FS_Subset, FS_CardinalityType

\* A worker that takes a task joins the busy ones.
LEMMA BusyGrows ==
    ASSUME TypeOK, NEW w \in Workers, pc[w] = "check",
           pc' = [pc EXCEPT ![w] = "run"]
    PROVE  Cardinality(Busy') = Cardinality(Busy) + 1
<1>1. Busy' = Busy \cup {w}
  BY DEF Busy, TypeOK
<1>2. w \notin Busy
  BY DEF Busy
<1>3. QED
  BY <1>1, <1>2, BusyFinite, FS_AddElement

\* A worker that posts its token is no longer busy.
LEMMA BusyShrinks ==
    ASSUME TypeOK, NEW w \in Workers, pc[w] = "post",
           pc' = [pc EXCEPT ![w] = "lock"]
    PROVE  Cardinality(Busy') = Cardinality(Busy) - 1
<1>1. Busy' = Busy \ {w}
  BY DEF Busy, TypeOK
<1>2. w \in Busy
  BY DEF Busy
<1>3. QED
  BY <1>1, <1>2, BusyFinite, FS_RemoveElement

-----------------------------------------------------------------------------
(* Type correctness *)

\* Every step keeps the variables in their types. HandsInv is what makes a
\* finished or refused task a task: RunTask runs what func holds.
LEMMA TypeStep ==
    TypeOK /\ HandsInv /\ [Next]_vars => TypeOK'
<1> SUFFICES ASSUME TypeOK, HandsInv, [Next]_vars PROVE TypeOK'
  OBVIOUS
<1> USE DEF TypeOK, mailbox, history, Threads, WorkerPCs, MainPCs
<1>1. ASSUME NEW w \in Workers, WorkerLock(w) PROVE TypeOK'
  BY <1>1 DEF WorkerLock
<1>2. ASSUME NEW w \in Workers, WorkerWait(w) PROVE TypeOK'
  BY <1>2 DEF WorkerWait
<1>3. ASSUME NEW w \in Workers, WorkerReturn(w) PROVE TypeOK'
  BY <1>3 DEF WorkerReturn
<1>4. ASSUME NEW w \in Workers, TakeTask(w) PROVE TypeOK'
  BY <1>4 DEF TakeTask, TaskReceived
<1>5. ASSUME NEW w \in Workers, RunTask(w) PROVE TypeOK'
  BY <1>5 DEF RunTask, HandsInv
<1>6. ASSUME NEW w \in Workers, PostSlot(w) PROVE TypeOK'
  BY <1>6 DEF PostSlot
<1>7. ASSUME NEW t \in Tasks, Submit(t) PROVE TypeOK'
  BY <1>7 DEF Submit
<1>8. CASE AcquireSlot
  BY <1>8 DEF AcquireSlot
<1>9. CASE RejectTask
  BY <1>9 DEF RejectTask, HandsInv
<1>10. CASE DispatchLock
  BY <1>10 DEF DispatchLock
<1>11. CASE DispatchWait
  BY <1>11 DEF DispatchWait
<1>12. CASE Deposit
  BY <1>12 DEF Deposit, SignalWorkReady, Sleepers
<1>13. CASE CleanupLock
  BY <1>13 DEF CleanupLock
<1>14. CASE Shutdown
  BY <1>14 DEF Shutdown
<1>15. CASE JoinAndFree
  BY <1>15 DEF JoinAndFree
<1>16. CASE Quit
  BY <1>16 DEF Quit
<1>17. CASE SpuriousWakeup
  BY <1>17, SpuriousAssumption DEF SpuriousWakeup, Sleepers
<1>18. CASE UNCHANGED vars
  BY <1>18 DEF vars
<1>19. QED
  BY <1>1, <1>2, <1>3, <1>4, <1>5, <1>6, <1>7, <1>8, <1>9, <1>10, <1>11, <1>12, <1>13, <1>14, <1>15, <1>16, <1>17, <1>18
     DEF Next, WorkerStep, MainStep, PassSemaphore, Terminated

\* Every step keeps control and data in agreement.
LEMMA HandsStep ==
    TypeOK /\ HandsInv /\ [Next]_vars => HandsInv'
<1> SUFFICES ASSUME TypeOK, HandsInv, [Next]_vars PROVE HandsInv'
  OBVIOUS
<1> USE DEF TypeOK, HandsInv, mailbox, history, WorkerPCs, MainPCs
<1>1. ASSUME NEW w \in Workers, WorkerLock(w) PROVE HandsInv'
  BY <1>1 DEF WorkerLock
<1>2. ASSUME NEW w \in Workers, WorkerWait(w) PROVE HandsInv'
  BY <1>2 DEF WorkerWait
<1>3. ASSUME NEW w \in Workers, WorkerReturn(w) PROVE HandsInv'
  BY <1>3 DEF WorkerReturn
<1>4. ASSUME NEW w \in Workers, TakeTask(w) PROVE HandsInv'
  BY <1>4 DEF TakeTask, TaskReceived
<1>5. ASSUME NEW w \in Workers, RunTask(w) PROVE HandsInv'
  BY <1>5 DEF RunTask
<1>6. ASSUME NEW w \in Workers, PostSlot(w) PROVE HandsInv'
  BY <1>6 DEF PostSlot
<1>7. ASSUME NEW t \in Tasks, Submit(t) PROVE HandsInv'
  BY <1>7, TasksAssumption DEF Submit
<1>8. CASE AcquireSlot
  BY <1>8 DEF AcquireSlot
<1>9. CASE RejectTask
  BY <1>9 DEF RejectTask
<1>10. CASE DispatchLock
  BY <1>10 DEF DispatchLock
<1>11. CASE DispatchWait
  BY <1>11 DEF DispatchWait
<1>12. CASE Deposit
  BY <1>12 DEF Deposit, SignalWorkReady, Sleepers
<1>13. CASE CleanupLock
  BY <1>13 DEF CleanupLock
<1>14. CASE Shutdown
  BY <1>14 DEF Shutdown
<1>15. CASE JoinAndFree
  BY <1>15 DEF JoinAndFree
<1>16. CASE Quit
  BY <1>16 DEF Quit
<1>17. CASE SpuriousWakeup
  BY <1>17 DEF SpuriousWakeup, Sleepers
<1>18. CASE UNCHANGED vars
  BY <1>18 DEF vars
<1>19. QED
  BY <1>1, <1>2, <1>3, <1>4, <1>5, <1>6, <1>7, <1>8, <1>9, <1>10, <1>11, <1>12, <1>13, <1>14, <1>15, <1>16, <1>17, <1>18
     DEF Next, WorkerStep, MainStep, PassSemaphore, Terminated

\* main sets the flag once, and no worker returns before.
LEMMA FlagStep ==
    TypeOK /\ FlagInv /\ [Next]_vars => FlagInv'
<1> SUFFICES ASSUME TypeOK, FlagInv, [Next]_vars PROVE FlagInv'
  OBVIOUS
<1> USE DEF TypeOK, FlagInv, mailbox, history, WorkerPCs, MainPCs
<1>1. ASSUME NEW w \in Workers, WorkerLock(w) PROVE FlagInv'
  BY <1>1 DEF WorkerLock
<1>2. ASSUME NEW w \in Workers, WorkerWait(w) PROVE FlagInv'
  BY <1>2 DEF WorkerWait
<1>3. ASSUME NEW w \in Workers, WorkerReturn(w) PROVE FlagInv'
  BY <1>3 DEF WorkerReturn
<1>4. ASSUME NEW w \in Workers, TakeTask(w) PROVE FlagInv'
  BY <1>4 DEF TakeTask, TaskReceived
<1>5. ASSUME NEW w \in Workers, RunTask(w) PROVE FlagInv'
  BY <1>5 DEF RunTask
<1>6. ASSUME NEW w \in Workers, PostSlot(w) PROVE FlagInv'
  BY <1>6 DEF PostSlot
<1>7. ASSUME NEW t \in Tasks, Submit(t) PROVE FlagInv'
  BY <1>7, TasksAssumption DEF Submit
<1>8. CASE AcquireSlot
  BY <1>8 DEF AcquireSlot
<1>9. CASE RejectTask
  BY <1>9 DEF RejectTask
<1>10. CASE DispatchLock
  BY <1>10 DEF DispatchLock
<1>11. CASE DispatchWait
  BY <1>11 DEF DispatchWait
<1>12. CASE Deposit
  BY <1>12 DEF Deposit, SignalWorkReady, Sleepers
<1>13. CASE CleanupLock
  BY <1>13 DEF CleanupLock
<1>14. CASE Shutdown
  BY <1>14 DEF Shutdown
<1>15. CASE JoinAndFree
  BY <1>15 DEF JoinAndFree
<1>16. CASE Quit
  BY <1>16 DEF Quit
<1>17. CASE SpuriousWakeup
  BY <1>17 DEF SpuriousWakeup, Sleepers
<1>18. CASE UNCHANGED vars
  BY <1>18 DEF vars
<1>19. QED
  BY <1>1, <1>2, <1>3, <1>4, <1>5, <1>6, <1>7, <1>8, <1>9, <1>10, <1>11, <1>12, <1>13, <1>14, <1>15, <1>16, <1>17, <1>18
     DEF Next, WorkerStep, MainStep, PassSemaphore, Terminated

\* Mutual exclusion of the critical sections.
LEMMA LockStep ==
    TypeOK /\ LockInv /\ [Next]_vars => LockInv'
<1> SUFFICES ASSUME TypeOK, LockInv, [Next]_vars PROVE LockInv'
  OBVIOUS
<1> USE DEF TypeOK, LockInv, mailbox, history, Threads, WorkerPCs, MainPCs
<1> USE ThreadsAssumption
<1>1. ASSUME NEW w \in Workers, WorkerLock(w) PROVE LockInv'
  BY <1>1 DEF WorkerLock
<1>2. ASSUME NEW w \in Workers, WorkerWait(w) PROVE LockInv'
  BY <1>2 DEF WorkerWait
<1>3. ASSUME NEW w \in Workers, WorkerReturn(w) PROVE LockInv'
  BY <1>3 DEF WorkerReturn
<1>4. ASSUME NEW w \in Workers, TakeTask(w) PROVE LockInv'
  BY <1>4 DEF TakeTask, TaskReceived
<1>5. ASSUME NEW w \in Workers, RunTask(w) PROVE LockInv'
  BY <1>5 DEF RunTask
<1>6. ASSUME NEW w \in Workers, PostSlot(w) PROVE LockInv'
  BY <1>6 DEF PostSlot
<1>7. ASSUME NEW t \in Tasks, Submit(t) PROVE LockInv'
  BY <1>7 DEF Submit
<1>8. CASE AcquireSlot
  BY <1>8 DEF AcquireSlot
<1>9. CASE RejectTask
  BY <1>9 DEF RejectTask
<1>10. CASE DispatchLock
  BY <1>10 DEF DispatchLock
<1>11. CASE DispatchWait
  BY <1>11 DEF DispatchWait
<1>12. CASE Deposit
  BY <1>12 DEF Deposit, SignalWorkReady, Sleepers
<1>13. CASE CleanupLock
  BY <1>13 DEF CleanupLock
<1>14. CASE Shutdown
  BY <1>14 DEF Shutdown
<1>15. CASE JoinAndFree
  BY <1>15 DEF JoinAndFree
<1>16. CASE Quit
  BY <1>16 DEF Quit
<1>17. CASE SpuriousWakeup
  BY <1>17 DEF SpuriousWakeup, Sleepers
<1>18. CASE UNCHANGED vars
  BY <1>18 DEF vars
<1>19. QED
  BY <1>1, <1>2, <1>3, <1>4, <1>5, <1>6, <1>7, <1>8, <1>9, <1>10, <1>11, <1>12, <1>13, <1>14, <1>15, <1>16, <1>17, <1>18
     DEF Next, WorkerStep, MainStep, PassSemaphore, Terminated
-----------------------------------------------------------------------------
(* The tokens of available_slots *)

\* No step loses a token or makes one up: sem_wait gives it to dispatch, the
\* deposit to the mailbox, TakeTask to the worker, sem_post back.
LEMMA SlotStep ==
    TypeOK /\ SlotAccounting /\ [Next]_vars => SlotAccounting'
<1> SUFFICES ASSUME TypeOK, SlotAccounting, [Next]_vars PROVE SlotAccounting'
  OBVIOUS
<1> USE DEF TypeOK, mailbox, history, WorkerPCs, MainPCs
<1>1. ASSUME NEW w \in Workers, WorkerLock(w) PROVE SlotAccounting'
  <2> USE <1>1 DEF WorkerLock
  <2>1. Busy' = Busy
    BY DEF Busy
  <2>2. QED
    BY <2>1, BusyFinite DEF SlotAccounting, DispatchToken
<1>2. ASSUME NEW w \in Workers, WorkerWait(w) PROVE SlotAccounting'
  <2> USE <1>2 DEF WorkerWait
  <2>1. Busy' = Busy
    BY DEF Busy
  <2>2. QED
    BY <2>1, BusyFinite DEF SlotAccounting, DispatchToken
<1>3. ASSUME NEW w \in Workers, WorkerReturn(w) PROVE SlotAccounting'
  <2> USE <1>3 DEF WorkerReturn
  <2>1. Busy' = Busy
    BY DEF Busy
  <2>2. QED
    BY <2>1, BusyFinite DEF SlotAccounting, DispatchToken
<1>4. ASSUME NEW w \in Workers, TakeTask(w) PROVE SlotAccounting'
  <2>1. Cardinality(Busy') = Cardinality(Busy) + 1
    BY <1>4, BusyGrows DEF TakeTask
  <2>2. QED
    BY <1>4, <2>1, BusyFinite DEF TakeTask, TaskReceived, SlotAccounting, DispatchToken
<1>5. ASSUME NEW w \in Workers, RunTask(w) PROVE SlotAccounting'
  <2> USE <1>5 DEF RunTask
  <2>1. Busy' = Busy
    BY DEF Busy
  <2>2. QED
    BY <2>1, BusyFinite DEF SlotAccounting, DispatchToken
<1>6. ASSUME NEW w \in Workers, PostSlot(w) PROVE SlotAccounting'
  <2>1. Cardinality(Busy') = Cardinality(Busy) - 1
    BY <1>6, BusyShrinks DEF PostSlot
  <2>2. QED
    BY <1>6, <2>1, BusyFinite DEF PostSlot, SlotAccounting, DispatchToken
<1>7. ASSUME NEW t \in Tasks, Submit(t) PROVE SlotAccounting'
  <2> USE <1>7 DEF Submit
  <2>1. Busy' = Busy
    BY DEF Busy
  <2>2. QED
    BY <2>1, BusyFinite DEF SlotAccounting, DispatchToken
<1>8. CASE AcquireSlot
  <2> USE <1>8 DEF AcquireSlot
  <2>1. Busy' = Busy
    BY DEF Busy
  <2>2. QED
    BY <2>1, BusyFinite DEF SlotAccounting, DispatchToken
<1>9. CASE RejectTask
  <2> USE <1>9 DEF RejectTask
  <2>1. Busy' = Busy
    BY DEF Busy
  <2>2. QED
    BY <2>1, BusyFinite DEF SlotAccounting, DispatchToken
<1>10. CASE DispatchLock
  <2> USE <1>10 DEF DispatchLock
  <2>1. Busy' = Busy
    BY DEF Busy
  <2>2. QED
    BY <2>1, BusyFinite DEF SlotAccounting, DispatchToken
<1>11. CASE DispatchWait
  <2> USE <1>11 DEF DispatchWait
  <2>1. Busy' = Busy
    BY DEF Busy
  <2>2. QED
    BY <2>1, BusyFinite DEF SlotAccounting, DispatchToken
<1>12. CASE Deposit
  <2> USE <1>12 DEF Deposit, SignalWorkReady, Sleepers
  <2>1. Busy' = Busy
    BY DEF Busy
  <2>2. QED
    BY <2>1, BusyFinite DEF SlotAccounting, DispatchToken
<1>13. CASE CleanupLock
  <2> USE <1>13 DEF CleanupLock
  <2>1. Busy' = Busy
    BY DEF Busy
  <2>2. QED
    BY <2>1, BusyFinite DEF SlotAccounting, DispatchToken
<1>14. CASE Shutdown
  <2> USE <1>14 DEF Shutdown
  <2>1. Busy' = Busy
    BY DEF Busy
  <2>2. QED
    BY <2>1, BusyFinite DEF SlotAccounting, DispatchToken
<1>15. CASE JoinAndFree
  <2> USE <1>15 DEF JoinAndFree
  <2>1. Busy' = Busy
    BY DEF Busy
  <2>2. QED
    BY <2>1, BusyFinite DEF SlotAccounting, DispatchToken
<1>16. CASE Quit
  <2> USE <1>16 DEF Quit
  <2>1. Busy' = Busy
    BY DEF Busy
  <2>2. QED
    BY <2>1, BusyFinite DEF SlotAccounting, DispatchToken
<1>17. CASE SpuriousWakeup
  <2> USE <1>17 DEF SpuriousWakeup, Sleepers
  <2>1. Busy' = Busy
    BY DEF Busy
  <2>2. QED
    BY <2>1, BusyFinite DEF SlotAccounting, DispatchToken
<1>18. CASE UNCHANGED vars
  BY <1>18 DEF vars, SlotAccounting, DispatchToken, Busy
<1>19. QED
  BY <1>1, <1>2, <1>3, <1>4, <1>5, <1>6, <1>7, <1>8, <1>9, <1>10, <1>11, <1>12, <1>13, <1>14, <1>15, <1>16, <1>17, <1>18
     DEF Next, WorkerStep, MainStep, PassSemaphore, Terminated

-----------------------------------------------------------------------------
(* The signals *)

\* The signal of dispatch is never lost. If it wakes nobody, no worker sleeps;
\* SlotAccounting says that not all of them are busy, and none has returned
\* yet, so one is on its way to the mailbox. A worker leaves that way only by
\* finding the mailbox empty or by emptying it.
LEMMA WakeStep ==
    TypeOK /\ LockInv /\ HandsInv /\ FlagInv /\ SlotAccounting /\ NoLostWakeup /\ [Next]_vars =>
        NoLostWakeup'
<1> SUFFICES ASSUME TypeOK, LockInv, HandsInv, FlagInv, SlotAccounting, NoLostWakeup, [Next]_vars
             PROVE  NoLostWakeup'
  OBVIOUS
<1> USE DEF TypeOK, mailbox, history, WorkerPCs, MainPCs
<1>1. ASSUME NEW w \in Workers, WorkerLock(w) PROVE NoLostWakeup'
  BY <1>1 DEF WorkerLock, NoLostWakeup, Looking
<1>2. ASSUME NEW w \in Workers, WorkerWait(w) PROVE NoLostWakeup'
  BY <1>2 DEF WorkerWait, NoLostWakeup, Looking
<1>3. ASSUME NEW w \in Workers, WorkerReturn(w) PROVE NoLostWakeup'
  BY <1>3 DEF WorkerReturn, NoLostWakeup, Looking
<1>4. ASSUME NEW w \in Workers, TakeTask(w) PROVE NoLostWakeup'
  BY <1>4 DEF TakeTask, TaskReceived, NoLostWakeup, Looking
<1>5. ASSUME NEW w \in Workers, RunTask(w) PROVE NoLostWakeup'
  BY <1>5 DEF RunTask, NoLostWakeup, Looking
<1>6. ASSUME NEW w \in Workers, PostSlot(w) PROVE NoLostWakeup'
  BY <1>6 DEF PostSlot, NoLostWakeup, Looking
<1>7. ASSUME NEW t \in Tasks, Submit(t) PROVE NoLostWakeup'
  BY <1>7 DEF Submit, NoLostWakeup, Looking
<1>8. CASE AcquireSlot
  BY <1>8 DEF AcquireSlot, NoLostWakeup, Looking
<1>9. CASE RejectTask
  BY <1>9 DEF RejectTask, NoLostWakeup, Looking
<1>10. CASE DispatchLock
  BY <1>10 DEF DispatchLock, NoLostWakeup, Looking
<1>11. CASE DispatchWait
  BY <1>11 DEF DispatchWait, NoLostWakeup, Looking
<1>12. CASE Deposit
  <2>1. CASE Sleepers # {}
    BY <1>12, <2>1 DEF Deposit, SignalWorkReady, Sleepers, Looking, NoLostWakeup
  <2>2. CASE Sleepers = {}
    <3>1. Busy # Workers
      BY <1>12, BusyFinite DEF Deposit, SlotAccounting, DispatchToken
    <3>2. PICK w \in Workers : pc[w] \notin {"run", "post"}
      BY <3>1 DEF Busy
    <3>3. shutdown = 0 /\ pc[w] # "done"
      BY <1>12 DEF Deposit, HandsInv, FlagInv
    <3>4. w \in Looking /\ pc' = pc
      BY <1>12, <2>2, <3>2, <3>3 DEF Deposit, SignalWorkReady, Sleepers, Looking
    <3>5. QED
      BY <3>4 DEF Looking, NoLostWakeup
  <2>3. QED
    BY <2>1, <2>2
<1>13. CASE CleanupLock
  BY <1>13 DEF CleanupLock, NoLostWakeup, Looking
<1>14. CASE Shutdown
  BY <1>14 DEF Shutdown, NoLostWakeup, Looking
<1>15. CASE JoinAndFree
  BY <1>15 DEF JoinAndFree, NoLostWakeup, Looking
<1>16. CASE Quit
  BY <1>16 DEF Quit, NoLostWakeup, Looking
<1>17. CASE SpuriousWakeup
  BY <1>17 DEF SpuriousWakeup, Sleepers, NoLostWakeup, Looking
<1>18. CASE UNCHANGED vars
  BY <1>18 DEF vars, NoLostWakeup, Looking
<1>19. QED
  BY <1>1, <1>2, <1>3, <1>4, <1>5, <1>6, <1>7, <1>8, <1>9, <1>10, <1>11, <1>12, <1>13, <1>14, <1>15, <1>16, <1>17, <1>18
     DEF Next, WorkerStep, MainStep, PassSemaphore, Terminated

\* Main sleeps only while the mailbox is full: a worker that empties it wakes main.
LEMMA DispatcherStep ==
    TypeOK /\ DispatcherWakeable /\ [Next]_vars => DispatcherWakeable'
<1> SUFFICES ASSUME TypeOK, DispatcherWakeable, [Next]_vars PROVE DispatcherWakeable'
  OBVIOUS
<1> USE DEF TypeOK, DispatcherWakeable, mailbox, history, WorkerPCs, MainPCs
<1>1. ASSUME NEW w \in Workers, WorkerLock(w) PROVE DispatcherWakeable'
  BY <1>1 DEF WorkerLock
<1>2. ASSUME NEW w \in Workers, WorkerWait(w) PROVE DispatcherWakeable'
  BY <1>2 DEF WorkerWait
<1>3. ASSUME NEW w \in Workers, WorkerReturn(w) PROVE DispatcherWakeable'
  BY <1>3 DEF WorkerReturn
<1>4. ASSUME NEW w \in Workers, TakeTask(w) PROVE DispatcherWakeable'
  BY <1>4 DEF TakeTask, TaskReceived
<1>5. ASSUME NEW w \in Workers, RunTask(w) PROVE DispatcherWakeable'
  BY <1>5 DEF RunTask
<1>6. ASSUME NEW w \in Workers, PostSlot(w) PROVE DispatcherWakeable'
  BY <1>6 DEF PostSlot
<1>7. ASSUME NEW t \in Tasks, Submit(t) PROVE DispatcherWakeable'
  BY <1>7 DEF Submit
<1>8. CASE AcquireSlot
  BY <1>8 DEF AcquireSlot
<1>9. CASE RejectTask
  BY <1>9 DEF RejectTask
<1>10. CASE DispatchLock
  BY <1>10 DEF DispatchLock
<1>11. CASE DispatchWait
  BY <1>11 DEF DispatchWait
<1>12. CASE Deposit
  BY <1>12 DEF Deposit, SignalWorkReady, Sleepers
<1>13. CASE CleanupLock
  BY <1>13 DEF CleanupLock
<1>14. CASE Shutdown
  BY <1>14 DEF Shutdown
<1>15. CASE JoinAndFree
  BY <1>15 DEF JoinAndFree
<1>16. CASE Quit
  BY <1>16 DEF Quit
<1>17. CASE SpuriousWakeup
  BY <1>17 DEF SpuriousWakeup, Sleepers
<1>18. CASE UNCHANGED vars
  BY <1>18 DEF vars
<1>19. QED
  BY <1>1, <1>2, <1>3, <1>4, <1>5, <1>6, <1>7, <1>8, <1>9, <1>10, <1>11, <1>12, <1>13, <1>14, <1>15, <1>16, <1>17, <1>18
     DEF Next, WorkerStep, MainStep, PassSemaphore, Terminated
-----------------------------------------------------------------------------
(* The tasks *)

\* No step loses a task or duplicates one: each moves it from one pair of
\* hands to the next.
LEMMA TaskStep ==
    TypeOK /\ HandsInv /\ TaskConservation /\ [Next]_vars => TaskConservation'
<1> SUFFICES ASSUME TypeOK, HandsInv, TaskConservation, [Next]_vars PROVE TaskConservation'
  OBVIOUS
<1> USE DEF TypeOK, mailbox, history, WorkerPCs, MainPCs
<1>1. ASSUME NEW w \in Workers, WorkerLock(w) PROVE TaskConservation'
  <2> USE <1>1 DEF WorkerLock
  <2>1. Offered' = Offered /\ Queued' = Queued /\ Running' = Running
    BY DEF Offered, Queued, Running
  <2>2. QED
    BY <2>1 DEF TaskConservation
<1>2. ASSUME NEW w \in Workers, WorkerWait(w) PROVE TaskConservation'
  <2> USE <1>2 DEF WorkerWait
  <2>1. Offered' = Offered /\ Queued' = Queued /\ Running' = Running
    BY DEF Offered, Queued, Running
  <2>2. QED
    BY <2>1 DEF TaskConservation
<1>3. ASSUME NEW w \in Workers, WorkerReturn(w) PROVE TaskConservation'
  <2> USE <1>3 DEF WorkerReturn
  <2>1. Offered' = Offered /\ Queued' = Queued /\ Running' = Running
    BY DEF Offered, Queued, Running
  <2>2. QED
    BY <2>1 DEF TaskConservation
<1>4. ASSUME NEW w \in Workers, TakeTask(w) PROVE TaskConservation'
  <2> USE <1>4 DEF TakeTask, TaskReceived
  <2>1. work \in Tasks /\ work # NoTask /\ func[w] = NoTask
    BY DEF HandsInv
  <2>2. Queued = {work} /\ Queued' = {} /\ Offered' = Offered
    BY DEF Queued, Offered
  <2>3. Running' = Running \cup {work}
    <3>1. \A x : x \in Running' => x \in Running \cup {work}
      BY DEF Running
    <3>2. \A v \in Workers : func[v] # NoTask => func'[v] = func[v]
      BY <2>1
    <3>3. \A x : x \in Running => x \in Running'
      BY <3>2 DEF Running
    <3>4. func'[w] = work
      OBVIOUS
    <3>5. work \in Running'
      BY <2>1, <3>4 DEF Running
    <3>6. QED
      BY <3>1, <3>3, <3>5
  <2>4. \A v \in Workers : func[v] # work
    BY <2>1, <2>2 DEF TaskConservation, Running
  <2>5. \A u, v \in Workers : u # v /\ func'[u] # NoTask => func'[u] # func'[v]
    BY <2>4 DEF TaskConservation
  <2>6. QED
    BY <2>2, <2>3, <2>5 DEF TaskConservation
<1>5. ASSUME NEW w \in Workers, RunTask(w) PROVE TaskConservation'
  <2> USE <1>5 DEF RunTask
  <2>1. func[w] \in Tasks /\ func[w] # NoTask
    BY DEF HandsInv
  <2>2. Queued' = Queued /\ Offered' = Offered
    BY DEF Queued, Offered
  <2>3. func[w] \in Running
    BY <2>1 DEF Running
  <2>4. Running' = Running \ {func[w]}
    <3>1. \A v \in Workers : v # w => func'[v] = func[v] /\ func[v] # func[w]
      BY <2>1 DEF TaskConservation
    <3>2. func'[w] = NoTask
      OBVIOUS
    <3>3. \A x : x \in Running' => x \in Running \ {func[w]}
      BY <3>1, <3>2 DEF Running
    <3>4. \A x : x \in Running \ {func[w]} => x \in Running'
      BY <3>1 DEF Running
    <3>5. QED
      BY <3>3, <3>4
  <2>5. \A u, v \in Workers : u # v /\ func'[u] # NoTask => func'[u] # func'[v]
    BY DEF TaskConservation
  <2>6. QED
    BY <2>2, <2>3, <2>4, <2>5 DEF TaskConservation
<1>6. ASSUME NEW w \in Workers, PostSlot(w) PROVE TaskConservation'
  <2> USE <1>6 DEF PostSlot
  <2>1. Offered' = Offered /\ Queued' = Queued /\ Running' = Running
    BY DEF Offered, Queued, Running
  <2>2. QED
    BY <2>1 DEF TaskConservation
<1>7. ASSUME NEW t \in Tasks, Submit(t) PROVE TaskConservation'
  <2> USE <1>7 DEF Submit
  <2>1. Offered = {} /\ Offered' = {t} /\ Queued' = Queued /\ Running' = Running
    BY TasksAssumption DEF HandsInv, Offered, Queued, Running
  <2>2. QED
    BY <2>1 DEF TaskConservation
<1>8. CASE AcquireSlot
  <2> USE <1>8 DEF AcquireSlot
  <2>1. Offered' = Offered /\ Queued' = Queued /\ Running' = Running
    BY DEF Offered, Queued, Running
  <2>2. QED
    BY <2>1 DEF TaskConservation
<1>9. CASE RejectTask
  <2> USE <1>9 DEF RejectTask
  <2>1. Offered = {dispatching} /\ Offered' = {} /\ Queued' = Queued /\ Running' = Running
    BY DEF HandsInv, Offered, Queued, Running
  <2>2. QED
    BY <2>1 DEF TaskConservation
<1>10. CASE DispatchLock
  <2> USE <1>10 DEF DispatchLock
  <2>1. Offered' = Offered /\ Queued' = Queued /\ Running' = Running
    BY DEF Offered, Queued, Running
  <2>2. QED
    BY <2>1 DEF TaskConservation
<1>11. CASE DispatchWait
  <2> USE <1>11 DEF DispatchWait
  <2>1. Offered' = Offered /\ Queued' = Queued /\ Running' = Running
    BY DEF Offered, Queued, Running
  <2>2. QED
    BY <2>1 DEF TaskConservation
<1>12. CASE Deposit
  <2>1. Offered = {dispatching} /\ Offered' = {} /\ Queued = {} /\ Queued' = {dispatching}
    BY <1>12 DEF Deposit, HandsInv, Offered, Queued
  <2>2. Running' = Running /\ UNCHANGED <<func, history>>
    BY <1>12 DEF Deposit, Running
  <2>3. QED
    BY <2>1, <2>2 DEF TaskConservation
<1>13. CASE CleanupLock
  <2> USE <1>13 DEF CleanupLock
  <2>1. Offered' = Offered /\ Queued' = Queued /\ Running' = Running
    BY DEF Offered, Queued, Running
  <2>2. QED
    BY <2>1 DEF TaskConservation
<1>14. CASE Shutdown
  <2> USE <1>14 DEF Shutdown
  <2>1. Offered' = Offered /\ Queued' = Queued /\ Running' = Running
    BY DEF Offered, Queued, Running
  <2>2. QED
    BY <2>1 DEF TaskConservation
<1>15. CASE JoinAndFree
  <2> USE <1>15 DEF JoinAndFree
  <2>1. Offered' = Offered /\ Queued' = Queued /\ Running' = Running
    BY DEF Offered, Queued, Running
  <2>2. QED
    BY <2>1 DEF TaskConservation
<1>16. CASE Quit
  <2> USE <1>16 DEF Quit
  <2>1. Offered' = Offered /\ Queued' = Queued /\ Running' = Running
    BY DEF Offered, Queued, Running
  <2>2. QED
    BY <2>1 DEF TaskConservation
<1>17. CASE SpuriousWakeup
  <2> USE <1>17 DEF SpuriousWakeup, Sleepers
  <2>1. Offered' = Offered /\ Queued' = Queued /\ Running' = Running
    BY DEF Offered, Queued, Running
  <2>2. QED
    BY <2>1 DEF TaskConservation
<1>18. CASE UNCHANGED vars
  <2> USE <1>18 DEF vars
  <2>1. Offered' = Offered /\ Queued' = Queued /\ Running' = Running
    BY DEF Offered, Queued, Running
  <2>2. QED
    BY <2>1 DEF TaskConservation
<1>19. QED
  BY <1>1, <1>2, <1>3, <1>4, <1>5, <1>6, <1>7, <1>8, <1>9, <1>10, <1>11, <1>12, <1>13, <1>14, <1>15, <1>16, <1>17, <1>18
     DEF Next, WorkerStep, MainStep, PassSemaphore, Terminated

\* Types, hands and tasks need no more than each other.
LEMMA TasksStep == TasksInv /\ [Next]_vars => TasksInv'
  BY TypeStep, HandsStep, TaskStep DEF TasksInv

-----------------------------------------------------------------------------
(* The theorems *)

\* A pool starts without tasks, whatever its flag.
LEMMA InitTasks == Init => TasksInv
<1> SUFFICES ASSUME Init PROVE TasksInv
  OBVIOUS
<1> USE DEF Init
<1>1. TypeOK
  BY BusyFinite, SpuriousAssumption, ShutdownAssumption
     DEF TypeOK, Threads, WorkerPCs, MainPCs
<1>2. HandsInv
  BY DEF HandsInv
<1>3. TaskConservation
  BY DEF TaskConservation, Offered, Queued, Running
<1>4. QED
  BY <1>1, <1>2, <1>3 DEF TasksInv

\* The initial state of a pool whose shutdown flag is 0 satisfies IInv.
LEMMA InitInvariant ==
    ASSUME InitialShutdown = {0}
    PROVE  Init => IInv
<1> SUFFICES ASSUME Init PROVE IInv
  OBVIOUS
<1> USE DEF Init
<1>1. LockInv
  BY ThreadsAssumption DEF LockInv
<1>2. FlagInv
  BY DEF FlagInv
<1>3. SlotAccounting
  <2>1. Busy = {}
    BY DEF Busy
  <2>2. QED
    BY <2>1, BusyFinite, FS_EmptySet DEF SlotAccounting, DispatchToken
<1>4. NoLostWakeup /\ DispatcherWakeable
  BY DEF NoLostWakeup, DispatcherWakeable
<1>5. QED
  BY <1>1, <1>2, <1>3, <1>4, InitTasks DEF IInv

\* IInv is inductive.
LEMMA InvariantStep == IInv /\ [Next]_vars => IInv'
  BY TasksStep, LockStep, FlagStep, SlotStep, WakeStep, DispatcherStep DEF IInv, TasksInv

\* The inductive invariant holds in every reachable state.
THEOREM Invariance ==
    ASSUME InitialShutdown = {0}
    PROVE  Spec => []IInv
<1>1. Init => IInv
  BY InitInvariant
<1>2. QED
  BY <1>1, InvariantStep, PTL DEF Spec

\* The tasks are safe even if the workers read a shutdown flag that nobody has
\* set, as those of sop-pool4.c do.
THEOREM TasksInvariance == Spec => []TasksInv
  BY InitTasks, TasksStep, PTL DEF Spec

\* Every variable keeps its type.
THEOREM TypeCorrect == Spec => []TypeOK
<1>1. TasksInv => TypeOK
  BY DEF TasksInv
<1>2. QED
  BY <1>1, TasksInvariance, PTL

\* available_slots counts the free workers: tokens are neither lost nor made up.
THEOREM SlotsAccounted ==
    ASSUME InitialShutdown = {0}
    PROVE  Spec => []SlotAccounting
<1>1. IInv => SlotAccounting
  BY DEF IInv
<1>2. QED
  BY <1>1, Invariance, PTL

\* A task in the mailbox always has a worker on its way to it.
THEOREM WakeupsNotLost ==
    ASSUME InitialShutdown = {0}
    PROVE  Spec => []NoLostWakeup
<1>1. IInv => NoLostWakeup
  BY DEF IInv
<1>2. QED
  BY <1>1, Invariance, PTL

\* A task handed to dispatch is refused, finished, or in exactly one pair of hands,
\* whatever value the shutdown flag starts with.
THEOREM TasksConserved == Spec => []TaskConservation
<1>1. TasksInv => TaskConservation
  BY DEF TasksInv
<1>2. QED
  BY <1>1, TasksInvariance, PTL

\* When cleanup frees the pool, every accepted task has been executed: all the
\* workers are done, so by NoLostWakeup the mailbox is empty, and by
\* TaskConservation no other hands are full.
THEOREM CleanExit ==
    ASSUME InitialShutdown = {0}
    PROVE  Spec => []NothingLostAtExit
<1>1. IInv => NothingLostAtExit
  <2> SUFFICES ASSUME IInv, mpc = "exit" PROVE NothingLostAtExit
    BY DEF NothingLostAtExit
  <2>1. \A w \in Workers : pc[w] = "done"
    BY DEF IInv, TasksInv, FlagInv
  <2>2. has_work = 0
    BY <2>1 DEF IInv, TasksInv, TypeOK, NoLostWakeup, Looking
  <2>3. Offered = {} /\ Queued = {} /\ Running = {}
    BY <2>1, <2>2 DEF IInv, TasksInv, HandsInv, Offered, Queued, Running
  <2>4. QED
    BY <2>1, <2>2, <2>3 DEF IInv, TasksInv, TaskConservation, NothingLostAtExit
<1>2. QED
  BY <1>1, Invariance, PTL

-----------------------------------------------------------------------------
(* The pool implements WorkQueue *)

\* What the refinement mapping says of a task, in terms of whose hands it is in.
LEMMA StatusOfTask ==
    ASSUME IInv, NEW t \in Tasks
    PROVE  /\ t \in Offered => taskStatus[t] = "offered"
           /\ t \in Queued => taskStatus[t] = "queued"
           /\ t \in Running => taskStatus[t] = "running"
           /\ t \in dropped => taskStatus[t] = "dropped"
           /\ t \in finished => taskStatus[t] = "finished"
           /\ t \notin submitted => taskStatus[t] = "new"
           /\ taskStatus[t] = "offered" => t \in Offered
           /\ taskStatus[t] = "queued" => t \in Queued
           /\ taskStatus[t] = "running" => t \in Running
  BY DEF IInv, TasksInv, TaskConservation, taskStatus

\* A step that changes the hands of one task only changes its status only.
LEMMA StatusMove ==
    ASSUME NEW t \in Tasks,
           \A x \in Tasks : x # t =>
               /\ x \in Offered' <=> x \in Offered
               /\ x \in Queued' <=> x \in Queued
               /\ x \in Running' <=> x \in Running
               /\ x \in dropped' <=> x \in dropped
               /\ x \in finished' <=> x \in finished
    PROVE  taskStatus' = [taskStatus EXCEPT ![t] = taskStatus'[t]]
<1>1. \A x \in Tasks : x # t => taskStatus'[x] = taskStatus[x]
  BY DEF taskStatus
<1>2. DOMAIN taskStatus = Tasks /\ DOMAIN taskStatus' = Tasks
  BY DEF taskStatus
<1>3. taskStatus = [x \in Tasks |-> taskStatus[x]]
  BY <1>2 DEF taskStatus
<1>4. taskStatus' = [x \in Tasks |-> taskStatus'[x]]
  BY <1>2 DEF taskStatus
<1>5. QED
  BY <1>1, <1>3, <1>4

\* Two workers never run the same task, so there are at most as many tasks in
\* execution as busy workers.
LEMMA RunningBounded ==
    ASSUME IInv
    PROVE  IsFiniteSet(Running) /\ Cardinality(Running) <= Cardinality(Busy)
<1> DEFINE R == {w \in Workers : func[w] # NoTask}
           f == [w \in R |-> func[w]]
<1>1. R \in SUBSET Busy
  BY DEF IInv, TasksInv, HandsInv, Busy
<1>2. IsFiniteSet(R) /\ Cardinality(R) <= Cardinality(Busy) /\ Cardinality(R) \in Nat
  BY <1>1, BusyFinite, FS_Subset, FS_CardinalityType
<1>3. f \in Surjection(R, Running)
  <2>1. f \in [R -> Running]
    BY DEF Running
  <2>2. \A x \in Running : \E w \in R : f[w] = x
    BY DEF Running
  <2>3. QED
    BY <2>1, <2>2 DEF Surjection
<1>4. IsFiniteSet(Running) /\ Cardinality(Running) <= Cardinality(R)
  BY ONLY <1>2, <1>3, FS_Surjection
<1>5. Cardinality(Running) \in Nat
  BY <1>4, FS_CardinalityType
<1>6. QED
  BY <1>2, <1>4, <1>5, BusyFinite

\* Both modules count with the same operator.
LEMMA SameCardinality == \A S : WQ!Cardinality(S) = Cardinality(S)
  BY DEF WQ!Cardinality, Cardinality

\* The pool starts as an empty, open queue.
LEMMA RefinesInit == Init => WQ!Init
  BY DEF Init, WQ!Init, taskStatus, poolPhase, Offered, Queued, Running

\* Every step of the pool is a step of the abstract queue or changes nothing in it.
LEMMA RefinesStep ==
    IInv /\ [Next]_vars => [WQ!Next]_(WQ!vars)
<1> SUFFICES ASSUME IInv, [Next]_vars PROVE [WQ!Next]_(WQ!vars)
  OBVIOUS
<1>0. TypeOK /\ HandsInv /\ SlotAccounting /\ NoLostWakeup /\ TaskConservation
  BY DEF IInv, TasksInv
<1> USE <1>0 DEF TypeOK, mailbox, history, WorkerPCs, MainPCs
<1>1. ASSUME NEW w \in Workers, WorkerLock(w) PROVE [WQ!Next]_(WQ!vars)
  <2>1. UNCHANGED <<Offered, Queued, Running, dropped, finished>>
    BY <1>1 DEF WorkerLock, Offered, Queued, Running
  <2>2. taskStatus' = taskStatus
    BY <2>1 DEF taskStatus
  <2>3. poolPhase' = poolPhase
    BY <1>1 DEF WorkerLock, poolPhase
  <2>4. QED
    BY <2>2, <2>3 DEF WQ!vars
<1>2. ASSUME NEW w \in Workers, WorkerWait(w) PROVE [WQ!Next]_(WQ!vars)
  <2>1. UNCHANGED <<Offered, Queued, Running, dropped, finished>>
    BY <1>2 DEF WorkerWait, Offered, Queued, Running
  <2>2. taskStatus' = taskStatus
    BY <2>1 DEF taskStatus
  <2>3. poolPhase' = poolPhase
    BY <1>2 DEF WorkerWait, poolPhase
  <2>4. QED
    BY <2>2, <2>3 DEF WQ!vars
<1>3. ASSUME NEW w \in Workers, WorkerReturn(w) PROVE [WQ!Next]_(WQ!vars)
  <2>1. UNCHANGED <<Offered, Queued, Running, dropped, finished>>
    BY <1>3 DEF WorkerReturn, Offered, Queued, Running
  <2>2. taskStatus' = taskStatus
    BY <2>1 DEF taskStatus
  <2>3. poolPhase' = poolPhase
    BY <1>3 DEF WorkerReturn, poolPhase
  <2>4. QED
    BY <2>2, <2>3 DEF WQ!vars
<1>4. ASSUME NEW w \in Workers, TakeTask(w) PROVE [WQ!Next]_(WQ!vars)
  <2>1. work \in Tasks /\ work \in Queued /\ work \in Running'
    BY <1>4 DEF TakeTask, HandsInv, Queued, Running
  <2>2. /\ UNCHANGED <<Offered, dropped, finished>>
        /\ Queued = {work} /\ Queued' = {} /\ Running' = Running \cup {work}
        /\ work \notin Offered
    <3>1. func[w] = NoTask
      BY <1>4 DEF TakeTask, HandsInv
    <3>2. Running' \subseteq Running \cup {work}
      BY <1>4 DEF TakeTask, Running
    <3>3. Running \subseteq Running'
      BY <1>4, <3>1 DEF TakeTask, Running
    <3>4. QED
      BY <1>4, <2>1, <3>2, <3>3 DEF TakeTask, Offered, Queued, TaskConservation
  <2>4. taskStatus[work] = "queued" /\ taskStatus'[work] = "running"
    BY <2>1, <2>2, StatusOfTask DEF taskStatus
  <2>5. taskStatus' = [taskStatus EXCEPT ![work] = "running"]
    BY <2>1, <2>2, <2>4, StatusMove
  <2>6. poolPhase' = poolPhase
    BY <1>4 DEF TakeTask, TaskReceived, poolPhase
  <2>9. WQ!Start(work)
    BY <2>1, <2>4, <2>5, <2>6 DEF WQ!Start, WQ!Move
  <2>10. QED
    BY <2>1, <2>9 DEF WQ!Next
<1>5. ASSUME NEW w \in Workers, RunTask(w) PROVE [WQ!Next]_(WQ!vars)
  <2>1. func[w] \in Tasks /\ func[w] \in Running
    BY <1>5 DEF RunTask, HandsInv, Running
  <2>2. /\ UNCHANGED <<Offered, Queued, dropped>>
        /\ finished' = finished \cup {func[w]} /\ Running' = Running \ {func[w]}
        /\ func[w] \notin Offered \cup Queued \cup dropped
    <3>1. \A v \in Workers : v # w => func'[v] = func[v] /\ func[v] # func[w]
      BY <1>5, <2>1 DEF RunTask, TaskConservation, Running
    <3>2. func'[w] = NoTask
      BY <1>5 DEF RunTask
    <3>3. Running' = Running \ {func[w]}
      <4>1. \A x : x \in Running' => x \in Running \ {func[w]}
        BY <3>1, <3>2 DEF Running
      <4>2. \A x : x \in Running \ {func[w]} => x \in Running'
        BY <3>1 DEF Running
      <4>3. QED
        BY <4>1, <4>2
    <3>4. QED
      BY <1>5, <2>1, <3>3 DEF RunTask, Offered, Queued, TaskConservation
  <2>4. taskStatus[func[w]] = "running" /\ taskStatus'[func[w]] = "finished"
    BY <2>1, <2>2, StatusOfTask DEF taskStatus
  <2>5. taskStatus' = [taskStatus EXCEPT ![func[w]] = "finished"]
    BY <2>1, <2>2, <2>4, StatusMove
  <2>6. poolPhase' = poolPhase
    BY <1>5 DEF RunTask, poolPhase
  <2>9. WQ!Finish(func[w])
    BY <2>1, <2>4, <2>5, <2>6 DEF WQ!Finish, WQ!Move
  <2>10. QED
    BY <2>1, <2>9 DEF WQ!Next
<1>6. ASSUME NEW w \in Workers, PostSlot(w) PROVE [WQ!Next]_(WQ!vars)
  <2>1. UNCHANGED <<Offered, Queued, Running, dropped, finished>>
    BY <1>6 DEF PostSlot, Offered, Queued, Running
  <2>2. taskStatus' = taskStatus
    BY <2>1 DEF taskStatus
  <2>3. poolPhase' = poolPhase
    BY <1>6 DEF PostSlot, poolPhase
  <2>4. QED
    BY <2>2, <2>3 DEF WQ!vars
<1>7. ASSUME NEW t \in Tasks, Submit(t) PROVE [WQ!Next]_(WQ!vars)
  <2>1. t \in Tasks /\ t \notin submitted
    BY <1>7 DEF Submit
  <2>2. /\ UNCHANGED <<Queued, Running, dropped, finished>>
        /\ Offered = {} /\ Offered' = {t}
    BY <1>7, TasksAssumption DEF Submit, HandsInv, Offered, Queued, Running
  <2>4. taskStatus[t] = "new" /\ taskStatus'[t] = "offered"
    BY <2>1, <2>2, StatusOfTask DEF taskStatus
  <2>5. taskStatus' = [taskStatus EXCEPT ![t] = "offered"]
    BY <2>1, <2>2, <2>4, StatusMove
  <2>6. poolPhase' = poolPhase
    BY <1>7 DEF Submit, poolPhase
  <2>7. poolPhase = "open"
    BY <1>7 DEF Submit, poolPhase
  <2>8. WQ!In({"offered"}) = {}
    BY <2>2, StatusOfTask DEF WQ!In
  <2>9. WQ!Offer(t)
    BY <2>1, <2>4, <2>5, <2>6, <2>7, <2>8 DEF WQ!Offer, WQ!Move
  <2>10. QED
    BY <2>1, <2>9 DEF WQ!Next
<1>8. CASE AcquireSlot
  <2>1. UNCHANGED <<Offered, Queued, Running, dropped, finished>>
    BY <1>8 DEF AcquireSlot, Offered, Queued, Running
  <2>2. taskStatus' = taskStatus
    BY <2>1 DEF taskStatus
  <2>3. poolPhase' = poolPhase
    BY <1>8 DEF AcquireSlot, poolPhase
  <2>4. QED
    BY <2>2, <2>3 DEF WQ!vars
<1>9. CASE RejectTask
  <2>1. dispatching \in Tasks /\ dispatching \in Offered
    BY <1>9 DEF RejectTask, HandsInv, Offered
  <2>2. /\ UNCHANGED <<Queued, Running, finished>>
        /\ Offered = {dispatching} /\ Offered' = {} /\ dropped' = dropped \cup {dispatching}
        /\ dispatching \notin Queued \cup Running
    BY <1>9, <2>1 DEF RejectTask, HandsInv, Offered, Queued, Running, TaskConservation
  <2>4. taskStatus[dispatching] = "offered" /\ taskStatus'[dispatching] = "dropped"
    BY <2>1, <2>2, StatusOfTask DEF taskStatus
  <2>5. taskStatus' = [taskStatus EXCEPT ![dispatching] = "dropped"]
    BY <2>1, <2>2, <2>4, StatusMove
  <2>6. poolPhase' = poolPhase
    BY <1>9 DEF RejectTask, poolPhase
  <2>7. Admission = "try"
    BY <1>9 DEF RejectTask
  <2>9. WQ!Drop(dispatching)
    BY <2>1, <2>4, <2>5, <2>6, <2>7 DEF WQ!Drop, WQ!Move
  <2>10. QED
    BY <2>1, <2>9 DEF WQ!Next
<1>10. CASE DispatchLock
  <2>1. UNCHANGED <<Offered, Queued, Running, dropped, finished>>
    BY <1>10 DEF DispatchLock, Offered, Queued, Running
  <2>2. taskStatus' = taskStatus
    BY <2>1 DEF taskStatus
  <2>3. poolPhase' = poolPhase
    BY <1>10 DEF DispatchLock, poolPhase
  <2>4. QED
    BY <2>2, <2>3 DEF WQ!vars
<1>11. CASE DispatchWait
  <2>1. UNCHANGED <<Offered, Queued, Running, dropped, finished>>
    BY <1>11 DEF DispatchWait, Offered, Queued, Running
  <2>2. taskStatus' = taskStatus
    BY <2>1 DEF taskStatus
  <2>3. poolPhase' = poolPhase
    BY <1>11 DEF DispatchWait, poolPhase
  <2>4. QED
    BY <2>2, <2>3 DEF WQ!vars
<1>12. CASE Deposit
  <2>1. dispatching \in Tasks /\ dispatching \in Offered
    BY <1>12 DEF Deposit, HandsInv, Offered
  <2>2. /\ UNCHANGED <<Running, dropped, finished>>
        /\ Offered = {dispatching} /\ Offered' = {} /\ Queued = {} /\ Queued' = {dispatching}
    BY <1>12 DEF Deposit, HandsInv, Offered, Queued, Running
  <2>4. taskStatus[dispatching] = "offered" /\ taskStatus'[dispatching] = "queued"
    BY <2>1, <2>2, StatusOfTask DEF taskStatus
  <2>5. taskStatus' = [taskStatus EXCEPT ![dispatching] = "queued"]
    BY <2>1, <2>2, <2>4, StatusMove
  <2>6. poolPhase' = poolPhase
    BY <1>12 DEF Deposit, SignalWorkReady, Sleepers, poolPhase
  <2>7. WQ!In({"queued"}) = {}
    BY <2>2, StatusOfTask DEF WQ!In
  <2>8. Cardinality(WQ!In({"queued", "running"})) < Cardinality(Workers)
    <3>1. WQ!In({"queued", "running"}) = Running
      <4>1. Running \subseteq Tasks
        BY DEF Running
      <4>2. \A x \in Tasks : taskStatus[x] \in {"queued", "running"} <=> x \in Running
        BY <2>2, StatusOfTask
      <4>3. QED
        BY <4>1, <4>2 DEF WQ!In
    <3>2. Cardinality(Busy) < Cardinality(Workers)
      BY <1>12, BusyFinite DEF Deposit, SlotAccounting, DispatchToken
    <3>3. QED
      BY <3>1, <3>2, RunningBounded, BusyFinite, FS_CardinalityType
  <2>9. WQ!Enqueue(dispatching)
    BY <2>1, <2>4, <2>5, <2>6, <2>7, <2>8, SameCardinality DEF WQ!Enqueue, WQ!Move
  <2>10. QED
    BY <2>1, <2>9 DEF WQ!Next
<1>13. CASE CleanupLock
  <2>1. UNCHANGED <<Offered, Queued, Running, dropped, finished>>
    BY <1>13 DEF CleanupLock, Offered, Queued, Running
  <2>2. taskStatus' = taskStatus
    BY <2>1 DEF taskStatus
  <2>3. poolPhase' = poolPhase
    BY <1>13 DEF CleanupLock, poolPhase
  <2>4. QED
    BY <2>2, <2>3 DEF WQ!vars
<1>14. CASE Shutdown
  <2>1. UNCHANGED <<Offered, Queued, Running, dropped, finished>>
    BY <1>14 DEF Shutdown, Offered, Queued, Running
  <2>2. taskStatus' = taskStatus
    BY <2>1 DEF taskStatus
  <2>3. poolPhase' = poolPhase
    BY <1>14 DEF Shutdown, poolPhase
  <2>4. QED
    BY <2>2, <2>3 DEF WQ!vars
<1>15. CASE JoinAndFree
  <2>1. UNCHANGED <<Offered, Queued, Running, dropped, finished>>
    BY <1>15 DEF JoinAndFree, Offered, Queued, Running
  <2>2. taskStatus' = taskStatus
    BY <2>1 DEF taskStatus
  <2>3. poolPhase = "closing" /\ poolPhase' = "closed"
    BY <1>15 DEF JoinAndFree, poolPhase
  <2>4. WQ!In({"offered", "queued", "running"}) = {}
    <3>1. has_work = 0
      BY <1>15 DEF JoinAndFree, NoLostWakeup, Looking
    <3>2. Offered = {} /\ Queued = {} /\ Running = {}
      BY <1>15, <3>1 DEF JoinAndFree, HandsInv, Offered, Queued, Running
    <3>3. QED
      BY <3>2, StatusOfTask DEF WQ!In
  <2>5. QED
    BY <2>2, <2>3, <2>4 DEF WQ!Next, WQ!Closed
<1>16. CASE Quit
  <2>1. UNCHANGED <<Offered, Queued, Running, dropped, finished>>
    BY <1>16 DEF Quit, Offered, Queued, Running
  <2>2. taskStatus' = taskStatus
    BY <2>1 DEF taskStatus
  <2>3. poolPhase = "open" /\ poolPhase' = "closing"
    BY <1>16 DEF Quit, poolPhase
  <2>4. WQ!In({"offered"}) = {}
    BY <1>16, StatusOfTask DEF Quit, HandsInv, Offered, WQ!In
  <2>5. QED
    BY <2>2, <2>3, <2>4 DEF WQ!Next, WQ!Close
<1>17. CASE SpuriousWakeup
  <2>1. UNCHANGED <<Offered, Queued, Running, dropped, finished>>
    BY <1>17 DEF SpuriousWakeup, Sleepers, Offered, Queued, Running
  <2>2. taskStatus' = taskStatus
    BY <2>1 DEF taskStatus
  <2>3. poolPhase' = poolPhase
    BY <1>17 DEF SpuriousWakeup, Sleepers, poolPhase
  <2>4. QED
    BY <2>2, <2>3 DEF WQ!vars
<1>18. CASE UNCHANGED vars
  <2>1. UNCHANGED <<Offered, Queued, Running, dropped, finished>>
    BY <1>18 DEF vars, Offered, Queued, Running
  <2>2. taskStatus' = taskStatus
    BY <2>1 DEF taskStatus
  <2>3. poolPhase' = poolPhase
    BY <1>18 DEF vars, poolPhase
  <2>4. QED
    BY <2>2, <2>3 DEF WQ!vars
<1>19. QED
  BY <1>1, <1>2, <1>3, <1>4, <1>5, <1>6, <1>7, <1>8, <1>9, <1>10, <1>11, <1>12, <1>13, <1>14, <1>15, <1>16, <1>17, <1>18
     DEF Next, WorkerStep, MainStep, PassSemaphore, Terminated

\* The thread pool is a correct implementation of the abstract queue: whatever
\* the interleaving, an accepted task is started once and finished once, at
\* most one task per worker is accepted, and cleanup returns with none left.
THEOREM Refinement ==
    ASSUME InitialShutdown = {0}
    PROVE  Spec => ImplementsWorkQueue
<1>1. Init => WQ!Init
  BY RefinesInit
<1>2. IInv /\ [Next]_vars => [WQ!Next]_(WQ!vars)
  BY RefinesStep
<1>3. Spec => []IInv
  BY Invariance
<1>4. QED
  BY <1>1, <1>2, <1>3, PTL DEF Spec, ImplementsWorkQueue, WQ!Spec

-----------------------------------------------------------------------------
(* No thread of the pool waits for ever *)

\* Nobody goes to sleep after shutdown.
NoSleeper == shutdown = 1 => \A w \in Workers : pc[w] # "waiting"

\* What a worker, and what main, can do now. In "idle" main waits for the user.
PoolWorkerRuns(w) ==
    \/ pc[w] \in {"lock", "woken"} /\ lock = NoThread
    \/ pc[w] \in {"check", "run", "post"}
PoolMainRuns ==
    \/ mpc = "slot" /\ (available_slots > 0 \/ Admission = "try")
    \/ mpc \in {"lock", "woken", "shut"} /\ lock = NoThread
    \/ mpc \in {"deposit", "broadcast"}
    \/ mpc = "join" /\ \A w \in Workers : pc[w] = "done"

\* When nobody can run, main is back at the prompt or the program has ended, and every
\* task has been executed or refused.
NothingPending ==
    \/ \E w \in Workers : PoolWorkerRuns(w)
    \/ PoolMainRuns
    \/ mpc \in {"idle", "exit"} /\ has_work = 0 /\ submitted = dropped \cup finished

LEMMA NoSleeperStep == TypeOK /\ NoSleeper /\ [Next]_vars => NoSleeper'
<1> SUFFICES ASSUME TypeOK, NoSleeper, [Next]_vars PROVE NoSleeper'
  OBVIOUS
<1> USE DEF NoSleeper, history, mailbox
<1>0. pc \in [Workers -> WorkerPCs]
  BY DEF TypeOK
<1>1. ASSUME SignalWorkReady, UNCHANGED shutdown PROVE NoSleeper'
  BY <1>0, <1>1 DEF SignalWorkReady, Sleepers
<1>2. ASSUME NEW w \in Workers, WorkerStep(w) PROVE NoSleeper'
  BY <1>0, <1>2
     DEF WorkerStep, WorkerLock, WorkerWait, WorkerReturn, TakeTask, RunTask, PostSlot
<1>3. ASSUME NEW t \in Tasks, Submit(t) PROVE NoSleeper'
  BY <1>3 DEF Submit
<1>4. CASE AcquireSlot \/ RejectTask \/ DispatchLock \/ DispatchWait
  BY <1>4 DEF AcquireSlot, RejectTask, DispatchLock, DispatchWait
<1>5. CASE Deposit
  BY <1>1, <1>5 DEF Deposit
<1>6. CASE Quit \/ CleanupLock \/ JoinAndFree
  BY <1>6 DEF Quit, CleanupLock, JoinAndFree
<1>7. CASE Shutdown
  BY <1>0, <1>7 DEF Shutdown
<1>8. CASE SpuriousWakeup
  BY <1>0, <1>8 DEF SpuriousWakeup, Sleepers
<1>9. CASE Terminated \/ UNCHANGED vars
  BY <1>9 DEF Terminated, vars
<1> QED
  BY <1>2, <1>3, <1>4, <1>5, <1>6, <1>7, <1>8, <1>9 DEF Next, MainStep, PassSemaphore

\* With either admission and any number of workers, one is enough, the pool never comes
\* to a standstill with a task in dispatch, in the mailbox or in a worker, and cleanup
\* never joins a worker that sleeps: somebody can run until everything that was
\* submitted is executed or refused. A task's function is taken to return by itself
\* here; where it waits for other tasks, see GridlockFree of MonteCarloProofs.
THEOREM NeverStuck ==
    ASSUME InitialShutdown = {0}
    PROVE  Spec => []NothingPending
<1>1. ASSUME IInv, NoSleeper PROVE NothingPending
  <2> SUFFICES ASSUME ~ PoolMainRuns, \A w \in Workers : ~ PoolWorkerRuns(w)
               PROVE  mpc \in {"idle", "exit"} /\ has_work = 0 /\ submitted = dropped \cup finished
    BY DEF NothingPending
  <2>0. TypeOK /\ HandsInv /\ TaskConservation
    BY <1>1 DEF IInv, TasksInv
  <2>1. lock = NoThread
    <3>1. lock \notin Workers /\ lock # Main
      BY <1>1 DEF IInv, LockInv, PoolWorkerRuns, PoolMainRuns
    <3> QED
      BY <2>0, <3>1 DEF TypeOK, Threads
  <2>2. \A w \in Workers : pc[w] \in {"waiting", "done"}
    BY <2>0, <2>1 DEF PoolWorkerRuns, TypeOK, WorkerPCs
  <2>3. has_work = 0
    BY <1>1, <2>0, <2>2 DEF IInv, NoLostWakeup, Looking, TypeOK
  <2>4. mpc # "slot"
    <3>1. Busy = {}
      BY <2>2 DEF Busy
    <3>2. Cardinality(Busy) = 0 /\ Cardinality(Workers) # 0 /\ Cardinality(Workers) \in Nat
      BY <3>1, WorkersAssumption, FS_EmptySet, FS_CardinalityType
    <3> QED
      BY <1>1, <2>0, <2>3, <3>2 DEF IInv, SlotAccounting, DispatchToken, PoolMainRuns, TypeOK
  <2>5. mpc # "join"
    BY <1>1, <2>2 DEF PoolMainRuns, NoSleeper, IInv, FlagInv
  <2>6. mpc \in {"idle", "exit"}
    BY <1>1, <2>0, <2>1, <2>3, <2>4, <2>5
       DEF PoolMainRuns, IInv, DispatcherWakeable, TypeOK, MainPCs
  <2>7. Offered = {} /\ Queued = {} /\ Running = {}
    BY <2>0, <2>2, <2>3, <2>6 DEF Offered, Queued, Running, HandsInv
  <2> QED
    BY <2>0, <2>3, <2>6, <2>7 DEF TaskConservation
<1>2. Init => NoSleeper
  BY DEF Init, NoSleeper
<1>3. IInv /\ NoSleeper /\ [Next]_vars => NoSleeper'
  BY NoSleeperStep DEF IInv, TasksInv
<1> QED
  BY <1>1, <1>2, <1>3, Invariance, PTL DEF Spec
=============================================================================
