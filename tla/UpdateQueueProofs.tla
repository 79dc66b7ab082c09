-------------------------- MODULE UpdateQueueProofs --------------------------
(***************************************************************************)
(* Proofs about UpdateQueue for every capacity, every set of callers and   *)
(* every request: types, mutual exclusion, a whole ring whenever the mutex *)
(* is free, and the refinement of the bounded FIFO of UpdateFifo.          *)
(***************************************************************************)
EXTENDS UpdateQueue, SequenceTheorems, TLAPS

(* How many slots, counted from front, the ring shows as used while thread *)
(* t is inside: rear runs ahead of count in an enqueue, front in a dequeue.*)
Used(t) ==
  IF pc[t] # "count" THEN count
  ELSE IF t = UpdateThread THEN count - 1 ELSE count + 1

(* The inductive invariant.  TypeOK and RingWhole are not inductive alone: *)
(* count stays below the capacity only because the thread that increments  *)
(* it checked it under the mutex, and the ring is whole when the mutex is  *)
(* released only because of what it looked like at each step inside.       *)
QueueInv ==
  /\ TypeOK
  /\ LockDiscipline
  /\ RingWhole
  /\ \A t \in Threads : pc[t] \in Inside => rear = Slot(front + Used(t))
  /\ \A p \in Callers : pc[p] \in {"rear", "count"} =>
       count < MaxQueuedUpdates /\ updates[Slot(front + count)] \in Updates
  /\ pc[UpdateThread] \in {"front", "count"} => count > 0
  /\ \A p \in Callers : pc[p] \notin {"idle", "dying", "dead", "exited"} => args[p] # <<>>

-----------------------------------------------------------------------------
(* Arithmetic of the ring: positions of up to two laps are reduced by      *)
(* subtracting the capacity.                                               *)
LEMMA SlotReduces ==
  ASSUME NEW i \in 0 .. 2 * MaxQueuedUpdates - 1
  PROVE  Slot(i) = IF i < MaxQueuedUpdates THEN i ELSE i - MaxQueuedUpdates
BY CapacityAssumption, SMT DEF Slot

(* Stepping a reduced position is reducing the stepped position.           *)
LEMMA SlotStep ==
  ASSUME NEW i \in Nat, i < 2 * MaxQueuedUpdates
  PROVE  /\ Slot(i) \in 0 .. MaxQueuedUpdates - 1
         /\ Slot(Slot(i) + 1) = Slot(i + 1)
<1>1. Slot(i) \in 0 .. MaxQueuedUpdates - 1
  BY CapacityAssumption, SMT DEF Slot
<1>2. Slot(Slot(i) + 1) = Slot(i + 1)
  <2>1. CASE i + 1 < 2 * MaxQueuedUpdates
    BY <2>1, <1>1, SlotReduces, CapacityAssumption
  <2>2. CASE i + 1 = 2 * MaxQueuedUpdates
    BY <2>2, <1>1, SlotReduces, CapacityAssumption, SMT DEF Slot
  <2>3. QED BY <2>1, <2>2, CapacityAssumption
<1>3. QED BY <1>1, <1>2

(* Counting from the slot after front is counting one further from front.  *)
LEMMA SlotSkip ==
  ASSUME NEW f \in 0 .. MaxQueuedUpdates - 1, NEW n \in 0 .. MaxQueuedUpdates - 1
  PROVE  Slot(Slot(f + 1) + n) = Slot(f + n + 1)
<1> USE CapacityAssumption
<1>1. CASE f + 1 < MaxQueuedUpdates
  <2>1. Slot(f + 1) = f + 1
    BY <1>1, SlotReduces
  <2>2. QED BY <2>1
<1>2. CASE f + 1 = MaxQueuedUpdates
  <2>1. Slot(f + 1) = 0
    BY <1>2, SlotReduces
  <2>2. Slot(0 + n) = n
    BY SlotReduces
  <2>3. Slot(f + n + 1) = n
    <3>1. f + n + 1 \in MaxQueuedUpdates .. 2 * MaxQueuedUpdates - 1
      BY <1>2
    <3>2. QED BY <3>1, <1>2, SlotReduces
  <2>4. QED BY <2>1, <2>2, <2>3
<1>3. QED BY <1>1, <1>2

(* The statically initialised, empty ring satisfies the invariant.         *)
LEMMA InitEstablishesQueueInv == Init => QueueInv
<1> SUFFICES ASSUME Init PROVE QueueInv
  OBVIOUS
<1> USE CallersAssumption, CapacityAssumption, NoUpdateAssumption
<1>1. TypeOK
  BY DEF Init, TypeOK, Threads, CallerSteps, UpdateThreadSteps
<1>2. LockDiscipline
  BY DEF Init, LockDiscipline, Threads, Inside
<1>3. RingWhole
  BY SlotReduces DEF Init, RingWhole
<1>4. QED
  BY <1>1, <1>2, <1>3 DEF Init, QueueInv, Threads, Inside

(* Every step preserves QueueInv, action by action.                        *)
LEMMA NextPreservesQueueInv == QueueInv /\ [Next]_vars => QueueInv'
<1> SUFFICES ASSUME QueueInv, [Next]_vars PROVE QueueInv'
  OBVIOUS
<1> USE CallersAssumption, CapacityAssumption, NoUpdateAssumption
<1> USE DEF QueueInv, TypeOK, LockDiscipline, RingWhole, Threads, Inside, Used, Goto,
            CallerSteps, UpdateThreadSteps
<1>1. ASSUME NEW t \in Threads, Acquire(t) PROVE QueueInv'
  BY <1>1 DEF Acquire
<1>2. ASSUME NEW t \in Threads, WakeSpuriously(t) PROVE QueueInv'
  BY <1>2 DEF WakeSpuriously
<1>3. ASSUME NEW p \in Callers, NEW request \in Requests, UpdateWindows(p, request)
      PROVE  QueueInv'
  BY <1>3, RequestsAssumption DEF UpdateWindows
<1>4. ASSUME NEW p \in Callers, WaitNotFull(p) PROVE QueueInv'
  BY <1>4 DEF WaitNotFull
<1>5. ASSUME NEW p \in Callers, StoreUpdate(p) PROVE QueueInv'
  <2>1. rear = Slot(front + count) /\ Head(args[p]) \in Updates
    <3>1. args[p] \in Seq(Updates) /\ args[p] # <<>>
      BY <1>5 DEF StoreUpdate
    <3>2. QED BY <1>5, <3>1, HeadTailProperties DEF StoreUpdate
  <2>2. QED BY <1>5, <2>1 DEF StoreUpdate
<1>6. ASSUME NEW p \in Callers, AdvanceRear(p) PROVE QueueInv'
  <2>1. rear = Slot(front + count) /\ rear' = Slot(rear + 1) /\ count < MaxQueuedUpdates
    BY <1>6 DEF AdvanceRear
  <2>2. front + count \in Nat /\ front + count < 2 * MaxQueuedUpdates
    BY <2>1
  <2>3. rear' = Slot(front + count + 1)
    BY <2>1, <2>2, SlotStep
  <2>4. rear' \in 0 .. MaxQueuedUpdates - 1
    BY SMTT(30), <2>1, SlotStep
  <2>5. QED BY <1>6, <2>1, <2>3, <2>4 DEF AdvanceRear
<1>7. ASSUME NEW p \in Callers, IncrementCount(p) PROVE QueueInv'
  BY <1>7 DEF IncrementCount
<1>8. ASSUME NEW p \in Callers, SignalNotEmpty(p) PROVE QueueInv'
  BY <1>8 DEF SignalNotEmpty
<1>9. ASSUME NEW p \in Callers, ReleaseQueue(p) PROVE QueueInv'
  <2>1. args[p] \in Seq(Updates) /\ args[p] # <<>>
    BY <1>9 DEF ReleaseQueue
  <2>2. Tail(args[p]) \in Seq(Updates) /\ (Len(args[p]) # 1 => Tail(args[p]) # <<>>)
    <3>1. Len(args[p]) \in Nat /\ Len(args[p]) # 0
      BY <2>1, EmptySeq
    <3>2. Tail(args[p]) \in Seq(Updates) /\ Len(Tail(args[p])) = Len(args[p]) - 1
      BY <2>1, HeadTailProperties
    <3>3. Len(args[p]) # 1 => Len(Tail(args[p])) # 0
      BY <3>1, <3>2
    <3>4. Len(<<>>) = 0
      BY EmptySeq, Zenon
    <3>5. QED BY <3>2, <3>3, <3>4
  <2>3. QED BY <1>9, <2>2 DEF ReleaseQueue
<1>10. ASSUME NEW p \in Callers, Cancel(p) PROVE QueueInv'
  BY <1>10 DEF Cancel
<1>11. ASSUME NEW p \in Callers, Die(p) PROVE QueueInv'
  BY <1>11 DEF Die
<1>12. ASSUME NEW p \in Callers, Recreate(p) PROVE QueueInv'
  BY <1>12 DEF Recreate
<1>13. CASE StartUpdateThread
  BY <1>13 DEF StartUpdateThread
<1>14. CASE WaitNotEmpty
  BY <1>14 DEF WaitNotEmpty
<1>15. CASE FetchUpdate
  BY <1>15 DEF FetchUpdate
<1>16. CASE AdvanceFront
  <2>1. /\ front' = Slot(front + 1) /\ rear = Slot(front + count)
        /\ count \in 1 .. MaxQueuedUpdates
    BY <1>16 DEF AdvanceFront
  <2>2. Slot(front + 1) \in 0 .. MaxQueuedUpdates - 1
    BY SlotStep
  <2>3. Slot(Slot(front + 1) + (count - 1)) = Slot(front + (count - 1) + 1)
    BY <2>1, SlotSkip
  <2>4. rear = Slot(front' + (count - 1))
    BY <2>1, <2>3
  <2>5. QED BY <1>16, <2>1, <2>2, <2>4 DEF AdvanceFront
<1>17. CASE DecrementCount
  BY <1>17 DEF DecrementCount
<1>18. CASE SignalNotFull
  BY <1>18 DEF SignalNotFull
<1>19. CASE UnlockAndUpdate
  BY <1>19 DEF UnlockAndUpdate
<1>20. CASE FinishUpdate
  BY <1>20 DEF FinishUpdate
<1>21. CASE FailUpdate
  BY <1>21 DEF FailUpdate
<1>22. CASE UNCHANGED vars
  BY <1>22 DEF vars
<1>23. QED
  BY <1>1, <1>2, <1>3, <1>4, <1>5, <1>6, <1>7, <1>8, <1>9, <1>10, <1>11, <1>12, <1>13,
     <1>14, <1>15, <1>16, <1>17, <1>18, <1>19, <1>20, <1>21, <1>22
     DEF Next, DequeueStep, EnqueueStep

(* The invariant holds in every reachable state of the queue.              *)
THEOREM QueueInvariant == Spec => []QueueInv
BY InitEstablishesQueueInv, NextPreservesQueueInv, PTL DEF Spec

(* The types and bounds of the queue, for every capacity.                  *)
THEOREM TypeCorrect == Spec => []TypeOK
BY QueueInvariant, PTL DEF QueueInv

(* enqueue_update() and dequeue_update() exclude each other, whoever is    *)
(* cancelled and whichever condition variable wakes without a signal.      *)
THEOREM MutualExclusion == Spec => []LockDiscipline
BY QueueInvariant, PTL DEF QueueInv

(* No interleaving or cancellation leaves a broken ring behind a free      *)
(* mutex: a half-done update of it is behind a mutex nobody gets again.    *)
THEOREM RingWholeWhenFree == Spec => []RingWhole
BY QueueInvariant, PTL DEF QueueInv

-----------------------------------------------------------------------------
(* Wake-ups.                                                               *)

(* What NoLostWakeUp needs while a thread is inside.  Who sleeps is in     *)
(* "wait"; the callers take turns, so that the one signal of a dequeue     *)
(* reaches the only caller that can sleep; and once count has moved away   *)
(* from what a sleeper sleeps on, the thread that moved it is on its way   *)
(* to the signal, or was cancelled there and has taken the mutex with it.  *)
WakeUpInv ==
  /\ not_empty # {} => pc[UpdateThread] = "wait"
  /\ \A p \in not_full : pc[p] = "wait"
  /\ \A p, q \in Callers :
       p # q => \E t \in {p, q} : pc[t] \in {"idle", "dead", "exited"}
  /\ not_empty # {} =>
       count = 0 \/ lock = Abandoned \/ \E p \in Callers : pc[p] = "signal"
  /\ not_full # {} => count = MaxQueuedUpdates \/ pc[UpdateThread] = "signal"

(* Nobody sleeps before a thread runs.                                     *)
LEMMA InitEstablishesWakeUpInv == Init => WakeUpInv
BY CallersAssumption DEF Init, WakeUpInv, Threads

(* Every step preserves WakeUpInv.                                         *)
LEMMA NextPreservesWakeUpInv == QueueInv /\ WakeUpInv /\ [Next]_vars => WakeUpInv'
<1> SUFFICES ASSUME QueueInv, WakeUpInv, [Next]_vars PROVE WakeUpInv'
  OBVIOUS
<1> USE CallersAssumption, CapacityAssumption
<1> USE DEF QueueInv, TypeOK, LockDiscipline, WakeUpInv, Threads, Inside, Goto
<1>1. ASSUME NEW t \in Threads, Acquire(t) PROVE WakeUpInv'
  BY <1>1 DEF Acquire
<1>2. ASSUME NEW t \in Threads, WakeSpuriously(t) PROVE WakeUpInv'
  BY <1>2 DEF WakeSpuriously
<1>3. ASSUME NEW p \in Callers, NEW request \in Requests, UpdateWindows(p, request)
      PROVE  WakeUpInv'
  BY <1>3 DEF UpdateWindows
<1>4. ASSUME NEW p \in Callers, WaitNotFull(p) PROVE WakeUpInv'
  BY <1>4 DEF WaitNotFull
<1>5. ASSUME NEW p \in Callers, StoreUpdate(p) PROVE WakeUpInv'
  BY <1>5 DEF StoreUpdate
<1>6. ASSUME NEW p \in Callers, AdvanceRear(p) PROVE WakeUpInv'
  BY <1>6 DEF AdvanceRear
<1>7. ASSUME NEW p \in Callers, IncrementCount(p) PROVE WakeUpInv'
  BY <1>7 DEF IncrementCount
<1>8. ASSUME NEW p \in Callers, SignalNotEmpty(p) PROVE WakeUpInv'
  <2>1. not_empty' = {}
    BY <1>8 DEF SignalNotEmpty
  <2>2. QED BY <1>8, <2>1 DEF SignalNotEmpty
<1>9. ASSUME NEW p \in Callers, ReleaseQueue(p) PROVE WakeUpInv'
  BY <1>9 DEF ReleaseQueue
<1>10. ASSUME NEW p \in Callers, Cancel(p) PROVE WakeUpInv'
  BY <1>10 DEF Cancel
<1>11. ASSUME NEW p \in Callers, Die(p) PROVE WakeUpInv'
  BY <1>11 DEF Die
<1>12. ASSUME NEW p \in Callers, Recreate(p) PROVE WakeUpInv'
  BY <1>12 DEF Recreate
<1>13. CASE StartUpdateThread
  BY <1>13 DEF StartUpdateThread
<1>14. CASE WaitNotEmpty
  BY <1>14 DEF WaitNotEmpty
<1>15. CASE FetchUpdate \/ AdvanceFront
  BY <1>15 DEF FetchUpdate, AdvanceFront
<1>16. CASE DecrementCount
  BY <1>16 DEF DecrementCount
<1>17. CASE SignalNotFull
  <2>1. \A p, q \in not_full : p = q
    OBVIOUS
  <2>2. not_full' = {}
    BY <1>17, <2>1 DEF SignalNotFull
  <2>3. QED BY <1>17, <2>2 DEF SignalNotFull
<1>18. CASE UnlockAndUpdate
  BY <1>18 DEF UnlockAndUpdate
<1>19. CASE FinishUpdate
  BY <1>19 DEF FinishUpdate
<1>20. CASE FailUpdate
  BY <1>20 DEF FailUpdate
<1>21. CASE UNCHANGED vars
  BY <1>21 DEF vars
<1>22. QED
  BY <1>1, <1>2, <1>3, <1>4, <1>5, <1>6, <1>7, <1>8, <1>9, <1>10, <1>11, <1>12,
     <1>13, <1>14, <1>15, <1>16, <1>17, <1>18, <1>19, <1>20, <1>21 DEF Next, DequeueStep, EnqueueStep

(* While the mutex is free no thread sleeps on a condition that holds no   *)
(* longer, for every capacity and every number of callers that take turns, *)
(* across cancellation and spurious wake-ups.                              *)
THEOREM NoWakeUpIsLost == Spec => []NoLostWakeUp
<1>1. QueueInv /\ WakeUpInv => NoLostWakeUp
  BY CallersAssumption DEF QueueInv, LockDiscipline, WakeUpInv, NoLostWakeUp, Threads, Inside
<1>2. QED
  BY <1>1, QueueInvariant, InitEstablishesWakeUpInv, NextPreservesWakeUpInv, PTL DEF Spec

-----------------------------------------------------------------------------
(* The refinement.                                                         *)

(* Two offsets of less than a lap from the same slot are different slots.  *)
LEMMA SlotsDistinct ==
  ASSUME NEW f \in 0 .. MaxQueuedUpdates - 1,
         NEW m \in 0 .. MaxQueuedUpdates - 1, NEW n \in 0 .. MaxQueuedUpdates - 1, m < n
  PROVE  Slot(f + m) # Slot(f + n)
<1> USE CapacityAssumption
<1>1. /\ f + m \in 0 .. 2 * MaxQueuedUpdates - 1
      /\ f + n \in 0 .. 2 * MaxQueuedUpdates - 1
  OBVIOUS
<1>2. /\ Slot(f + m) = IF f + m < MaxQueuedUpdates THEN f + m ELSE f + m - MaxQueuedUpdates
      /\ Slot(f + n) = IF f + n < MaxQueuedUpdates THEN f + n ELSE f + n - MaxQueuedUpdates
  BY <1>1, SlotReduces
<1>3. QED BY <1>2

(* Incrementing count accepts the update that was stored.                  *)
LEMMA IncrementCountAccepts ==
  ASSUME QueueInv, NEW p \in Callers, IncrementCount(p)
  PROVE  \E u \in Updates : Fifo!Accept(u)
<1> USE CallersAssumption, CapacityAssumption
<1> USE DEF QueueInv, TypeOK, LockDiscipline, Threads, Inside, Goto, IncrementCount
<1> DEFINE u == updates[Slot(front + count)]
<1>1. u \in Updates /\ count < MaxQueuedUpdates
  OBVIOUS
<1>2. ~Fetched /\ ~Fetched'
  BY DEF Fetched
<1>3. /\ Accepted = count /\ Accepted' = count + 1
      /\ FirstSlot = front /\ FirstSlot' = front
  BY <1>2 DEF Accepted, FirstSlot, Fetched
<1>4. /\ Pending = [i \in 1 .. count |-> updates[Slot(front + i - 1)]]
      /\ Pending' = [i \in 1 .. count + 1 |-> updates[Slot(front + i - 1)]]
  BY <1>3 DEF Pending
<1>5. Len(Pending) = count
  BY <1>4
<1>6. Pending' = Append(Pending, u)
  BY <1>4, <1>5
<1>7. QED
  BY <1>1, <1>5, <1>6 DEF Fifo!Accept

(* Reading the front slot hands over the oldest accepted update.           *)
LEMMA FetchUpdateHandsOver ==
  ASSUME QueueInv, FetchUpdate
  PROVE  Fifo!HandOver
<1> USE CallersAssumption, CapacityAssumption
<1> USE DEF QueueInv, TypeOK, Threads, Goto, FetchUpdate
<1>1. /\ Accepted = count /\ Accepted' = count - 1
      /\ FirstSlot = front /\ FirstSlot' = front + 1
  BY DEF Accepted, FirstSlot, Fetched
<1>2. /\ Pending = [i \in 1 .. count |-> updates[Slot(front + i - 1)]]
      /\ Pending' = [i \in 1 .. count - 1 |-> updates[Slot(front + 1 + i - 1)]]
  BY <1>1 DEF Pending
<1>3. count \in Nat \ {0} /\ Len(Pending) = count /\ Pending # <<>>
  <2>1. count \in Nat \ {0}
    OBVIOUS
  <2>2. Len(Pending) = count
    BY <1>2, <2>1
  <2>3. Len(<<>>) = 0
    BY EmptySeq, Zenon
  <2>4. QED BY <2>1, <2>2, <2>3
<1>4. update_index' = Head(Pending)
  <2>1. Head(Pending) = updates[Slot(front + 1 - 1)]
    BY <1>2, <1>3
  <2>2. Slot(front + 1 - 1) = front
    BY SlotReduces
  <2>3. QED BY <2>1, <2>2
<1>5. Pending' = Tail(Pending)
  <2>1. Tail(Pending) = [i \in 1 .. count - 1 |-> Pending[i + 1]]
    BY <1>2, <1>3
  <2>2. \A i \in 1 .. count - 1 : Pending[i + 1] = updates[Slot(front + 1 + i - 1)]
    BY <1>2
  <2>3. QED BY <1>2, <2>1, <2>2
<1>6. QED
  BY <1>3, <1>4, <1>5 DEF Fifo!HandOver

(* The update stored in a free slot is not yet part of the queue.          *)
LEMMA StoreUpdateStutters ==
  ASSUME QueueInv, NEW p \in Callers, StoreUpdate(p)
  PROVE  UNCHANGED <<Pending, update_index>>
<1> USE CallersAssumption, CapacityAssumption
<1> USE DEF QueueInv, TypeOK, LockDiscipline, Threads, Inside, Goto, StoreUpdate, Used
<1>1. rear = Slot(front + count) /\ count < MaxQueuedUpdates
  OBVIOUS
<1>2. /\ Accepted = count /\ Accepted' = count
      /\ FirstSlot = front /\ FirstSlot' = front
  BY DEF Accepted, FirstSlot, Fetched
<1>3. ASSUME NEW i \in 1 .. count
      PROVE  updates'[Slot(front + i - 1)] = updates[Slot(front + i - 1)]
  <2>0. /\ front \in 0 .. MaxQueuedUpdates - 1 /\ count \in 0 .. MaxQueuedUpdates - 1
        /\ i - 1 \in 0 .. MaxQueuedUpdates - 1 /\ i - 1 < count
    BY <1>1, <1>3
  <2>1. Slot(front + (i - 1)) # Slot(front + count)
    BY <2>0, SlotsDistinct
  <2>2. /\ front + (i - 1) = front + i - 1
        /\ front + i - 1 \in Nat /\ front + i - 1 < 2 * MaxQueuedUpdates
    BY <2>0
  <2>3. Slot(front + i - 1) # rear
    BY <1>1, <2>1, <2>2
  <2>4. Slot(front + i - 1) \in 0 .. MaxQueuedUpdates - 1
    BY <2>2, SlotStep
  <2>5. QED BY <2>3, <2>4
<1>4. QED
  BY <1>2, <1>3 DEF Pending

(* Moving front past the slot that was read leaves the same updates.       *)
LEMMA AdvanceFrontStutters ==
  ASSUME QueueInv, AdvanceFront
  PROVE  UNCHANGED <<Pending, update_index>>
<1> USE CallersAssumption, CapacityAssumption
<1> USE DEF QueueInv, TypeOK, Threads, Goto, AdvanceFront
<1>1. /\ Accepted = count - 1 /\ Accepted' = count - 1
      /\ FirstSlot = front + 1 /\ FirstSlot' = Slot(front + 1)
  BY DEF Accepted, FirstSlot, Fetched
<1>2. ASSUME NEW i \in 1 .. count - 1
      PROVE  Slot(Slot(front + 1) + i - 1) = Slot(front + 1 + i - 1)
  <2>1. Slot(Slot(front + 1) + (i - 1)) = Slot(front + (i - 1) + 1)
    BY SlotSkip
  <2>0. front \in 0 .. MaxQueuedUpdates - 1 /\ front + 1 < 2 * MaxQueuedUpdates
    OBVIOUS
  <2>2. /\ Slot(front + 1) \in Nat
        /\ front + (i - 1) + 1 = front + 1 + i - 1
    <3>1. Slot(front + 1) \in 0 .. MaxQueuedUpdates - 1
      BY <2>0, SlotStep
    <3>2. front + (i - 1) + 1 = front + 1 + i - 1
      BY <2>0
    <3>3. QED BY <3>1, <3>2
  <2>3. Slot(front + 1) + (i - 1) = Slot(front + 1) + i - 1
    BY <2>2
  <2>4. QED BY <2>1, <2>2, <2>3
<1>3. QED
  BY <1>1, <1>2 DEF Pending

(* Every step of the queue is a step of the FIFO or leaves it as it was.   *)
LEMMA NextImplementsFifoNext ==
  ASSUME QueueInv, [Next]_vars
  PROVE  [Fifo!FifoNext]_(Fifo!fifoVars)
<1> USE CallersAssumption, CapacityAssumption
<1>1. ASSUME NEW p \in Callers, IncrementCount(p) PROVE Fifo!FifoNext
  BY <1>1, IncrementCountAccepts DEF Fifo!FifoNext
<1>2. CASE FetchUpdate
  BY <1>2, FetchUpdateHandsOver DEF Fifo!FifoNext
<1>3. ASSUME NEW p \in Callers, StoreUpdate(p) PROVE UNCHANGED Fifo!fifoVars
  BY <1>3, StoreUpdateStutters DEF Fifo!fifoVars
<1>4. CASE AdvanceFront
  BY <1>4, AdvanceFrontStutters DEF Fifo!fifoVars
<1>5. CASE DecrementCount
  <2>1. /\ Accepted = count - 1 /\ Accepted' = count - 1
        /\ FirstSlot = front /\ FirstSlot' = front
    BY <1>5 DEF DecrementCount, Goto, QueueInv, TypeOK, Threads, Accepted, FirstSlot, Fetched
  <2>2. QED
    BY <1>5, <2>1 DEF DecrementCount, Pending, Fifo!fifoVars
<1>6. ASSUME UNCHANGED <<updates, front, count, update_index>>,
             Fetched' = Fetched,
             (pc[UpdateThread] = "front")' = (pc[UpdateThread] = "front")
      PROVE  UNCHANGED Fifo!fifoVars
  <2>1. Accepted' = Accepted /\ FirstSlot' = FirstSlot
    BY <1>6 DEF Accepted, FirstSlot
  <2>2. QED BY <1>6, <2>1 DEF Pending, Fifo!fifoVars
<1> HIDE DEF Fetched
<1>7. ASSUME NEW t \in Threads, Acquire(t) \/ WakeSpuriously(t)
      PROVE  UNCHANGED Fifo!fifoVars
  BY <1>6, <1>7 DEF Acquire, WakeSpuriously, Goto, QueueInv, TypeOK, Threads, Fetched
<1>8. ASSUME NEW p \in Callers,
             \/ WaitNotFull(p) \/ AdvanceRear(p) \/ SignalNotEmpty(p) \/ ReleaseQueue(p)
             \/ Cancel(p) \/ Die(p) \/ Recreate(p)
             \/ \E request \in Requests : UpdateWindows(p, request)
      PROVE  UNCHANGED Fifo!fifoVars
  <2>1. UNCHANGED <<updates, front, count, update_index>> /\ UNCHANGED pc[UpdateThread]
    BY <1>8 DEF WaitNotFull, AdvanceRear, SignalNotEmpty, ReleaseQueue, Cancel, Die, Recreate,
                UpdateWindows, Goto, QueueInv, TypeOK, Threads
  <2>2. QED BY <1>6, <2>1 DEF Fetched
<1>9. CASE \/ StartUpdateThread \/ WaitNotEmpty \/ SignalNotFull \/ UnlockAndUpdate
           \/ FinishUpdate \/ FailUpdate \/ UNCHANGED vars
  BY <1>6, <1>9 DEF StartUpdateThread, WaitNotEmpty, SignalNotFull, UnlockAndUpdate,
     FinishUpdate, FailUpdate, vars, Goto, QueueInv, TypeOK, Threads, Fetched
<1>10. QED
  BY <1>1, <1>2, <1>3, <1>4, <1>5, <1>7, <1>8, <1>9
     DEF Next, DequeueStep, EnqueueStep, Threads

(* The locked ring is a bounded FIFO: nothing is lost, duplicated or       *)
(* reordered, for every capacity and every number of callers.              *)
THEOREM QueueImplementsFifo == Spec => ImplementsFifo
<1>1. Init => Fifo!FifoInit
  <2> SUFFICES ASSUME Init PROVE Fifo!FifoInit
    OBVIOUS
  <2>1. Accepted = 0
    BY CallersAssumption DEF Init, Accepted, Fetched, Threads
  <2>2. Pending = <<>>
    BY <2>1 DEF Pending
  <2>3. QED BY <2>2 DEF Init, Fifo!FifoInit
<1>2. QED
  BY <1>1, QueueInvariant, NextImplementsFifoNext, PTL DEF Spec, ImplementsFifo, Fifo!FifoSpec
=============================================================================
