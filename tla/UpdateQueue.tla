----------------------------- MODULE UpdateQueue -----------------------------
(***************************************************************************)
(* src/src/update_window_data/_update_window_data.c: the circular queue    *)
(* of window updates between the threads that call update_window() and     *)
(* update_windows() (main during start_program(), send_key while a plugin  *)
(* runs) and the one update thread.  One action per step a thread can be   *)
(* preempted after: every statement of enqueue_update() and                *)
(* dequeue_update() is separate, the mutex and the two condition variables *)
(* are explicit, condition variables wake spuriously as POSIX allows, and  *)
(* a caller may be cancelled asynchronously between any two of its steps   *)
(* (send_key runs with PTHREAD_CANCEL_ASYNCHRONOUS).                       *)
(***************************************************************************)
EXTENDS Naturals, Sequences, FiniteSets

CONSTANTS Callers,            \* threads that call update_window(s)
          Cancellable,        \* the callers get_key() may pthread_cancel()
          UpdateThread,
          Updates,            \* plugin indices of the windows that can be updated
          Requests,           \* argument lists of the update_windows() calls
          NoUpdate, Unlocked, Abandoned,
          MaxQueuedUpdates    \* MAX_QUEUED_UPDATES (48 in the code)

Threads == Callers \cup {UpdateThread}

ASSUME CallersAssumption ==
  /\ Cancellable \subseteq Callers
  /\ UpdateThread \notin Callers
  /\ Unlocked \notin Threads /\ Abandoned \notin Threads /\ Unlocked # Abandoned
ASSUME RequestsAssumption == Requests \subseteq Seq(Updates) \ {<<>>}
ASSUME CapacityAssumption == MaxQueuedUpdates \in Nat \ {0}
ASSUME NoUpdateAssumption == NoUpdate \notin Updates

VARIABLES updates, front, rear, count,    \* update_queue_t
          lock,                           \* its mutex: the holder, Unlocked or Abandoned
          not_empty, not_full,            \* its condition variables: who sleeps on them
          pc,                             \* the step each thread is at
          args,                           \* what each caller has still to enqueue
          update_index                    \* the update thread's local

ring == <<updates, front, rear, count>>
conds == <<not_empty, not_full>>
vars == <<updates, front, rear, count, lock, not_empty, not_full, pc, args, update_index>>

CallerSteps == {"idle", "lock", "check", "wait", "rear", "count", "signal", "unlock",
                "dying", "dead", "exited"}
UpdateThreadSteps == {"unborn", "lock", "check", "wait", "front", "count", "signal",
                      "unlock", "busy", "exited"}

(* The steps between pthread_mutex_lock() and pthread_mutex_unlock().      *)
Inside == {"check", "rear", "front", "count", "signal", "unlock"}

Slot(i) == i % MaxQueuedUpdates

Goto(t, step) == pc' = [pc EXCEPT ![t] = step]

(* Static storage: the queue is all zeroes before any thread runs.         *)
Init ==
  /\ updates = [i \in 0 .. MaxQueuedUpdates - 1 |-> NoUpdate]
  /\ front = 0 /\ rear = 0 /\ count = 0
  /\ lock = Unlocked
  /\ not_empty = {} /\ not_full = {}
  /\ pc = [t \in Threads |-> IF t = UpdateThread THEN "unborn" ELSE "idle"]
  /\ args = [p \in Callers |-> <<>>]
  /\ update_index = NoUpdate

-----------------------------------------------------------------------------
(* Both sides: the mutex and the condition variables.                      *)

Acquire_NoMutex(t) ==
  /\ pc[t] \in {"lock", "wait"} /\ t \notin not_empty \cup not_full
  /\ lock' = t
  /\ Goto(t, "check")
  /\ UNCHANGED <<updates, front, rear, count, not_empty, not_full, args, update_index>>

(* pthread_mutex_lock(), and the second half of pthread_cond_wait(): a     *)
(* thread that has been woken takes the mutex again and loops to the check.*)
Acquire(t) ==
  /\ pc[t] \in {"lock", "wait"} /\ t \notin not_empty \cup not_full
  /\ lock = Unlocked
  /\ lock' = t
  /\ Goto(t, "check")
  /\ UNCHANGED <<updates, front, rear, count, not_empty, not_full, args, update_index>>

(* POSIX lets pthread_cond_wait() return with no signal.                   *)
WakeSpuriously(t) ==
  /\ t \in not_empty \cup not_full
  /\ not_empty' = not_empty \ {t}
  /\ not_full' = not_full \ {t}
  /\ UNCHANGED <<updates, front, rear, count, lock, pc, args, update_index>>

-----------------------------------------------------------------------------
(* enqueue_update(), called once for each argument of update_windows().    *)

(* The callers take turns: main() calls only in start_program(), before it *)
(* creates send_key or after it has joined it.                             *)
UpdateWindows(p, request) ==
  /\ pc[p] = "idle"
  /\ \A other \in Callers \ {p} : pc[other] \in {"idle", "dead"}
  /\ args' = [args EXCEPT ![p] = request]
  /\ Goto(p, "lock")
  /\ UNCHANGED <<updates, front, rear, count, lock, not_empty, not_full, update_index>>

WaitNotFull(p) ==
  /\ pc[p] = "check" /\ count = MaxQueuedUpdates
  /\ not_full' = not_full \cup {p}
  /\ lock' = Unlocked
  /\ Goto(p, "wait")
  /\ UNCHANGED <<updates, front, rear, count, not_empty, args, update_index>>

StoreUpdate_IfForWhile(p) ==
  /\ pc[p] = "check"
  /\ updates' = [updates EXCEPT ![rear] = Head(args[p])]
  /\ Goto(p, "rear")
  /\ UNCHANGED <<front, rear, count, lock, not_empty, not_full, args, update_index>>

StoreUpdate(p) ==
  /\ pc[p] = "check" /\ count # MaxQueuedUpdates
  /\ updates' = [updates EXCEPT ![rear] = Head(args[p])]
  /\ Goto(p, "rear")
  /\ UNCHANGED <<front, rear, count, lock, not_empty, not_full, args, update_index>>

AdvanceRear_NoWrap(p) ==
  /\ pc[p] = "rear"
  /\ rear' = rear + 1
  /\ Goto(p, "count")
  /\ UNCHANGED <<updates, front, count, lock, not_empty, not_full, args, update_index>>

AdvanceRear(p) ==
  /\ pc[p] = "rear"
  /\ rear' = Slot(rear + 1)
  /\ Goto(p, "count")
  /\ UNCHANGED <<updates, front, count, lock, not_empty, not_full, args, update_index>>

IncrementCount(p) ==
  /\ pc[p] = "count"
  /\ count' = count + 1
  /\ Goto(p, "signal")
  /\ UNCHANGED <<updates, front, rear, lock, not_empty, not_full, args, update_index>>

SignalNotEmpty_Forgotten(p) ==
  /\ pc[p] = "signal"
  /\ Goto(p, "unlock")
  /\ UNCHANGED <<updates, front, rear, count, lock, not_empty, not_full, args, update_index>>

SignalNotEmpty(p) ==
  /\ pc[p] = "signal"
  /\ \/ not_empty = {} /\ UNCHANGED not_empty
     \/ \E t \in not_empty : not_empty' = not_empty \ {t}
  /\ Goto(p, "unlock")
  /\ UNCHANGED <<updates, front, rear, count, lock, not_full, args, update_index>>

(* pthread_mutex_unlock(), and the next turn of the loop of                *)
(* update_windows(), or its return.                                        *)
ReleaseQueue(p) ==
  /\ pc[p] = "unlock"
  /\ lock' = Unlocked
  /\ args' = [args EXCEPT ![p] = Tail(args[p])]
  /\ Goto(p, IF Len(args[p]) = 1 THEN "idle" ELSE "lock")
  /\ UNCHANGED <<updates, front, rear, count, not_empty, not_full, update_index>>

-----------------------------------------------------------------------------
(* pthread_cancel() of a caller.                                           *)

(* Nothing releases the mutex for a cancelled thread: no cleanup handler   *)
(* is installed.  A thread cancelled inside pthread_cond_wait() takes the  *)
(* mutex again before it dies (Die).                                       *)
Cancel(p) ==
  /\ p \in Cancellable /\ pc[p] \notin {"dying", "dead", "exited"}
  /\ Goto(p, IF pc[p] = "wait" THEN "dying" ELSE "dead")
  /\ lock' = IF lock = p THEN Abandoned ELSE lock
  /\ not_full' = not_full \ {p}
  /\ args' = [args EXCEPT ![p] = <<>>]
  /\ UNCHANGED <<updates, front, rear, count, not_empty, update_index>>

Die(p) ==
  /\ pc[p] = "dying" /\ lock = Unlocked
  /\ lock' = Abandoned
  /\ Goto(p, "dead")
  /\ UNCHANGED <<updates, front, rear, count, not_empty, not_full, args, update_index>>

(* The next turn of main()'s loop creates a new send_key thread.           *)
Recreate(p) ==
  /\ pc[p] = "dead"
  /\ Goto(p, "idle")
  /\ UNCHANGED <<updates, front, rear, count, lock, not_empty, not_full, args, update_index>>

-----------------------------------------------------------------------------
(* update_window_thread() and dequeue_update().                            *)

StartUpdateThread_ResetsQueue ==
  /\ pc[UpdateThread] = "unborn"
  /\ front' = 0 /\ rear' = 0 /\ count' = 0
  /\ Goto(UpdateThread, "lock")
  /\ UNCHANGED <<updates, lock, not_empty, not_full, args, update_index>>

(* init_update_queue() initialises a copy of the queue on its own stack:   *)
(* the updates that start_program() queued before the thread existed stay. *)
StartUpdateThread ==
  /\ pc[UpdateThread] = "unborn"
  /\ Goto(UpdateThread, "lock")
  /\ UNCHANGED <<updates, front, rear, count, lock, not_empty, not_full, args, update_index>>

WaitNotEmpty ==
  /\ pc[UpdateThread] = "check" /\ count = 0
  /\ not_empty' = not_empty \cup {UpdateThread}
  /\ lock' = Unlocked
  /\ Goto(UpdateThread, "wait")
  /\ UNCHANGED <<updates, front, rear, count, not_full, args, update_index>>

FetchUpdate ==
  /\ pc[UpdateThread] = "check" /\ count # 0
  /\ update_index' = updates[front]
  /\ Goto(UpdateThread, "front")
  /\ UNCHANGED <<updates, front, rear, count, lock, not_empty, not_full, args>>

AdvanceFront ==
  /\ pc[UpdateThread] = "front"
  /\ front' = Slot(front + 1)
  /\ Goto(UpdateThread, "count")
  /\ UNCHANGED <<updates, rear, count, lock, not_empty, not_full, args, update_index>>

DecrementCount ==
  /\ pc[UpdateThread] = "count"
  /\ count' = count - 1
  /\ Goto(UpdateThread, "signal")
  /\ UNCHANGED <<updates, front, rear, lock, not_empty, not_full, args, update_index>>

SignalNotFull_Forgotten ==
  /\ pc[UpdateThread] = "signal"
  /\ Goto(UpdateThread, "unlock")
  /\ UNCHANGED <<updates, front, rear, count, lock, not_empty, not_full, args, update_index>>

SignalNotFull ==
  /\ pc[UpdateThread] = "signal"
  /\ \/ not_full = {} /\ UNCHANGED not_full
     \/ \E t \in not_full : not_full' = not_full \ {t}
  /\ Goto(UpdateThread, "unlock")
  /\ UNCHANGED <<updates, front, rear, count, lock, not_empty, args, update_index>>

UnlockAndUpdate ==
  /\ pc[UpdateThread] = "unlock"
  /\ lock' = Unlocked
  /\ Goto(UpdateThread, "busy")
  /\ UNCHANGED <<updates, front, rear, count, not_empty, not_full, args, update_index>>

(* get_<window>_data() and display_lines() succeed.                        *)
FinishUpdate ==
  /\ pc[UpdateThread] = "busy"
  /\ Goto(UpdateThread, "lock")
  /\ UNCHANGED <<updates, front, rear, count, lock, not_empty, not_full, args, update_index>>

(* upd_win_err: peme() cleans up and exits the process with all threads.   *)
FailUpdate ==
  /\ pc[UpdateThread] = "busy"
  /\ pc' = [t \in Threads |-> "exited"]
  /\ not_empty' = {} /\ not_full' = {}
  /\ UNCHANGED <<updates, front, rear, count, lock, args, update_index>>

-----------------------------------------------------------------------------
EnqueueStep(p) ==
  \/ Acquire(p) \/ WaitNotFull(p) \/ StoreUpdate(p) \/ AdvanceRear(p)
  \/ IncrementCount(p) \/ SignalNotEmpty(p) \/ ReleaseQueue(p)

DequeueStep ==
  \/ StartUpdateThread \/ Acquire(UpdateThread) \/ WaitNotEmpty \/ FetchUpdate
  \/ AdvanceFront \/ DecrementCount \/ SignalNotFull \/ UnlockAndUpdate
  \/ FinishUpdate \/ FailUpdate

Next ==
  \/ DequeueStep
  \/ \E t \in Threads : WakeSpuriously(t)
  \/ \E p \in Callers :
       \/ EnqueueStep(p) \/ Cancel(p) \/ Die(p) \/ Recreate(p)
       \/ \E request \in Requests : UpdateWindows(p, request)

Spec == Init /\ [][Next]_vars

(* A thread that can run does run, and a thread that finds the mutex free  *)
(* again and again gets it: between two updates the update thread waits    *)
(* for the debugger with the mutex free.  No caller is obliged to call,    *)
(* nobody to cancel, no condition variable to wake without a signal.       *)
Fairness ==
  /\ WF_vars(DequeueStep) /\ SF_vars(Acquire(UpdateThread))
  /\ \A p \in Callers : WF_vars(EnqueueStep(p)) /\ SF_vars(Acquire(p))

FairSpec == Spec /\ Fairness

-----------------------------------------------------------------------------
TypeOK ==
  /\ updates \in [0 .. MaxQueuedUpdates - 1 -> Updates \cup {NoUpdate}]
  /\ front \in 0 .. MaxQueuedUpdates - 1
  /\ rear \in 0 .. MaxQueuedUpdates - 1
  /\ count \in 0 .. MaxQueuedUpdates
  /\ lock \in Threads \cup {Unlocked, Abandoned}
  /\ not_empty \subseteq {UpdateThread} /\ not_full \subseteq Callers
  /\ pc \in [Threads -> CallerSteps \cup UpdateThreadSteps]
  /\ \A p \in Callers : pc[p] \in CallerSteps
  /\ pc[UpdateThread] \in UpdateThreadSteps
  /\ args \in [Callers -> Seq(Updates)]
  /\ update_index \in Updates \cup {NoUpdate}

(* At most one thread is between lock and unlock, and it is the one the    *)
(* mutex names; a mutex left behind by a cancelled thread admits nobody.   *)
LockDiscipline ==
  \A t \in Threads : pc[t] \in Inside => lock = t

(* Whenever the mutex is free the ring is whole: the occupied slots are    *)
(* the count slots from front up to rear.                                  *)
RingWhole ==
  lock = Unlocked => rear = Slot(front + count)

(* No lost wake-up: while the mutex is free the update thread sleeps only  *)
(* if there is nothing to do, and a caller only if there is no room.       *)
NoLostWakeUp ==
  lock = Unlocked =>
    /\ not_empty # {} => count = 0
    /\ not_full # {} => count = MaxQueuedUpdates

(* update_window() returns to every caller that is not cancelled, however  *)
(* full the queue is, unless an update fails and the process exits or a    *)
(* cancelled caller has taken the mutex with it.                           *)
EveryCallReturns ==
  \A p \in Callers :
    pc[p] = "lock" ~> pc[p] \in {"idle", "dying", "dead", "exited"} \/ lock = Abandoned

(* main.c:286: a program that hangs can be restarted, so the calls of the  *)
(* next session return whatever was cancelled before.                      *)
RestartedCallsReturn ==
  \A p \in Callers : pc[p] = "lock" ~> pc[p] \in {"idle", "dying", "dead", "exited"}

(* The refinement.  An update is accepted when count is incremented and    *)
(* handed over when the update thread reads its slot; until front and      *)
(* count follow, the slot is no longer part of the abstract queue.         *)
Fetched == pc[UpdateThread] \in {"front", "count"}
FirstSlot == IF pc[UpdateThread] = "front" THEN front + 1 ELSE front
Accepted == IF Fetched THEN count - 1 ELSE count
Pending == [i \in 1 .. Accepted |-> updates[Slot(FirstSlot + i - 1)]]

Fifo == INSTANCE UpdateFifo WITH fifo <- Pending, current <- update_index

(* The ring under its lock is a bounded first-in first-out queue, across   *)
(* spurious wake-ups, cancellation and the late start of the update thread.*)
ImplementsFifo == Fifo!FifoSpec
=============================================================================
