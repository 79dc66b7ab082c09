----------------------------- MODULE UpdateFifo -----------------------------
(***************************************************************************)
(* What update_window() promises its callers, with no lock, ring or thread *)
(* in sight: window updates are accepted up to a bound and handed to the   *)
(* update thread one at a time, in the order in which they were accepted,  *)
(* none lost, none twice.  UpdateQueue is shown to implement it.           *)
(***************************************************************************)
EXTENDS Naturals, Sequences

CONSTANTS Updates,            \* plugin indices of the windows that can be updated
          NoUpdate,           \* the update thread has not been handed one yet
          MaxQueuedUpdates    \* capacity

VARIABLES fifo,               \* accepted and not yet handed over
          current             \* the last update handed to the update thread

fifoVars == <<fifo, current>>

FifoInit == fifo = <<>> /\ current = NoUpdate

Accept(u) ==
  /\ Len(fifo) < MaxQueuedUpdates
  /\ fifo' = Append(fifo, u)
  /\ UNCHANGED current

HandOver ==
  /\ fifo # <<>>
  /\ current' = Head(fifo)
  /\ fifo' = Tail(fifo)

FifoNext == HandOver \/ \E u \in Updates : Accept(u)

FifoSpec == FifoInit /\ [][FifoNext]_fifoVars
=============================================================================
