----------------------------- MODULE FifoQueue -----------------------------
(***************************************************************************)
(* What paw.concur.thread.Queue promises: a bounded first-in-first-out     *)
(* queue that can be closed, after which it only empties, or closed at     *)
(* once, which drops what it holds.  BlockingQueue shows that the native   *)
(* code implements it.                                                     *)
(***************************************************************************)
EXTENDS Naturals, Sequences

CONSTANTS MaxSize, MaxPuts

VARIABLES
  items,    \* the queue, as the numbers of the puts
  closed,   \* no put is accepted any more
  dropped,  \* the queue has been emptied by force
  accepted,  \* how many puts have been accepted
  delivered  \* the items that gets have returned, in order

queueVars == <<items, closed, dropped, accepted, delivered>>

QueueInit ==
  /\ items = <<>>
  /\ closed = FALSE
  /\ dropped = FALSE
  /\ accepted = 0
  /\ delivered = <<>>

HasRoom == MaxSize = 0 \/ Len(items) < MaxSize

Enqueue ==
  /\ ~closed /\ HasRoom
  /\ items' = Append(items, accepted + 1)
  /\ accepted' = accepted + 1
  /\ UNCHANGED <<closed, dropped, delivered>>

Dequeue ==
  /\ ~dropped /\ items # <<>>
  /\ items' = Tail(items)
  /\ delivered' = Append(delivered, Head(items))
  /\ UNCHANGED <<closed, dropped, accepted>>

Close ==
  /\ closed' = TRUE
  /\ UNCHANGED <<items, dropped, accepted, delivered>>

Drop ==
  /\ closed' = TRUE
  /\ dropped' = TRUE
  /\ items' = <<>>
  /\ UNCHANGED <<accepted, delivered>>

QueueNext == Enqueue \/ Dequeue \/ Close \/ Drop

QueueSpec == QueueInit /\ [][QueueNext]_queueVars

-----------------------------------------------------------------------------
Upto(n) == [i \in 1 .. n |-> i]

(* What gets have returned followed by what the queue holds is what puts     *)
(* have added, in that order, nothing lost and nothing twice; an immediate   *)
(* shutdown empties the queue and leaves a prefix.                           *)
FifoExactlyOnce ==
  IF dropped
    THEN /\ items = <<>>
         /\ Len(delivered) <= accepted
         /\ delivered = Upto(Len(delivered))
    ELSE delivered \o items = Upto(accepted)
=============================================================================
