------------------------ MODULE BlockingQueue_proofs ------------------------
(***************************************************************************)
(* Proofs about BlockingQueue for any set of threads, bound and number of  *)
(* puts: it implements the abstract queue, delivers every item once and in *)
(* order, loses no wake-up, and lets go of everybody when it is closed.    *)
(***************************************************************************)
EXTENDS BlockingQueue, FiniteSetTheorems, TLAPS

(* What most of the proofs need of the types.  The count of unfinished tasks *)
(* is only a number here.  A thread notifies for a shutdown on a closed      *)
(* queue, and an immediate shutdown leaves no items.                         *)
DataTyped ==
  /\ items \in Seq(Nat)
  /\ unfinished \in Nat
  /\ closed \in BOOLEAN /\ immediate \in BOOLEAN
  /\ immediate => closed /\ items = <<>>
  /\ accepted \in Nat
  /\ delivered \in Seq(Nat)

PlacesTyped ==
  /\ pc \in [Threads -> Locations]
  /\ \A t \in Threads : pc[t] \in Closings => closed

Typed == DataTyped /\ PlacesTyped

LEMMA InitTyped == Init => Typed
<1> SUFFICES ASSUME Init PROVE Typed
  OBVIOUS
<1>1. items \in Seq(Nat) /\ delivered \in Seq(Nat)
  BY DEF Init
<1>2. UNION {{unfinished}, {accepted}} \subseteq Nat
  BY DEF Init
<1>3. DataTyped
  BY <1>1, <1>2 DEF Init, DataTyped
<1>4. PlacesTyped
  BY DEF Init, PlacesTyped, Locations, Closings
<1> QED
  BY <1>3, <1>4 DEF Typed

LEMMA NextDataTyped == Typed /\ [Next]_vars => DataTyped'
<1> SUFFICES ASSUME Typed, [Next]_vars PROVE DataTyped'
  OBVIOUS
<1> USE DEF Typed, DataTyped, state, history
<1>1. CASE UNCHANGED vars
  BY <1>1 DEF vars
<1>2. ASSUME NEW t \in Threads, Put(t) PROVE DataTyped'
  BY <1>2 DEF Put
<1>3. ASSUME NEW t \in Threads, Get(t) PROVE DataTyped'
  BY <1>3 DEF Get, Empty
<1>4. ASSUME NEW t \in Threads, TaskDone(t) PROVE DataTyped'
  BY <1>4 DEF TaskDone
<1>5. ASSUME NEW t \in Threads, Shutdown(t) PROVE DataTyped'
  BY <1>5 DEF Shutdown
<1>6. ASSUME NEW t \in Threads, ShutdownNow(t) PROVE DataTyped'
  BY <1>6 DEF ShutdownNow
<1>7. ASSUME NEW t \in Threads, CallPut(t) \/ CallGet(t) \/ CallJoin(t) PROVE DataTyped'
  BY <1>7 DEF CallPut, CallGet, CallJoin
<1>8. ASSUME NEW t \in Threads,
             \/ PutFails(t) \/ PutWaits(t) \/ GetFails(t) \/ GetWaits(t)
             \/ Join(t) \/ JoinWaits(t)
      PROVE  DataTyped'
  BY <1>8 DEF PutFails, PutWaits, GetFails, GetWaits, Join, JoinWaits
<1>9. ASSUME NEW t \in Threads,
             NotifyOne(t) \/ NotifyAll(t) \/ Expire(t) \/ SpuriousWake(t)
      PROVE  DataTyped'
  BY <1>9 DEF NotifyOne, NotifyAll, Expire, SpuriousWake
<1> QED
  BY <1>1, <1>2, <1>3, <1>4, <1>5, <1>6, <1>7, <1>8, <1>9 DEF Next

LEMMA NextPlacesTyped == Typed /\ [Next]_vars => PlacesTyped'
<1> SUFFICES ASSUME Typed, [Next]_vars PROVE PlacesTyped'
  OBVIOUS
<1> USE DEF Typed, PlacesTyped, Locations, Calls, Waits, Notes, Closings, state, history,
        Goto, Finish, CallOf
<1>1. CASE UNCHANGED vars
  BY <1>1 DEF vars
<1>2. ASSUME NEW t \in Threads, CallPut(t) \/ CallGet(t) \/ CallJoin(t) PROVE PlacesTyped'
  BY <1>2 DEF CallPut, CallGet, CallJoin
<1>3. ASSUME NEW t \in Threads, Put(t) \/ PutFails(t) \/ PutWaits(t) PROVE PlacesTyped'
  BY <1>3 DEF Put, PutFails, PutWaits
<1>4. ASSUME NEW t \in Threads, Get(t) \/ GetFails(t) \/ GetWaits(t) PROVE PlacesTyped'
  BY <1>4 DEF Get, GetFails, GetWaits
<1>5. ASSUME NEW t \in Threads, Join(t) \/ JoinWaits(t) PROVE PlacesTyped'
  BY <1>5 DEF Join, JoinWaits
<1>6. ASSUME NEW t \in Threads, TaskDone(t) PROVE PlacesTyped'
  BY <1>6 DEF TaskDone, WakeJoiners, At
<1>7. ASSUME NEW t \in Threads, Shutdown(t) \/ ShutdownNow(t) PROVE PlacesTyped'
  BY <1>7 DEF Shutdown, ShutdownNow
<1>8. ASSUME NEW t \in Threads, NotifyOne(t) PROVE PlacesTyped'
  BY <1>8 DEF NotifyOne, WaitOf, At
<1>9. ASSUME NEW t \in Threads, NotifyAll(t) PROVE PlacesTyped'
  BY <1>9 DEF NotifyAll, WaitOf, AfterClose, At
<1>10. ASSUME NEW t \in Threads, Expire(t) \/ SpuriousWake(t) PROVE PlacesTyped'
  BY <1>10 DEF Expire, SpuriousWake
<1> QED
  BY <1>1, <1>2, <1>3, <1>4, <1>5, <1>6, <1>7, <1>8, <1>9, <1>10 DEF Next

LEMMA QueueTyped == Spec => []Typed
<1>1. Typed /\ [Next]_vars => Typed'
  BY NextDataTyped, NextPlacesTyped DEF Typed
<1> QED
  BY <1>1, InitTyped, PTL DEF Spec

-----------------------------------------------------------------------------
(* What a step does to the abstract queue. *)
LEMMA StepMaps == ASSUME Typed, [Next]_vars
                  PROVE  [Abstract!QueueNext]_(Abstract!queueVars)
<1> USE QueueAssumption DEF Typed, DataTyped, state, history, Abstract!queueVars
<1>1. CASE UNCHANGED vars
  BY <1>1 DEF vars
<1>2. ASSUME NEW t \in Threads, Put(t) PROVE Abstract!Enqueue
  BY <1>2 DEF Put, Full, Abstract!Enqueue, Abstract!HasRoom
<1>3. ASSUME NEW t \in Threads, Get(t) PROVE Abstract!Dequeue
  BY <1>3 DEF Get, Empty, Abstract!Dequeue
<1>4. ASSUME NEW t \in Threads, Shutdown(t) PROVE Abstract!Close
  BY <1>4 DEF Shutdown, Abstract!Close
<1>5. ASSUME NEW t \in Threads, ShutdownNow(t) PROVE Abstract!Drop
  BY <1>5 DEF ShutdownNow, Abstract!Drop
<1>6. ASSUME NEW t \in Threads,
             \/ CallPut(t) \/ CallGet(t) \/ CallJoin(t)
             \/ PutFails(t) \/ PutWaits(t) \/ GetFails(t) \/ GetWaits(t)
             \/ Join(t) \/ JoinWaits(t) \/ TaskDone(t)
             \/ NotifyOne(t) \/ NotifyAll(t) \/ Expire(t) \/ SpuriousWake(t)
      PROVE UNCHANGED Abstract!queueVars
  BY <1>6 DEF CallPut, CallGet, CallJoin, PutFails, PutWaits, GetFails, GetWaits,
    Join, JoinWaits, TaskDone, NotifyOne, NotifyAll, Expire, SpuriousWake
<1> QED
  BY <1>1, <1>2, <1>3, <1>4, <1>5, <1>6 DEF Next, Abstract!QueueNext

(* put, get and shutdown, with the notifications outside the mutex, do what  *)
(* the abstract queue does in one step each.                                 *)
THEOREM QueueImplementsFifoQueue == Spec => ImplementsFifoQueue
<1>1. Init => Abstract!QueueInit
  BY DEF Init, Abstract!QueueInit
<1> QED
  BY <1>1, StepMaps, QueueTyped, PTL DEF Spec, ImplementsFifoQueue, Abstract!QueueSpec

(* FifoExactlyOnce entry by entry, which is easier to follow through a step: *)
(* the items that gets have returned, and behind them those in the queue,    *)
(* count the puts.                                                           *)
InOrder ==
  /\ \A i \in 1 .. Len(delivered) : delivered[i] = i
  /\ \A i \in 1 .. Len(items) : items[i] = Len(delivered) + i
  /\ IF immediate THEN Len(delivered) <= accepted
                  ELSE Len(delivered) + Len(items) = accepted

LEMMA InOrderStep ==
  Typed /\ InOrder /\ [Abstract!QueueNext]_(Abstract!queueVars) => InOrder'
<1> SUFFICES ASSUME Typed, InOrder, [Abstract!QueueNext]_(Abstract!queueVars)
             PROVE  InOrder'
  OBVIOUS
<1> USE DEF Typed, DataTyped, InOrder
<1>1. CASE UNCHANGED Abstract!queueVars
  BY <1>1 DEF Abstract!queueVars
<1>2. CASE Abstract!Enqueue
  <2>1. /\ Len(items') = Len(items) + 1
        /\ \A i \in 1 .. Len(items) : items'[i] = items[i]
        /\ items'[Len(items) + 1] = accepted + 1
    BY <1>2 DEF Abstract!Enqueue
  <2>2. ~immediate /\ UNCHANGED <<immediate, delivered>> /\ accepted' = accepted + 1
    BY <1>2 DEF Abstract!Enqueue
  <2>3. \A i \in 1 .. Len(items') : items'[i] = Len(delivered) + i
    BY <2>1, <2>2
  <2> QED
    BY <2>1, <2>2, <2>3
<1>3. CASE Abstract!Dequeue
  <2>1. /\ Len(delivered') = Len(delivered) + 1
        /\ Len(items') = Len(items) - 1
        /\ \A i \in 1 .. Len(items') : items'[i] = items[i + 1]
        /\ \A i \in 1 .. Len(delivered) : delivered'[i] = delivered[i]
        /\ delivered'[Len(delivered) + 1] = items[1]
    BY <1>3 DEF Abstract!Dequeue
  <2>2. ~immediate /\ UNCHANGED <<immediate, accepted>> /\ Len(items) > 0
    BY <1>3 DEF Abstract!Dequeue
  <2>3. \A i \in 1 .. Len(items') : items'[i] = Len(delivered') + i
    BY <2>1, <2>2
  <2>4. \A i \in 1 .. Len(delivered') : delivered'[i] = i
    <3>1. items[1] = Len(delivered) + 1
      BY <2>2
    <3>2. \A i \in 1 .. Len(delivered') : i \in 1 .. Len(delivered) \/ i = Len(delivered) + 1
      BY <2>1
    <3> QED
      BY <2>1, <3>1, <3>2
  <2> QED
    BY <2>1, <2>2, <2>3, <2>4
<1>4. CASE Abstract!Close
  BY <1>4 DEF Abstract!Close
<1>5. CASE Abstract!Drop
  BY <1>5 DEF Abstract!Drop
<1> QED
  BY <1>1, <1>2, <1>3, <1>4, <1>5 DEF Abstract!QueueNext

LEMMA InOrderIsFifo == Typed /\ InOrder => FifoExactlyOnce
<1> SUFFICES ASSUME Typed, InOrder PROVE FifoExactlyOnce
  OBVIOUS
<1> USE DEF Typed, DataTyped, InOrder
<1>1. CASE immediate
  BY <1>1 DEF FifoExactlyOnce, Abstract!FifoExactlyOnce, Abstract!Upto
<1>2. CASE ~immediate
  <2> DEFINE all == delivered \o items
  <2>1. all \in Seq(Nat) /\ Len(all) = accepted
    BY <1>2
  <2>2. \A i \in 1 .. accepted : all[i] = i
    BY <1>2
  <2>3. all = [i \in 1 .. accepted |-> i]
    <3> HIDE DEF all
    <3> QED
      BY <2>1, <2>2
  <2> QED
    BY <1>2, <2>3 DEF FifoExactlyOnce, Abstract!FifoExactlyOnce, Abstract!Upto
<1> QED
  BY <1>1, <1>2

(* Whatever producers, consumers and shutdowns do at the same time, every    *)
(* item is delivered once and in the order of the puts.                      *)
THEOREM QueueFifoExactlyOnce == Spec => []FifoExactlyOnce
<1>1. Init => InOrder
  BY DEF Init, InOrder
<1> QED
  BY <1>1, StepMaps, InOrderStep, InOrderIsFifo, QueueTyped, PTL DEF Spec

-----------------------------------------------------------------------------
(* shutdown reaches every thread that is parked in put, get or join, in      *)
(* whatever order its notifications and the calls of others come.            *)
THEOREM QueueClosedHoldsNobody == Spec => []ClosedQueueHoldsNobody
<1> USE DEF ClosedQueueHoldsNobody, At
<1>1. Init => ClosedQueueHoldsNobody
  BY DEF Init
<1>2. Typed /\ ClosedQueueHoldsNobody /\ [Next]_vars => ClosedQueueHoldsNobody'
  <2> SUFFICES ASSUME Typed, ClosedQueueHoldsNobody, [Next]_vars
               PROVE  ClosedQueueHoldsNobody'
    OBVIOUS
  <2> USE DEF Typed, DataTyped, PlacesTyped, Locations, Calls, Waits, Notes, Closings,
          state, history, Goto, Finish, CallOf
  <2>1. CASE UNCHANGED vars
    BY <2>1 DEF vars
  <2>2. ASSUME NEW t \in Threads, CallPut(t) \/ CallGet(t) \/ CallJoin(t)
        PROVE  ClosedQueueHoldsNobody'
    BY <2>2 DEF CallPut, CallGet, CallJoin
  <2>3. ASSUME NEW t \in Threads, Put(t) \/ PutFails(t) \/ PutWaits(t)
        PROVE  ClosedQueueHoldsNobody'
    BY <2>3 DEF Put, PutFails, PutWaits
  <2>4. ASSUME NEW t \in Threads, Get(t) \/ GetFails(t) \/ GetWaits(t)
        PROVE  ClosedQueueHoldsNobody'
    BY <2>4 DEF Get, GetFails, GetWaits
  <2>5. ASSUME NEW t \in Threads, Join(t) \/ JoinWaits(t)
        PROVE  ClosedQueueHoldsNobody'
    BY <2>5 DEF Join, JoinWaits
  <2>6. ASSUME NEW t \in Threads, TaskDone(t) PROVE ClosedQueueHoldsNobody'
    BY <2>6 DEF TaskDone, WakeJoiners
  <2>7. ASSUME NEW t \in Threads, Shutdown(t) \/ ShutdownNow(t)
        PROVE  ClosedQueueHoldsNobody'
    BY <2>7 DEF Shutdown, ShutdownNow
  <2>8. ASSUME NEW t \in Threads, NotifyOne(t) PROVE ClosedQueueHoldsNobody'
    <3>1. ASSUME NEW u \in Threads
          PROVE  /\ pc'[u] \in Closings \/ pc[u] \in Closings => pc'[u] = pc[u]
                 /\ pc'[u] \in Waits => pc'[u] = pc[u]
      BY <2>8 DEF NotifyOne, WaitOf
    <3>2. UNCHANGED <<unfinished, closed, immediate>>
      BY <2>8 DEF NotifyOne
    <3> QED
      BY <3>1, <3>2
  <2>9. ASSUME NEW t \in Threads, NotifyAll(t) PROVE ClosedQueueHoldsNobody'
    BY <2>9 DEF NotifyAll, WaitOf, AfterClose
  <2>10. ASSUME NEW t \in Threads, Expire(t) \/ SpuriousWake(t)
        PROVE  ClosedQueueHoldsNobody'
    BY <2>10 DEF Expire, SpuriousWake
  <2> QED
    BY <2>1, <2>2, <2>3, <2>4, <2>5, <2>6, <2>7, <2>8, <2>9, <2>10 DEF Next
<1> QED
  BY <1>1, <1>2, QueueTyped, PTL DEF Spec

-----------------------------------------------------------------------------
(* NoLostWakeup compares numbers of threads.  The proof keeps them in a      *)
(* function, and follows it through the steps: a thread that goes from one   *)
(* place to another moves one unit.                                          *)
CountIn(f) == [p \in Locations |-> Cardinality({t \in Threads : f[t] = p})]

Count == CountIn(pc)

LEMMA CountType == ASSUME NEW f \in [Threads -> Locations]
                   PROVE  /\ CountIn(f) \in [Locations -> Nat]
                          /\ \A t \in Threads : CountIn(f)[f[t]] > 0
                          /\ \A p \in Locations :
                               CountIn(f)[p] > 0 => \E t \in Threads : f[t] = p
<1> DEFINE In(p) == {t \in Threads : f[t] = p}
<1>1. ASSUME NEW p \in Locations
      PROVE  /\ Cardinality(In(p)) \in Nat
             /\ Cardinality(In(p)) = 0 <=> In(p) = {}
  <2>1. In(p) \in SUBSET Threads
    OBVIOUS
  <2>2. IsFiniteSet(In(p))
    BY <2>1, FS_Subset, QueueAssumption
  <2> QED
    BY <2>2, FS_CardinalityType, FS_EmptySet
<1>2. CountIn(f) = [p \in Locations |-> Cardinality(In(p))]
  BY DEF CountIn
<1>3. \A t \in Threads : f[t] \in Locations /\ t \in In(f[t])
  OBVIOUS
<1>4. \A p \in Locations : In(p) # {} => \E t \in Threads : f[t] = p
  OBVIOUS
<1> HIDE DEF In
<1> QED
  BY <1>1, <1>2, <1>3, <1>4

LEMMA CountMove ==
  ASSUME NEW f \in [Threads -> Locations], NEW t \in Threads, NEW q \in Locations, f[t] # q
  PROVE  CountIn([f EXCEPT ![t] = q]) = [CountIn(f) EXCEPT ![f[t]] = @ - 1, ![q] = @ + 1]
<1> DEFINE g == [f EXCEPT ![t] = q]
           In(h, p) == {u \in Threads : h[u] = p}
<1>1. ASSUME NEW p \in Locations PROVE IsFiniteSet(In(f, p))
  <2>1. In(f, p) \in SUBSET Threads
    OBVIOUS
  <2> QED
    BY <2>1, FS_Subset, QueueAssumption
<1>2. Cardinality(In(g, q)) = Cardinality(In(f, q)) + 1
  <2>1. In(g, q) = In(f, q) \cup {t} /\ t \notin In(f, q)
    OBVIOUS
  <2> QED
    BY <1>1, <2>1, FS_AddElement
<1>3. Cardinality(In(g, f[t])) = Cardinality(In(f, f[t])) - 1
  <2>1. In(g, f[t]) = In(f, f[t]) \ {t} /\ t \in In(f, f[t])
    OBVIOUS
  <2> QED
    BY <1>1, <2>1, FS_RemoveElement
<1>4. \A p \in Locations \ {f[t], q} : In(g, p) = In(f, p)
  OBVIOUS
<1> QED
  BY <1>2, <1>3, <1>4 DEF CountIn

(* NoLostWakeup in these numbers. *)
Reachable ==
  /\ (~closed /\ Count["get_parked"] > 0) =>
       Len(items) <= Count["note_not_empty"] + Count["get"]
  /\ (~closed /\ Count["put_parked"] > 0) =>
       MaxSize <= Len(items) + Count["note_not_full"] + Count["put"]

LEMMA ReachableIsNoLostWakeup == Typed => (Reachable <=> NoLostWakeup)
<1> SUFFICES ASSUME Typed PROVE Reachable <=> NoLostWakeup
  OBVIOUS
<1>1. \A p \in Locations : Count[p] = Cardinality(At(p))
  BY DEF Count, CountIn, At
<1>2. \A p \in Locations : Count[p] > 0 <=> At(p) # {}
  BY CountType DEF Typed, PlacesTyped, Count, At
<1>3. {"get_parked", "put_parked", "get", "put", "note_not_empty", "note_not_full"}
        \subseteq Locations
  BY DEF Locations, Calls, Waits, Notes
<1> QED
  BY <1>1, <1>2, <1>3 DEF Reachable, NoLostWakeup

LEMMA CountBounds == Typed => /\ Count \in [Locations -> Nat]
                              /\ \A t \in Threads : Count[pc[t]] > 0
  BY CountType DEF Typed, PlacesTyped, Count

(* A thread goes from one place to another and moves no other.               *)
LEMMA StepCount ==
  ASSUME Typed, NEW t \in Threads, NEW q \in Locations, pc[t] # q, Goto(t, q)
  PROVE  \A p \in Locations :
           Count'[p] = IF p = q THEN Count[p] + 1 ELSE IF p = pc[t] THEN Count[p] - 1 ELSE Count[p]
<1>1. pc \in [Threads -> Locations] /\ pc' = [pc EXCEPT ![t] = q] /\ pc[t] \in Locations
  BY DEF Typed, PlacesTyped, Goto
<1>2. Count' = [Count EXCEPT ![pc[t]] = @ - 1, ![q] = @ + 1]
  BY <1>1, CountMove DEF Count
<1>3. Count \in [Locations -> Nat]
  BY CountBounds
<1> QED
  BY <1>1, <1>2, <1>3

(* Such a step keeps Reachable if the items stay as they are, and whoever    *)
(* gives up looking for an item, or for a place, has seen that there is none.*)
LEMMA StepReachable ==
  ASSUME Typed, Reachable, NEW t \in Threads, NEW q \in Locations, pc[t] # q, Goto(t, q),
         UNCHANGED <<items, closed>>,
         pc[t] \notin Notes,
         pc[t] = "get" => closed \/ Len(items) = 0,
         pc[t] = "put" => closed \/ MaxSize <= Len(items),
         q = "get_parked" => pc[t] = "get",
         q = "put_parked" => pc[t] = "put"
  PROVE  Reachable'
<1> USE QueueAssumption DEF Locations, Calls, Waits, Notes
<1>1. \A p \in Locations :
        Count'[p] = IF p = q THEN Count[p] + 1 ELSE IF p = pc[t] THEN Count[p] - 1 ELSE Count[p]
  BY StepCount
<1>2. Count \in [Locations -> Nat] /\ Count[pc[t]] > 0
  BY CountBounds
<1>3. Len(items) \in Nat
  BY DEF Typed, DataTyped
<1> DEFINE Places == {"get", "put", "note_not_empty", "note_not_full", "get_parked", "put_parked"}
<1>4. \A p \in Places : Count[p] \in Nat /\ Count'[p] \in Nat
  BY <1>1, <1>2
<1>5. /\ ~closed /\ Count'["get_parked"] > 0
      => Len(items) <= Count'["note_not_empty"] + Count'["get"]
  <2> SUFFICES ASSUME ~closed, Count'["get_parked"] > 0
               PROVE  Len(items) <= Count'["note_not_empty"] + Count'["get"]
    OBVIOUS
  <2>1. CASE Len(items) = 0
    BY <1>4, <2>1
  <2>2. CASE Len(items) # 0
    <3>1. pc[t] # "get" /\ q # "get_parked"
      BY <2>2
    <3>2. /\ Count["get_parked"] >= Count'["get_parked"]
          /\ Count'["note_not_empty"] >= Count["note_not_empty"]
          /\ Count'["get"] >= Count["get"]
      BY <1>1, <1>4, <3>1
    <3>3. Count["get_parked"] > 0
      BY <1>4, <3>2
    <3>4. Len(items) <= Count["note_not_empty"] + Count["get"]
      BY <3>3 DEF Reachable
    <3> QED
      BY <1>3, <1>4, <3>2, <3>4
  <2> QED
    BY <2>1, <2>2
<1>6. /\ ~closed /\ Count'["put_parked"] > 0
      => MaxSize <= Len(items) + Count'["note_not_full"] + Count'["put"]
  <2> SUFFICES ASSUME ~closed, Count'["put_parked"] > 0
               PROVE  MaxSize <= Len(items) + Count'["note_not_full"] + Count'["put"]
    OBVIOUS
  <2>1. CASE MaxSize <= Len(items)
    BY <1>3, <1>4, <2>1
  <2>2. CASE ~(MaxSize <= Len(items))
    <3>1. pc[t] # "put" /\ q # "put_parked"
      BY <2>2
    <3>2. /\ Count["put_parked"] >= Count'["put_parked"]
          /\ Count'["note_not_full"] >= Count["note_not_full"]
          /\ Count'["put"] >= Count["put"]
      BY <1>1, <1>4, <3>1
    <3>3. Count["put_parked"] > 0
      BY <1>4, <3>2
    <3>4. MaxSize <= Len(items) + Count["note_not_full"] + Count["put"]
      BY <3>3 DEF Reachable
    <3> QED
      BY <1>3, <1>4, <3>2, <3>4
  <2> QED
    BY <2>1, <2>2
<1> QED
  BY <1>5, <1>6 DEF Reachable

(* put and get change the items under the mutex and notify after it; the     *)
(* items, or the free places, that a parked thread may be waiting for are    *)
(* never more than the notifications and the awake threads on their way.     *)
THEOREM QueueNoLostWakeup == Spec => []NoLostWakeup
<1>1. Init => Reachable
  <2> SUFFICES ASSUME Init PROVE Reachable
    OBVIOUS
  <2>1. \A p \in Waits : {t \in Threads : pc[t] = p} = {} /\ p \in Locations
    BY DEF Init, Waits, Locations
  <2>2. \A p \in Waits : Count[p] = 0
    BY <2>1, FS_EmptySet DEF Count, CountIn
  <2> QED
    BY <2>2 DEF Reachable, Waits
<1>2. Typed /\ Typed' /\ Reachable /\ [Next]_vars => Reachable'
  <2> SUFFICES ASSUME Typed, Typed', Reachable, [Next]_vars PROVE Reachable'
    OBVIOUS
  <2>a. \A p \in Waits \cup Calls \cup Notes : Count[p] \in Nat
    BY CountBounds DEF Locations
  <2> USE QueueAssumption DEF Locations, Calls, Waits, Notes, state, history, Finish
  <2>1. CASE UNCHANGED vars
    BY <2>1 DEF vars, Reachable, Count
  <2>2. ASSUME NEW t \in Threads, CallPut(t) \/ CallGet(t) \/ CallJoin(t) PROVE Reachable'
    BY <2>2, StepReachable DEF CallPut, CallGet, CallJoin
  <2>3. ASSUME NEW t \in Threads, Put(t) PROVE Reachable'
    <3>1. pc[t] = "put" /\ Goto(t, "note_not_empty") /\ UNCHANGED closed
      BY <2>3 DEF Put
    <3>2. Len(items') = Len(items) + 1 /\ Len(items) \in Nat
      BY <2>3 DEF Put, Typed, DataTyped
    <3>3. /\ Count'["get_parked"] = Count["get_parked"]
          /\ Count'["note_not_empty"] = Count["note_not_empty"] + 1
          /\ Count'["get"] = Count["get"]
          /\ Count'["put_parked"] = Count["put_parked"]
          /\ Count'["note_not_full"] = Count["note_not_full"]
          /\ Count'["put"] = Count["put"] - 1
      BY <3>1, StepCount
    <3> QED
      BY <2>a, <3>1, <3>2, <3>3 DEF Reachable
  <2>4. ASSUME NEW t \in Threads, PutFails(t) PROVE Reachable'
    <3>1. closed \/ MaxSize <= Len(items)
      BY <2>4 DEF PutFails, Full
    <3> QED
      BY <2>4, <3>1, StepReachable DEF PutFails
  <2>5. ASSUME NEW t \in Threads, PutWaits(t) PROVE Reachable'
    BY <2>5, StepReachable DEF PutWaits, Full
  <2>6. ASSUME NEW t \in Threads, Get(t) PROVE Reachable'
    <3>1. pc[t] = "get" /\ Goto(t, "note_not_full") /\ UNCHANGED closed
      BY <2>6 DEF Get
    <3>2. Len(items') = Len(items) - 1 /\ Len(items) \in Nat
      BY <2>6 DEF Get, Empty, Typed, DataTyped
    <3>3. /\ Count'["get_parked"] = Count["get_parked"]
          /\ Count'["note_not_empty"] = Count["note_not_empty"]
          /\ Count'["get"] = Count["get"] - 1
          /\ Count'["put_parked"] = Count["put_parked"]
          /\ Count'["note_not_full"] = Count["note_not_full"] + 1
          /\ Count'["put"] = Count["put"]
      BY <3>1, StepCount
    <3>4. /\ Count["note_not_empty"] \in Nat /\ Count["get"] \in Nat
          /\ Count["note_not_full"] \in Nat /\ Count["put"] \in Nat
      BY <2>a
    <3>5. ~closed /\ Count'["get_parked"] > 0 =>
            Len(items') <= Count'["note_not_empty"] + Count'["get"]
      BY <3>2, <3>3, <3>4 DEF Reachable
    <3>6. ~closed /\ Count'["put_parked"] > 0 =>
            MaxSize <= Len(items') + Count'["note_not_full"] + Count'["put"]
      BY <3>2, <3>3, <3>4 DEF Reachable
    <3> QED
      BY <3>1, <3>5, <3>6 DEF Reachable
  <2>7. ASSUME NEW t \in Threads, GetFails(t) \/ GetWaits(t) PROVE Reachable'
    <3>1. closed \/ Len(items) = 0
      BY <2>7 DEF GetFails, GetWaits, Empty
    <3> QED
      BY <2>7, <3>1, StepReachable DEF GetFails, GetWaits
  <2>8. ASSUME NEW t \in Threads, Join(t) \/ JoinWaits(t) PROVE Reachable'
    BY <2>8, StepReachable DEF Join, JoinWaits
  <2>9. ASSUME NEW t \in Threads, TaskDone(t) PROVE Reachable'
    <3>1. \A p \in Locations \ {"join_parked", "join"} :
            {u \in Threads : pc'[u] = p} = {u \in Threads : pc[u] = p}
      BY <2>9 DEF TaskDone, WakeJoiners, At, Typed, PlacesTyped
    <3>2. \A p \in Locations \ {"join_parked", "join"} : Count'[p] = Count[p]
      BY <3>1 DEF Count, CountIn
    <3>3. UNCHANGED <<items, closed>>
      BY <2>9 DEF TaskDone
    <3> QED
      BY <3>2, <3>3 DEF Reachable
  <2>10. ASSUME NEW t \in Threads, Shutdown(t) \/ ShutdownNow(t) \/ NotifyAll(t)
         PROVE  Reachable'
    BY <2>10 DEF Shutdown, ShutdownNow, NotifyAll, Typed, PlacesTyped, Reachable
  <2>11. ASSUME NEW t \in Threads, NotifyOne(t) PROVE Reachable'
    <3> DEFINE wait == WaitOf(pc[t])
    <3>1. pc[t] \in Notes /\ wait = IF pc[t] = "note_not_empty" THEN "get_parked" ELSE "put_parked"
      BY <2>11 DEF NotifyOne, WaitOf
    <3>2. UNCHANGED <<items, closed>> /\ Len(items) \in Nat
      BY <2>11 DEF NotifyOne, Typed, DataTyped
    <3>3. CASE At(wait) = {} /\ Goto(t, "idle")
      <4>1. \A p \in Waits \cup Calls : Count'[p] = Count[p]
        BY <3>1, <3>3, StepCount
      <4>2. \A p \in Notes \ {pc[t]} : Count'[p] = Count[p]
        BY <3>1, <3>3, StepCount
      <4>3. Count[wait] = 0
        BY <3>1, <3>3, FS_EmptySet DEF Count, CountIn, At
      <4> QED
        BY <3>1, <3>2, <4>1, <4>2, <4>3 DEF Reachable
    <3>4. ASSUME NEW w \in At(wait), pc' = [pc EXCEPT ![t] = "idle", ![w] = CallOf(wait)]
          PROVE  Reachable'
      <4> DEFINE f == [pc EXCEPT ![t] = "idle"]
                 call == CallOf(wait)
      <4>1. /\ w \in Threads /\ pc[w] = wait /\ w # t
            /\ pc \in [Threads -> Locations] /\ f \in [Threads -> Locations]
            /\ f[w] = wait /\ pc[t] # "idle"
        BY <3>1, <3>4 DEF At, Typed, PlacesTyped
      <4>2. pc' = [f EXCEPT ![w] = call]
        BY <3>4, <4>1
      <4>3. CountIn(f) = [Count EXCEPT ![pc[t]] = @ - 1, !["idle"] = @ + 1]
        BY <4>1, CountMove DEF Count
      <4>4. call = IF pc[t] = "note_not_empty" THEN "get" ELSE "put"
        BY <3>1 DEF CallOf
      <4>5. Count' = [CountIn(f) EXCEPT ![wait] = @ - 1, ![call] = @ + 1]
        <5>1. call \in Locations /\ call # wait
          BY <3>1, <4>4
        <5>2. CountIn([f EXCEPT ![w] = call]) = [CountIn(f) EXCEPT ![f[w]] = @ - 1, ![call] = @ + 1]
          BY <4>1, <5>1, CountMove
        <5> QED
          BY <4>1, <4>2, <5>2 DEF Count
      <4>6. Count \in [Locations -> Nat]
        BY CountBounds
      <4>7. CASE pc[t] = "note_not_empty"
        <5>1. /\ Count'["note_not_empty"] = Count["note_not_empty"] - 1
              /\ Count'["get"] = Count["get"] + 1
              /\ Count'["get_parked"] = Count["get_parked"] - 1
              /\ Count'["note_not_full"] = Count["note_not_full"]
              /\ Count'["put_parked"] = Count["put_parked"]
              /\ Count'["put"] = Count["put"]
          BY <3>1, <4>3, <4>4, <4>5, <4>6, <4>7
        <5>2. ~closed /\ Count'["get_parked"] > 0 => ~closed /\ Count["get_parked"] > 0
          BY <2>a, <5>1
        <5> HIDE DEF wait, call, f
        <5> QED
          BY <2>a, <3>2, <5>1, <5>2 DEF Reachable
      <4>8. CASE pc[t] = "note_not_full"
        <5>1. /\ Count'["note_not_full"] = Count["note_not_full"] - 1
              /\ Count'["put"] = Count["put"] + 1
              /\ Count'["put_parked"] = Count["put_parked"] - 1
              /\ Count'["note_not_empty"] = Count["note_not_empty"]
              /\ Count'["get_parked"] = Count["get_parked"]
              /\ Count'["get"] = Count["get"]
          BY <3>1, <4>3, <4>4, <4>5, <4>6, <4>8
        <5>2. ~closed /\ Count'["put_parked"] > 0 => ~closed /\ Count["put_parked"] > 0
          BY <2>a, <5>1
        <5> HIDE DEF wait, call, f
        <5> QED
          BY <2>a, <3>2, <5>1, <5>2 DEF Reachable
      <4> QED
        BY <3>1, <4>7, <4>8
    <3> QED
      BY <2>11, <3>3, <3>4 DEF NotifyOne
  <2>12. ASSUME NEW t \in Threads, Expire(t) PROVE Reachable'
    <3>1. CASE pc[t] \in Waits
      BY <2>12, <3>1, StepReachable DEF Expire, CallOf
    <3>2. CASE pc[t] \notin Waits
      <4>1. pc' = pc /\ UNCHANGED <<items, closed>>
        BY <2>12, <3>2 DEF Expire, Goto, Typed, PlacesTyped
      <4> QED
        BY <4>1 DEF Reachable, Count
    <3> QED
      BY <3>1, <3>2
  <2>13. ASSUME NEW t \in Threads, SpuriousWake(t) PROVE Reachable'
    BY <2>13, StepReachable DEF SpuriousWake, CallOf
  <2> QED
    BY <2>1, <2>2, <2>3, <2>4, <2>5, <2>6, <2>7, <2>8, <2>9, <2>10, <2>11, <2>12, <2>13
    DEF Next
<1> QED
  BY <1>1, <1>2, QueueTyped, ReachableIsNoLostWakeup, PTL DEF Spec

-----------------------------------------------------------------------------
(* The rest of the types: the bound, and the count of unfinished tasks with  *)
(* the items it counts.                                                      *)
Amounts ==
  /\ taken \in [Threads -> Nat] /\ patience \in [Threads -> Patience]
  /\ MaxSize > 0 => Len(items) <= MaxSize
  /\ IsFiniteSet(ToAcknowledge)
  /\ UnfinishedCounted

(* An item more to acknowledge, and an item less.                            *)
LEMMA ToAcknowledgeAdds ==
  ASSUME taken \in [Threads -> Nat], IsFiniteSet(ToAcknowledge), NEW t \in Threads,
         taken' = [taken EXCEPT ![t] = @ + 1]
  PROVE  IsFiniteSet(ToAcknowledge)' /\ Acknowledgeable' = Acknowledgeable + 1
<1>1. \A u \in Threads : \A k \in 1 .. taken'[u] :
        k \in 1 .. taken[u] \/ (u = t /\ k = taken[t] + 1)
  OBVIOUS
<1>2. \A u \in Threads : \A k \in 1 .. taken[u] : k \in 1 .. taken'[u]
  OBVIOUS
<1>3. taken[t] + 1 \in 1 .. taken'[t] /\ taken[t] + 1 \notin 1 .. taken[t]
  OBVIOUS
<1>4. ToAcknowledge' = ToAcknowledge \cup {<<t, taken[t] + 1>>}
  <2>1. ASSUME NEW p \in ToAcknowledge' PROVE p \in ToAcknowledge \cup {<<t, taken[t] + 1>>}
    <3>1. PICK u \in Threads : \E k \in 1 .. taken'[u] : p = <<u, k>>
      BY <2>1 DEF ToAcknowledge
    <3>2. PICK k \in 1 .. taken'[u] : p = <<u, k>>
      BY <3>1
    <3> QED
      BY <1>1, <3>2 DEF ToAcknowledge
  <2>2. ASSUME NEW p \in ToAcknowledge PROVE p \in ToAcknowledge'
    <3>1. PICK u \in Threads : \E k \in 1 .. taken[u] : p = <<u, k>>
      BY <2>2 DEF ToAcknowledge
    <3>2. PICK k \in 1 .. taken[u] : p = <<u, k>>
      BY <3>1
    <3> QED
      BY <1>2, <3>2 DEF ToAcknowledge
  <2>3. <<t, taken[t] + 1>> \in ToAcknowledge'
    BY <1>3 DEF ToAcknowledge
  <2> QED
    BY <2>1, <2>2, <2>3
<1>5. <<t, taken[t] + 1>> \notin ToAcknowledge
  BY <1>3 DEF ToAcknowledge
<1> QED
  BY <1>4, <1>5, FS_AddElement DEF Acknowledgeable

LEMMA ToAcknowledgeDrops ==
  ASSUME taken \in [Threads -> Nat], IsFiniteSet(ToAcknowledge), NEW t \in Threads,
         taken[t] > 0, taken' = [taken EXCEPT ![t] = @ - 1]
  PROVE  /\ IsFiniteSet(ToAcknowledge)' /\ Acknowledgeable' = Acknowledgeable - 1
         /\ Acknowledgeable > 0
<1>1. \A u \in Threads : \A k \in 1 .. taken[u] :
        k \in 1 .. taken'[u] \/ (u = t /\ k = taken[t])
  OBVIOUS
<1>2. \A u \in Threads : \A k \in 1 .. taken'[u] : k \in 1 .. taken[u]
  OBVIOUS
<1>3. taken[t] \in 1 .. taken[t] /\ taken[t] \notin 1 .. taken'[t]
  OBVIOUS
<1>4. ToAcknowledge' = ToAcknowledge \ {<<t, taken[t]>>}
  <2>1. ASSUME NEW p \in ToAcknowledge PROVE p \in ToAcknowledge' \/ p = <<t, taken[t]>>
    <3>1. PICK u \in Threads : \E k \in 1 .. taken[u] : p = <<u, k>>
      BY <2>1 DEF ToAcknowledge
    <3>2. PICK k \in 1 .. taken[u] : p = <<u, k>>
      BY <3>1
    <3> QED
      BY <1>1, <3>2 DEF ToAcknowledge
  <2>2. ASSUME NEW p \in ToAcknowledge' PROVE p \in ToAcknowledge
    <3>1. PICK u \in Threads : \E k \in 1 .. taken'[u] : p = <<u, k>>
      BY <2>2 DEF ToAcknowledge
    <3>2. PICK k \in 1 .. taken'[u] : p = <<u, k>>
      BY <3>1
    <3> QED
      BY <1>2, <3>2 DEF ToAcknowledge
  <2>3. <<t, taken[t]>> \notin ToAcknowledge'
    BY <1>3 DEF ToAcknowledge
  <2> QED
    BY <2>1, <2>2, <2>3
<1>5. <<t, taken[t]>> \in ToAcknowledge
  BY <1>3 DEF ToAcknowledge
<1>6. Acknowledgeable \in Nat /\ Acknowledgeable # 0
  BY <1>5, FS_CardinalityType, FS_EmptySet DEF Acknowledgeable
<1>7. /\ IsFiniteSet(ToAcknowledge \ {<<t, taken[t]>>})
      /\ Cardinality(ToAcknowledge \ {<<t, taken[t]>>}) = Cardinality(ToAcknowledge) - 1
  BY <1>5, FS_RemoveElement
<1>8. Acknowledgeable > 0
  BY <1>6
<1> QED
  BY <1>4, <1>7, <1>8 DEF Acknowledgeable

LEMMA InitAmounts == Init => Amounts
<1> SUFFICES ASSUME Init PROVE Amounts
  OBVIOUS
<1>1. ToAcknowledge = {}
  BY DEF Init, ToAcknowledge
<1>2. Acknowledgeable = 0 /\ IsFiniteSet(ToAcknowledge)
  BY <1>1, FS_EmptySet DEF Acknowledgeable
<1>3. items = <<>> /\ unfinished = 0
  BY DEF Init
<1>4. Len(items) = 0
  BY <1>3
<1>5. UnfinishedCounted
  BY <1>2, <1>3, <1>4 DEF UnfinishedCounted
<1>6. MaxSize > 0 => Len(items) <= MaxSize
  BY <1>4, QueueAssumption
<1>7. taken \in [Threads -> Nat] /\ patience \in [Threads -> Patience]
  BY DEF Init, Patience
<1> QED
  BY <1>2, <1>5, <1>6, <1>7 DEF Amounts

LEMMA NextAmounts == Typed /\ Amounts /\ [Next]_vars => Amounts'
<1> SUFFICES ASSUME Typed, Amounts, [Next]_vars PROVE Amounts'
  OBVIOUS
<1> USE QueueAssumption
<1>t. /\ taken \in [Threads -> Nat] /\ patience \in [Threads -> Patience]
      /\ IsFiniteSet(ToAcknowledge) /\ items \in Seq(Nat) /\ Len(items) \in Nat
      /\ immediate \in BOOLEAN
  BY DEF Amounts, Typed, DataTyped
<1>c. Acknowledgeable \in Nat
  BY <1>t, FS_CardinalityType DEF Acknowledgeable
<1>a. MaxSize > 0 => Len(items) <= MaxSize
  BY DEF Amounts
<1>u. ~immediate => unfinished = Len(items) + Acknowledgeable
  BY DEF Amounts, UnfinishedCounted
<1>s. ASSUME UNCHANGED <<items, unfinished, immediate, taken>>,
             patience' \in [Threads -> Patience]
      PROVE  Amounts'
  BY <1>t, <1>a, <1>u, <1>s DEF Amounts, UnfinishedCounted, Acknowledgeable, ToAcknowledge
<1>p. \A t \in Threads, p \in Patience : [patience EXCEPT ![t] = p] \in [Threads -> Patience]
  BY <1>t
<1>e. {"ahead", "past", "endless"} \subseteq Patience
  BY DEF Patience
<1>1. CASE UNCHANGED vars
  BY <1>s, <1>t, <1>1 DEF vars, state, history
<1>2. ASSUME NEW t \in Threads, CallPut(t) \/ CallGet(t) \/ CallJoin(t) PROVE Amounts'
  <2>1. patience' \in [Threads -> Patience]
    BY <1>2, <1>t, <1>p DEF CallPut, CallGet, CallJoin
  <2> QED
    BY <1>2, <1>s, <2>1 DEF CallPut, CallGet, CallJoin, state, history
<1>3. ASSUME NEW t \in Threads,
             \/ PutFails(t) \/ PutWaits(t) \/ GetFails(t) \/ GetWaits(t)
             \/ Join(t) \/ JoinWaits(t)
      PROVE  Amounts'
  <2>1. patience' = patience \/ patience' = [patience EXCEPT ![t] = "endless"]
    BY <1>3 DEF PutFails, PutWaits, GetFails, GetWaits, Join, JoinWaits, Finish
  <2>2. patience' \in [Threads -> Patience]
    BY <1>t, <1>p, <1>e, <2>1
  <2> QED
    BY <1>3, <1>s, <2>2
    DEF PutFails, PutWaits, GetFails, GetWaits, Join, JoinWaits, state, history
<1>4. ASSUME NEW t \in Threads,
             NotifyOne(t) \/ NotifyAll(t) \/ Expire(t) \/ SpuriousWake(t)
      PROVE  Amounts'
  <2>1. patience' = patience \/ patience' = [patience EXCEPT ![t] = "past"]
    BY <1>4 DEF NotifyOne, NotifyAll, Expire, SpuriousWake
  <2>2. patience' \in [Threads -> Patience]
    BY <1>t, <1>p, <1>e, <2>1
  <2> QED
    BY <1>4, <1>s, <2>2 DEF NotifyOne, NotifyAll, Expire, SpuriousWake, state, history
<1>5. ASSUME NEW t \in Threads, Put(t) PROVE Amounts'
  <2>1. /\ items' = Append(items, accepted + 1) /\ unfinished' = unfinished + 1
        /\ patience' = [patience EXCEPT ![t] = "endless"]
        /\ UNCHANGED <<immediate, taken>> /\ ~Full
    BY <1>5 DEF Put, Finish
  <2>2. Len(items') = Len(items) + 1
    BY <1>t, <2>1
  <2>3. MaxSize > 0 => Len(items') <= MaxSize
    BY <1>t, <2>1, <2>2 DEF Full
  <2>4. ToAcknowledge' = ToAcknowledge /\ Acknowledgeable' = Acknowledgeable
    BY <2>1 DEF Acknowledgeable, ToAcknowledge
  <2>5. UnfinishedCounted'
    BY <1>t, <1>c, <1>u, <2>1, <2>2, <2>4 DEF UnfinishedCounted
  <2> QED
    BY <1>t, <1>p, <1>e, <2>1, <2>3, <2>4, <2>5 DEF Amounts
<1>6. ASSUME NEW t \in Threads, Get(t) PROVE Amounts'
  <2>1. /\ items' = Tail(items) /\ items # <<>> /\ taken' = [taken EXCEPT ![t] = @ + 1]
        /\ patience' = [patience EXCEPT ![t] = "endless"]
        /\ UNCHANGED <<immediate, unfinished>>
    BY <1>6 DEF Get, Empty, Finish
  <2>2. Len(items') = Len(items) - 1
    BY <1>t, <2>1
  <2>3. MaxSize > 0 => Len(items') <= MaxSize
    BY <1>t, <1>a, <2>2
  <2>4. IsFiniteSet(ToAcknowledge)' /\ Acknowledgeable' = Acknowledgeable + 1
    BY <1>t, <2>1, ToAcknowledgeAdds
  <2>5. UnfinishedCounted'
    BY <1>t, <1>c, <1>u, <2>1, <2>2, <2>4 DEF UnfinishedCounted
  <2>6. taken' \in [Threads -> Nat]
    BY <1>t, <2>1
  <2> QED
    BY <1>p, <1>e, <2>1, <2>3, <2>4, <2>5, <2>6 DEF Amounts
<1>7. ASSUME NEW t \in Threads, TaskDone(t) PROVE Amounts'
  <2>1. /\ taken[t] > 0 /\ taken' = [taken EXCEPT ![t] = @ - 1]
        /\ (unfinished > 0 /\ unfinished' = unfinished - 1) \/ (unfinished = 0)
        /\ UNCHANGED <<items, immediate, patience>>
    BY <1>7 DEF TaskDone
  <2>2. /\ IsFiniteSet(ToAcknowledge)' /\ Acknowledgeable' = Acknowledgeable - 1
        /\ Acknowledgeable > 0
    BY <1>t, <2>1, ToAcknowledgeDrops
  <2>3. UnfinishedCounted'
    BY <1>t, <1>c, <1>u, <2>1, <2>2 DEF UnfinishedCounted
  <2>4. taken' \in [Threads -> Nat]
    BY <1>t, <2>1
  <2> QED
    BY <1>t, <1>a, <2>1, <2>2, <2>3, <2>4 DEF Amounts
<1>8. ASSUME NEW t \in Threads, Shutdown(t) PROVE Amounts'
  BY <1>8, <1>s, <1>t DEF Shutdown, history
<1>9. ASSUME NEW t \in Threads, ShutdownNow(t) PROVE Amounts'
  <2>1. immediate' /\ items' = <<>> /\ UNCHANGED <<patience, taken>>
    BY <1>9 DEF ShutdownNow, history
  <2>2. Len(items') = 0
    BY <2>1
  <2>3. MaxSize > 0 => Len(items') <= MaxSize
    BY <2>2
  <2> QED
    BY <1>t, <2>1, <2>3 DEF Amounts, UnfinishedCounted, ToAcknowledge
<1> QED
  BY <1>1, <1>2, <1>3, <1>4, <1>5, <1>6, <1>7, <1>8, <1>9 DEF Next

(* put, get, taskDone and shutdown keep the bound of the queue, and the      *)
(* count of unfinished tasks is that of the items somebody still has to      *)
(* acknowledge: taskDone raises only after an immediate shutdown.            *)
THEOREM QueueTyping == Spec => []TypeOK
<1>1. Typed /\ Amounts => TypeOK
  BY DEF Typed, DataTyped, PlacesTyped, Amounts, TypeOK
<1> QED
  BY <1>1, InitAmounts, NextAmounts, QueueTyped, PTL DEF Spec
=============================================================================
