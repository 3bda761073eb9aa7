-------------------------- MODULE Condition_proofs --------------------------
(***************************************************************************)
(* Proofs about Condition for any set of threads and any depth: waiters    *)
(* are counted on every path, wait gives the levels back, notify reaches   *)
(* those that were parked, and the state is not freed while a thread is    *)
(* inside wait.                                                            *)
(***************************************************************************)
EXTENDS Condition, FiniteSetTheorems, TLAPS

(* TypeOK without the number of waiters. *)
Typed ==
  /\ owner \in Threads \cup {NoThread}
  /\ recursion \in 0 .. MaxDepth
  /\ kind \in {"RLock", "Lock"}
  /\ closing \in BOOLEAN /\ deleted \in BOOLEAN
  /\ pc \in [Threads -> Locations]
  /\ timed \in [Threads -> BOOLEAN]
  /\ saved \in [Threads -> 0 .. MaxDepth]
  /\ captured \in [Threads -> BOOLEAN]
  /\ count \in [Threads -> 0 .. MaxNotify]
  /\ depth \in [Threads -> 0 .. MaxDepth]
  /\ seen \subseteq Threads
  /\ wanted \in 0 .. MaxNotify

(* What a thread in wait has saved is what it held, a thread that is about   *)
(* to enter wait or to leave it holds the lock at that depth, and nobody     *)
(* enters wait once the last handle is gone.                                 *)
LevelsKept ==
  /\ owner = NoThread <=> recursion = 0
  /\ \A t \in Threads :
       /\ pc[t] = "acquire" /\ kind = "RLock" /\ owner = t => recursion < MaxDepth
       /\ pc[t] \in {"parked", "woken", "reacquire"} =>
            saved[t] > 0 /\ (kind = "RLock" => owner # t /\ saved[t] = depth[t])
       /\ kind = "RLock" /\ pc[t] \in {"entering", "leave"} =>
            owner = t /\ recursion = depth[t]

NobodyEnters ==
  /\ closing => \A t \in Threads : pc[t] # "entering"
  /\ deleted => closing
  /\ \A t \in Threads : pc[t] \in Closing => closing

Base == Typed /\ LevelsKept /\ NobodyEnters

LEMMA InitBase == Init => Base
<1> SUFFICES ASSUME Init PROVE Base
  OBVIOUS
<1> USE ReentrantLockAssumption, ConditionAssumption DEF Init, LockInit
<1>1. Typed
  <2>1. 0 \in 0 .. MaxDepth /\ 0 \in 0 .. MaxNotify
    OBVIOUS
  <2>2. "idle" \in Locations
    BY DEF Locations
  <2> QED
    BY <2>1, <2>2 DEF Typed
<1>2. LevelsKept
  BY DEF LevelsKept
<1>3. NobodyEnters
  BY DEF NobodyEnters, Closing
<1> QED
  BY <1>1, <1>2, <1>3 DEF Base

LEMMA CountableWaiters ==
  /\ IsFiniteSet(In(Waiting))
  /\ Cardinality(In(Waiting)) \in 0 .. Cardinality(Threads)
<1>1. In(Waiting) \in SUBSET Threads
  BY DEF In
<1> QED
  BY <1>1, FS_Subset, FS_CardinalityType, ConditionAssumption

LEMMA NextBase == Base /\ WaitersCounted /\ [Next]_vars => Base'
<1> SUFFICES ASSUME Base, WaitersCounted, [Next]_vars PROVE Base'
  OBVIOUS
<1>a. waiters \in Nat
  BY CountableWaiters, FS_CardinalityType, ConditionAssumption DEF WaitersCounted
<1> USE ReentrantLockAssumption, ConditionAssumption
    DEF Base, Typed, LevelsKept, NobodyEnters, Locations, Waiting, Closing, lockVars,
        condVars, local, history, Goto, IsOwned, CanAcquire, Available
<1>1. CASE UNCHANGED vars
  BY <1>1 DEF vars
<1>2. ASSUME NEW t \in Threads, CallAcquire(t) PROVE Base'
  BY <1>2 DEF CallAcquire
<1>3. ASSUME NEW t \in Threads, Acquire(t) PROVE Base'
  BY <1>3 DEF Acquire, AcquireLock
<1>4. ASSUME NEW t \in Threads, Release(t) PROVE Base'
  BY <1>4 DEF Release, ReleaseLock
<1>5. ASSUME NEW t \in Threads, NotOwned(t) PROVE Base'
  BY <1>5 DEF NotOwned
<1>6. ASSUME NEW t \in Threads, CallWait(t) PROVE Base'
  BY <1>6 DEF CallWait
<1>7. ASSUME NEW t \in Threads, Enter(t) PROVE Base'
  <2>1. Typed'
    <3>1. /\ owner' = NoThread /\ recursion' = 0
          /\ UNCHANGED <<kind, closing, deleted, timed, count, history>>
      BY <1>7 DEF Enter, ReleaseAllLevels
    <3>2. saved' \in [Threads -> 0 .. MaxDepth]
      BY <1>7 DEF Enter
    <3>3. pc' \in [Threads -> Locations] /\ captured' \in [Threads -> BOOLEAN]
      BY <1>7 DEF Enter
    <3> QED
      BY <3>1, <3>2, <3>3
  <2>2. LevelsKept'
    BY <1>7 DEF Enter, ReleaseAllLevels
  <2>3. NobodyEnters'
    BY <1>7 DEF Enter, ReleaseAllLevels
  <2> QED
    BY <2>1, <2>2, <2>3
<1>8. ASSUME NEW t \in Threads, EnterUnlocked(t) PROVE Base'
  BY <1>8 DEF EnterUnlocked
<1>9. ASSUME NEW t \in Threads, WakeUnnotified(t) PROVE Base'
  BY <1>9 DEF WakeUnnotified, Parked, In
<1>10. ASSUME NEW t \in Threads, Woken(t) PROVE Base'
  BY <1>10 DEF Woken
<1>11. ASSUME NEW t \in Threads, Reacquire(t) PROVE Base'
  BY <1>11 DEF Reacquire, RestoreLevels
<1>12. ASSUME NEW t \in Threads, Leave(t) PROVE Base'
  BY <1>12 DEF Leave, WakeAll, Parked, In
<1>13. ASSUME NEW t \in Threads, NEW n \in 1 .. MaxNotify, Notify(t, n) PROVE Base'
  <2>1. Typed'
    <3>1. Lesser(n, waiters) \in 0 .. MaxNotify /\ n \in 0 .. MaxNotify
      BY <1>a DEF Lesser
    <3> QED
      BY <1>13, <3>1 DEF Notify, In
  <2>2. LevelsKept'
    BY <1>13 DEF Notify, Lesser, In
  <2>3. NobodyEnters'
    BY <1>13 DEF Notify, Lesser, In
  <2> QED
    BY <2>1, <2>2, <2>3
<1>14. ASSUME NEW t \in Threads, NotifyOne(t) PROVE Base'
  BY <1>14 DEF NotifyOne, WakeAll, Parked, In
<1>15. ASSUME NEW t \in Threads, NotifyDone(t) PROVE Base'
  BY <1>15 DEF NotifyDone
<1>16. ASSUME NEW t \in Threads, NotifyAll(t) PROVE Base'
  BY <1>16 DEF NotifyAll, WakeAll, Parked, In
<1>17. ASSUME NEW t \in Threads, Return(t) PROVE Base'
  BY <1>17 DEF Return
<1>18. ASSUME NEW t \in Threads, Close(t) PROVE Base'
  BY <1>18 DEF Close
<1>19. ASSUME NEW t \in Threads, CloseNotifyAll(t) PROVE Base'
  BY <1>19 DEF CloseNotifyAll, WakeAll, Parked, In
<1>20. ASSUME NEW t \in Threads, Drain(t) PROVE Base'
  <2>1. Typed'
    BY <1>20 DEF Drain
  <2>2. LevelsKept'
    BY <1>20 DEF Drain
  <2>3. NobodyEnters'
    BY <1>20 DEF Drain
  <2> QED
    BY <2>1, <2>2, <2>3
<1> QED
  BY <1>1, <1>2, <1>3, <1>4, <1>5, <1>6, <1>7, <1>8, <1>9, <1>10, <1>11, <1>12, <1>13,
     <1>14, <1>15, <1>16, <1>17, <1>18, <1>19, <1>20 DEF Next

(* The steps that count a waiter in or out, and all the others.              *)
LEMMA WaitingStep ==
  ASSUME Base, Next
  PROVE  \/ \E t \in Threads : Enter(t) \/ Leave(t)
         \/ /\ UNCHANGED waiters
            /\ \A u \in Threads : /\ pc'[u] \in Waiting <=> pc[u] \in Waiting
                                  /\ pc[u] = "leave" => pc'[u] = "leave"
<1> USE DEF condVars, local, history, Goto, Waiting
<1>a. pc \in [Threads -> Locations]
  BY DEF Base, Typed
<1>1. ASSUME NEW t \in Threads,
             \/ CallAcquire(t) \/ Acquire(t) \/ Release(t) \/ NotOwned(t) \/ CallWait(t)
             \/ EnterUnlocked(t)
      PROVE  UNCHANGED waiters /\ \A u \in Threads :
               /\ pc'[u] \in Waiting <=> pc[u] \in Waiting
               /\ pc[u] = "leave" => pc'[u] = "leave"
  BY <1>a, <1>1 DEF CallAcquire, Acquire, Release, NotOwned, CallWait, EnterUnlocked
<1>2. ASSUME NEW t \in Threads, WakeUnnotified(t) \/ Woken(t) \/ Reacquire(t)
      PROVE  UNCHANGED waiters /\ \A u \in Threads :
               /\ pc'[u] \in Waiting <=> pc[u] \in Waiting
               /\ pc[u] = "leave" => pc'[u] = "leave"
  BY <1>a, <1>2 DEF WakeUnnotified, Woken, Reacquire, Parked, In
<1>3. ASSUME NEW t \in Threads,
             (\E n \in 1 .. MaxNotify : Notify(t, n)) \/ NotifyDone(t) \/ Return(t)
      PROVE  UNCHANGED waiters /\ \A u \in Threads :
               /\ pc'[u] \in Waiting <=> pc[u] \in Waiting
               /\ pc[u] = "leave" => pc'[u] = "leave"
  BY <1>a, <1>3 DEF Notify, NotifyDone, Return
<1>4. ASSUME NEW t \in Threads, NotifyOne(t) \/ NotifyAll(t) \/ CloseNotifyAll(t)
      PROVE  UNCHANGED waiters /\ \A u \in Threads :
               /\ pc'[u] \in Waiting <=> pc[u] \in Waiting
               /\ pc[u] = "leave" => pc'[u] = "leave"
  BY <1>a, <1>4 DEF NotifyOne, NotifyAll, CloseNotifyAll, WakeAll, Parked, In
<1>5. ASSUME NEW t \in Threads, Close(t) \/ Drain(t)
      PROVE  UNCHANGED waiters /\ \A u \in Threads :
               /\ pc'[u] \in Waiting <=> pc[u] \in Waiting
               /\ pc[u] = "leave" => pc'[u] = "leave"
  BY <1>a, <1>5 DEF Close, Drain
<1> QED
  BY <1>1, <1>2, <1>3, <1>4, <1>5 DEF Next

LEMMA NextWaitersCounted == Base /\ WaitersCounted /\ [Next]_vars => WaitersCounted'
<1> SUFFICES ASSUME Base, WaitersCounted, [Next]_vars PROVE WaitersCounted'
  OBVIOUS
<1>a. pc \in [Threads -> Locations]
  BY DEF Base, Typed
<1>1. CASE UNCHANGED vars
  BY <1>1 DEF vars, condVars, local, WaitersCounted, In
<1>2. ASSUME NEW t \in Threads, Enter(t) PROVE WaitersCounted'
  <2>1. In(Waiting)' = In(Waiting) \cup {t} /\ t \notin In(Waiting)
    BY <1>a, <1>2 DEF Enter, Goto, In, Waiting
  <2>2. waiters' = waiters + 1
    BY <1>2 DEF Enter
  <2> QED
    BY <2>1, <2>2, CountableWaiters, FS_AddElement DEF WaitersCounted
<1>3. ASSUME NEW t \in Threads, Leave(t) PROVE WaitersCounted'
  <2>1. In(Waiting)' = In(Waiting) \ {t} /\ t \in In(Waiting)
    BY <1>a, <1>3 DEF Leave, WakeAll, Goto, Parked, In, Waiting
  <2>2. waiters' = waiters - 1
    BY <1>3 DEF Leave
  <2> QED
    BY <2>1, <2>2, CountableWaiters, FS_RemoveElement DEF WaitersCounted
<1>4. ASSUME UNCHANGED waiters,
             \A u \in Threads : pc'[u] \in Waiting <=> pc[u] \in Waiting
      PROVE  WaitersCounted'
  BY <1>4 DEF WaitersCounted, In
<1> QED
  BY <1>1, <1>2, <1>3, <1>4, WaitingStep

LEMMA Inductive == Spec => [](Base /\ WaitersCounted)
<1>1. Init => WaitersCounted
  <2> SUFFICES ASSUME Init PROVE WaitersCounted
    OBVIOUS
  <2>1. In(Waiting) = {} /\ waiters = 0
    BY DEF Init, In, Waiting
  <2> QED
    BY <2>1, FS_EmptySet DEF WaitersCounted
<1> QED
  BY <1>1, InitBase, NextBase, NextWaitersCounted, PTL DEF Spec

(* condition_wait_state counts every waiter in and out, by whichever path it *)
(* leaves, so the count that notify and release_condition read is exact.     *)
THEOREM ConditionTyping == Spec => []TypeOK
<1>1. Base /\ WaitersCounted => TypeOK
  BY CountableWaiters DEF Base, Typed, TypeOK, WaitersCounted
<1> QED
  BY <1>1, Inductive, PTL

(* A wait returns at the nesting at which it was called, whoever had the     *)
(* lock in the meantime.                                                     *)
THEOREM ConditionWaitRestores == Spec => WaitRestoresLevels
<1>1. Base /\ [Next]_vars =>
        [\A t \in Threads :
           (kind = "RLock" /\ pc[t] = "leave" /\ pc'[t] = "idle") =>
             /\ owner' = t
             /\ recursion' = depth[t]]_vars
  <2> SUFFICES ASSUME Base, Next, NEW t \in Threads,
                      kind = "RLock", pc[t] = "leave", pc'[t] = "idle"
               PROVE  owner' = t /\ recursion' = depth[t]
    OBVIOUS
  <2>1. owner = t /\ recursion = depth[t]
    BY DEF Base, LevelsKept
  <2>2. \E u \in Threads : Enter(u) \/ Leave(u)
    BY WaitingStep
  <2>3. \A u \in Threads : Enter(u) => pc'[t] = "leave"
    BY DEF Enter, Goto, Base, Typed
  <2>4. UNCHANGED lockVars
    BY <2>2, <2>3 DEF Leave
  <2> QED
    BY <2>1, <2>4 DEF lockVars
<1> QED
  BY <1>1, Inductive, PTL DEF Spec, WaitRestoresLevels

(* release_condition frees the state when no thread is inside wait, and none *)
(* gets in afterwards.                                                       *)
THEOREM ConditionFreedWhenUnused == Spec => []FreedOnlyWhenUnused
<1>1. Init => FreedOnlyWhenUnused
  BY DEF Init, FreedOnlyWhenUnused
<1>2. Base /\ WaitersCounted /\ FreedOnlyWhenUnused /\ [Next]_vars => FreedOnlyWhenUnused'
  <2> SUFFICES ASSUME Base, WaitersCounted, FreedOnlyWhenUnused, Next, deleted'
               PROVE  In(Waiting)' = {}
    BY DEF FreedOnlyWhenUnused, vars, condVars, local, In
  <2>1. CASE deleted
    <3>1. In(Waiting) = {} /\ \A t \in Threads : ~Enter(t) /\ ~Leave(t)
      BY <2>1 DEF FreedOnlyWhenUnused, Base, NobodyEnters, Enter, Leave, In, Waiting
    <3> QED
      BY <3>1, WaitingStep DEF In
  <2>2. CASE ~deleted
    <3>1. PICK t \in Threads : Drain(t)
      BY <2>2 DEF Next, CallAcquire, Acquire, Release, NotOwned, CallWait, Enter,
        EnterUnlocked, WakeUnnotified, Woken, Reacquire, Leave, Notify, NotifyOne,
        NotifyDone, NotifyAll, Return, Close, CloseNotifyAll, condVars
    <3>2. waiters = 0
      <4>1. waiters \in Nat
        BY CountableWaiters, FS_CardinalityType, ConditionAssumption DEF WaitersCounted
      <4>2. ~(waiters > 0)
        BY <2>2, <3>1, Zenon DEF Drain
      <4> QED
        BY <4>1, <4>2
    <3>3. In(Waiting) = {}
      BY <3>2, CountableWaiters, FS_EmptySet DEF WaitersCounted
    <3>4. \A u \in Threads : pc'[u] \in Waiting => pc[u] \in Waiting
      BY <3>1 DEF Drain, Goto, Waiting, Base, Typed
    <3> QED
      BY <3>3, <3>4 DEF In
  <2> QED
    BY <2>1, <2>2
<1> QED
  BY <1>1, <1>2, Inductive, PTL DEF Spec

-----------------------------------------------------------------------------
(* NotifyReachesTheParked is not inductive.  A notifier keeps the lock of an *)
(* RLock, so nobody parks before it is through; either it has notifications  *)
(* enough for everybody who is still parked, or as many have left as it has  *)
(* notified.                                                                 *)
StillParked == In({"parked"})

NotifierKeeps ==
  \A t \in Threads : (kind = "RLock" /\ pc[t] = "notifying") =>
    /\ owner = t /\ ~closing
    /\ StillParked \subseteq seen
    /\ \/ StillParked = {}
       \/ Cardinality(StillParked) <= count[t]
       \/ Cardinality(StillParked) + wanted <= Cardinality(seen) + count[t]

(* What a step does while t notifies.                                        *)
LEMMA NotifierStep ==
  ASSUME Base, NotifierKeeps, Next, NEW t \in Threads, kind = "RLock", pc[t] = "notifying"
  PROVE  /\ UNCHANGED <<owner, closing, seen, wanted>>
         /\ StillParked' \subseteq StillParked
         /\ \/ NotifyOne(t)
            \/ NotifyDone(t)
            \/ pc'[t] = "notifying" /\ count'[t] = count[t]
<1> USE DEF condVars, local, history, lockVars, Goto
<1>a. pc \in [Threads -> Locations] /\ count \in [Threads -> 0 .. MaxNotify]
  BY DEF Base, Typed
<1>b. owner = t /\ ~closing
  BY DEF NotifierKeeps
<1>c. t # NoThread
  BY ReentrantLockAssumption
<1> DEFINE Kept == /\ UNCHANGED <<owner, closing, seen, wanted>>
                   /\ StillParked' \subseteq StillParked
                   /\ \/ NotifyOne(t)
                      \/ NotifyDone(t)
                      \/ pc'[t] = "notifying" /\ count'[t] = count[t]
<1>1. ASSUME NEW u \in Threads, NEW place, Goto(u, place), place # "parked",
             u # t, UNCHANGED <<owner, closing, seen, wanted, count>>
      PROVE  Kept
  BY <1>a, <1>1 DEF StillParked, In
<1>2. ASSUME NEW u \in Threads,
             \/ CallAcquire(u) \/ NotOwned(u) \/ CallWait(u) \/ EnterUnlocked(u)
             \/ Woken(u) \/ Return(u)
      PROVE  Kept
  BY <1>1, <1>2 DEF CallAcquire, NotOwned, CallWait, EnterUnlocked, Woken, Return
<1>3. ASSUME NEW u \in Threads,
             \/ Acquire(u) \/ Release(u) \/ Enter(u) \/ Reacquire(u) \/ NotifyAll(u)
             \/ \E n \in 1 .. MaxNotify : Notify(u, n)
             \/ Close(u) \/ CloseNotifyAll(u) \/ Drain(u)
      PROVE  FALSE
  <2>1. u # t
    BY <1>3
    DEF Acquire, Release, Enter, Reacquire, NotifyAll, Notify, Close, CloseNotifyAll, Drain
  <2>2. ~(Acquire(u) \/ Reacquire(u))
    BY <1>b, <1>c, <2>1 DEF Acquire, Reacquire, CanAcquire, Available
  <2>3. ~(Release(u) \/ Enter(u) \/ NotifyAll(u) \/ \E n \in 1 .. MaxNotify : Notify(u, n))
    BY <1>b, <2>1 DEF Release, Enter, NotifyAll, Notify, IsOwned
  <2>4. ~Close(u)
    BY <2>1 DEF Close, Waiting
  <2>5. ~(CloseNotifyAll(u) \/ Drain(u))
    BY <1>b DEF CloseNotifyAll, Drain, Base, NobodyEnters, Closing
  <2> QED
    BY <1>3, <2>2, <2>3, <2>4, <2>5
<1>4. ASSUME NEW u \in Threads, WakeUnnotified(u) PROVE Kept
  BY <1>1, <1>4 DEF WakeUnnotified, Parked, In
<1>5. ASSUME NEW u \in Threads, Leave(u) PROVE Kept
  <2>1. u # t /\ UNCHANGED <<owner, closing, seen, wanted, count>>
    BY <1>5 DEF Leave
  <2>2. \A v \in Threads : (pc'[v] = "parked" => pc[v] = "parked") /\ pc'[t] = "notifying"
    BY <1>a, <1>5, <2>1 DEF Leave, WakeAll, Parked, In
  <2> QED
    BY <2>1, <2>2 DEF StillParked, In
<1>6. ASSUME NEW u \in Threads, NotifyOne(u) PROVE Kept
  <2>1. UNCHANGED <<owner, closing, seen, wanted>>
    BY <1>6 DEF NotifyOne
  <2>2. \A v \in Threads : pc'[v] = "parked" => pc[v] = "parked"
    BY <1>a, <1>6 DEF NotifyOne, WakeAll, Parked, In
  <2>3. u = t
    BY <1>b, <1>6 DEF NotifyOne, NotifierKeeps
  <2> QED
    BY <1>6, <2>1, <2>2, <2>3 DEF StillParked, In
<1>7. ASSUME NEW u \in Threads, NotifyDone(u) PROVE Kept
  <2>1. u = t
    BY <1>b, <1>7 DEF NotifyDone, NotifierKeeps
  <2> QED
    BY <1>a, <1>7, <2>1 DEF NotifyDone, StillParked, In
<1> QED
  BY <1>2, <1>3, <1>4, <1>5, <1>6, <1>7 DEF Next

LEMMA ParkedAreFinite ==
  ASSUME Base, WaitersCounted
  PROVE  /\ IsFiniteSet(StillParked) /\ Cardinality(StillParked) \in Nat
         /\ IsFiniteSet(seen) /\ Cardinality(seen) \in Nat
         /\ waiters \in Nat /\ Cardinality(StillParked) <= waiters
<1>1. IsFiniteSet(In(Waiting)) /\ waiters = Cardinality(In(Waiting)) /\ waiters \in Nat
  BY CountableWaiters, FS_CardinalityType, ConditionAssumption DEF WaitersCounted
<1>2. StillParked \subseteq In(Waiting)
  BY DEF StillParked, In, Waiting
<1>3. IsFiniteSet(StillParked) /\ Cardinality(StillParked) <= waiters
  BY <1>1, <1>2, FS_Subset
<1>4. IsFiniteSet(seen)
  BY ConditionAssumption, FS_Subset DEF Base, Typed
<1> QED
  BY <1>1, <1>3, <1>4, FS_CardinalityType

LEMMA NextNotifierKeeps ==
  Base /\ WaitersCounted /\ NotifierKeeps /\ [Next]_vars => NotifierKeeps'
<1> SUFFICES ASSUME Base, WaitersCounted, NotifierKeeps, [Next]_vars PROVE NotifierKeeps'
  OBVIOUS
<1>1. CASE UNCHANGED vars
  BY <1>1 DEF vars, condVars, lockVars, local, history, NotifierKeeps, StillParked, In
<1>2. CASE Next
  <2> SUFFICES ASSUME NEW t \in Threads, kind' = "RLock", pc'[t] = "notifying"
               PROVE
        /\ owner' = t /\ ~closing'
        /\ StillParked' \subseteq seen'
        /\ \/ StillParked' = {}
           \/ Cardinality(StillParked') <= count'[t]
           \/ Cardinality(StillParked') + wanted' <= Cardinality(seen') + count'[t]
    BY DEF NotifierKeeps
  <2>a. pc \in [Threads -> Locations] /\ count \in [Threads -> 0 .. MaxNotify]
        /\ MaxNotify \in Nat /\ wanted \in 0 .. MaxNotify
    BY ConditionAssumption DEF Base, Typed
  <2>k. kind = "RLock"
    BY <1>2
    DEF Next, CallAcquire, Acquire, Release, NotOwned, CallWait, Enter, EnterUnlocked,
        WakeUnnotified, Woken, Reacquire, Leave, Notify, NotifyOne, NotifyDone, NotifyAll,
        Return, Close, CloseNotifyAll, Drain, condVars
  <2>f. /\ IsFiniteSet(StillParked) /\ Cardinality(StillParked) \in Nat
        /\ IsFiniteSet(seen) /\ Cardinality(seen) \in Nat
        /\ waiters \in Nat /\ Cardinality(StillParked) <= waiters
    BY ParkedAreFinite
  <2>1. CASE pc[t] = "notifying"
    <3>1. /\ owner = t /\ ~closing /\ StillParked \subseteq seen
          /\ \/ StillParked = {}
             \/ Cardinality(StillParked) <= count[t]
             \/ Cardinality(StillParked) + wanted <= Cardinality(seen) + count[t]
      BY <2>k, <2>1 DEF NotifierKeeps
    <3>2. /\ UNCHANGED <<owner, closing, seen, wanted>>
          /\ StillParked' \subseteq StillParked
          /\ \/ NotifyOne(t)
             \/ NotifyDone(t)
             \/ pc'[t] = "notifying" /\ count'[t] = count[t]
      BY <1>2, <2>k, <2>1, NotifierStep
    <3>3. /\ IsFiniteSet(StillParked') /\ Cardinality(StillParked') \in Nat
          /\ Cardinality(StillParked') <= Cardinality(StillParked)
      BY <2>f, <3>2, FS_Subset, FS_CardinalityType
    <3>4. ~NotifyDone(t)
      BY <2>a DEF NotifyDone, Goto
    <3>5. CASE count'[t] = count[t]
      <4>1. count[t] \in Nat /\ wanted \in Nat
        BY <2>a
      <4> QED
        BY <2>f, <3>1, <3>2, <3>3, <3>5, <4>1
    <3>6. CASE NotifyOne(t)
      <4>1. count'[t] = count[t] - 1 /\ count[t] \in Nat /\ count[t] > 0 /\ wanted \in Nat
        BY <2>a, <3>6 DEF NotifyOne
      <4>2. CASE StillParked = {}
        BY <3>1, <3>2, <4>2
      <4>3. CASE StillParked # {}
        <5>1. Parked = StillParked
          <6>1. \A u \in Threads : pc[u] # "drain_parked"
            BY <3>1 DEF Base, NobodyEnters, Closing
          <6> QED
            BY <6>1 DEF Parked, StillParked, In
        <5>2. PICK w \in StillParked : WakeAll({w}, t, "notifying")
          BY <3>6, <4>3, <5>1 DEF NotifyOne
        <5>3. StillParked' = StillParked \ {w}
          BY <2>1, <2>a, <5>2 DEF WakeAll, StillParked, In
        <5>4. Cardinality(StillParked') = Cardinality(StillParked) - 1
          BY <2>f, <5>3, FS_RemoveElement
        <5> QED
          BY <2>f, <3>1, <3>2, <4>1, <4>3, <5>4
      <4> QED
        BY <4>2, <4>3
    <3> QED
      BY <3>2, <3>4, <3>5, <3>6
  <2>2. CASE pc[t] # "notifying"
    <3>1. PICK n \in 1 .. MaxNotify : Notify(t, n)
      BY <1>2, <2>a, <2>2
      DEF Next, CallAcquire, Acquire, Release, NotOwned, CallWait, Enter, EnterUnlocked,
          WakeUnnotified, Woken, Reacquire, Leave, Notify, NotifyOne, NotifyDone, NotifyAll,
          Return, Close, CloseNotifyAll, Drain, Goto, WakeAll, local, condVars
    <3>2. /\ owner = t /\ ~closing /\ seen' = In({"parked"}) /\ wanted' = n
          /\ count' = [count EXCEPT ![t] = Lesser(n, waiters)]
          /\ pc' = [pc EXCEPT ![t] = "notifying"] /\ UNCHANGED <<owner, closing>>
          /\ pc[t] = "idle"
      BY <2>k, <3>1 DEF Notify, IsOwned, Goto, lockVars, condVars
    <3>3. StillParked' = StillParked /\ seen' = StillParked
      BY <2>a, <3>2 DEF StillParked, In
    <3>4. count'[t] = n \/ count'[t] = waiters
      BY <2>a, <3>2 DEF Lesser
    <3> QED
      BY <2>a, <2>f, <3>2, <3>3, <3>4
  <2> QED
    BY <2>1, <2>2
<1> QED
  BY <1>1, <1>2

(* condition_notify_state wakes after it has dropped the mutex: still nobody *)
(* takes a notification from those that were parked when notify was called.  *)
THEOREM ConditionNotifyReaches == Spec => NotifyReachesTheParked
<1>1. Init => NotifierKeeps
  BY DEF Init, NotifierKeeps
<1>2. Base /\ WaitersCounted /\ NotifierKeeps /\ [Next]_vars =>
        [\A t \in Threads :
           (kind = "RLock" /\ pc[t] = "notifying" /\ pc'[t] = "idle") =>
             LET left == seen \cap In({"parked"})
             IN  left = {} \/ Cardinality(left) + wanted <= Cardinality(seen)]_vars
  <2> SUFFICES ASSUME Base, WaitersCounted, NotifierKeeps, Next, NEW t \in Threads,
                      kind = "RLock", pc[t] = "notifying", pc'[t] = "idle"
               PROVE  LET left == seen \cap In({"parked"})
                      IN  left = {} \/ Cardinality(left) + wanted <= Cardinality(seen)
    OBVIOUS
  <2>1. seen \cap In({"parked"}) = StillParked
    BY DEF NotifierKeeps, StillParked
  <2>2. count[t] = 0
    <3>1. NotifyOne(t) => pc'[t] = "notifying"
      BY DEF NotifyOne, WakeAll, Base, Typed
    <3> QED
      BY <3>1, NotifierStep DEF NotifyDone
  <2>3. \/ StillParked = {}
        \/ Cardinality(StillParked) <= 0
        \/ Cardinality(StillParked) + wanted <= Cardinality(seen) + 0
    BY <2>2 DEF NotifierKeeps
  <2>4. /\ IsFiniteSet(StillParked) /\ Cardinality(StillParked) \in Nat
        /\ Cardinality(seen) \in Nat
    BY ParkedAreFinite
  <2>5. Cardinality(StillParked) <= 0 => StillParked = {}
    BY <2>4, FS_EmptySet
  <2> QED
    BY <2>1, <2>3, <2>4, <2>5
<1> QED
  BY <1>1, <1>2, NextNotifierKeeps, Inductive, PTL DEF Spec, NotifyReachesTheParked
=============================================================================
