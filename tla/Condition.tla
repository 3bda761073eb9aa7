------------------------------ MODULE Condition ------------------------------
(***************************************************************************)
(* paw.concur.thread.Condition: the native condition variable of           *)
(* -thread.inl, over an RLock (the default) or a plain Lock, together with *)
(* the destruction of the state when its last handle goes away while       *)
(* threads are still waiting.                                              *)
(*                                                                         *)
(* The underlying lock is the abstract ReentrantLock that RLock            *)
(* implements; a plain Lock is its owner-blind use.  ConditionState.mutex  *)
(* is held from the moment a waiter counts itself to the moment it parks,  *)
(* so those steps are one action.  MaxDepth bounds the levels of the lock. *)
(***************************************************************************)
EXTENDS ReentrantLock, FiniteSets

CONSTANTS MaxNotify

ASSUME ConditionAssumption == IsFiniteSet(Threads) /\ MaxNotify \in Nat \ {0}

VARIABLES
  kind,      \* which lock the condition was made with
  waiters,   \* ConditionState.waiters
  closing,   \* ConditionState.closing
  deleted,   \* the ConditionState has been freed
  pc,        \* where each thread is
  timed,     \* the wait in progress has a timeout
  saved,     \* levels condition_release_save_state returned
  captured,  \* the local `closing' of condition_wait_state
  count,     \* notify_one calls the thread still has to make
  depth,     \* history: levels the thread held when it called wait
  seen,      \* history: threads parked when the last notify(n) was called
  wanted     \* history: its n

condVars == <<kind, waiters, closing, deleted>>
local == <<pc, timed, saved, captured, count>>
history == <<depth, seen, wanted>>
vars == <<lockVars, condVars, local, history>>

(* condition_wait_state, from its entry to its exit. *)
Waiting == {"parked", "woken", "reacquire", "leave"}
Closing == {"closing", "drain", "drain_parked"}
Locations == {"idle", "acquire", "entering", "notifying", "error"} \cup Waiting \cup Closing

In(places) == {t \in Threads : pc[t] \in places}
Parked == In({"parked", "drain_parked"})

Goto(t, place) == pc' = [pc EXCEPT ![t] = place]

(* Wakes every thread of W, sends t to place. *)
WakeAll(W, t, place) ==
  pc' = [u \in Threads |->
           IF u = t THEN place
           ELSE IF u \notin W THEN pc[u]
           ELSE IF pc[u] = "parked" THEN "woken" ELSE "drain"]

Init ==
  /\ LockInit
  /\ kind \in {"RLock", "Lock"}
  /\ waiters = 0
  /\ closing = FALSE
  /\ deleted = FALSE
  /\ pc = [t \in Threads |-> "idle"]
  /\ timed = [t \in Threads |-> FALSE]
  /\ saved = [t \in Threads |-> 0]
  /\ captured = [t \in Threads |-> FALSE]
  /\ count = [t \in Threads |-> 0]
  /\ depth = [t \in Threads |-> 0]
  /\ seen = {}
  /\ wanted = 0

CanAcquire(t) == IF kind = "RLock" THEN Available(t) ELSE owner = NoThread

(* condition_is_owned_state: a plain Lock only knows that somebody holds it. *)
IsOwned(t) == IF kind = "RLock" THEN owner = t ELSE owner # NoThread

Lesser(m, n) == IF m < n THEN m ELSE n

-----------------------------------------------------------------------------
(* Wrong variants of the definitions below, each a mistake the code could    *)
(* have made: the properties of this module tell them from the real ones.    *)

(* The waiter regains the lock with a plain acquire. *)
ReacquireOneLevel(t) ==
  /\ pc[t] = "reacquire"
  /\ AcquireLock(t)
  /\ Goto(t, "leave")
  /\ UNCHANGED <<condVars, timed, saved, captured, count, history>>

(* The destroyer tests the number of waiters with `if' instead of `while'. *)
DrainOnce(t) ==
  /\ pc[t] = "drain"
  /\ deleted' = TRUE
  /\ Goto(t, "idle")
  /\ UNCHANGED <<lockVars, kind, waiters, closing, timed, saved, captured, count, history>>

(* The catch block forgets that the waiter had counted itself in. *)
EnterUnlockedCounted(t) ==
  /\ pc[t] = "entering"
  /\ ~IsOwned(t)
  /\ waiters' = waiters + 1
  /\ Goto(t, "error")
  /\ UNCHANGED <<lockVars, kind, closing, deleted, timed, saved, captured, count, history>>

(* notify counts one waiter too few. *)
NotifyTooFew(t, n) ==
  /\ pc[t] = "idle" /\ ~closing
  /\ IsOwned(t)
  /\ waiters > 0
  /\ count' = [count EXCEPT ![t] = Lesser(n, waiters - 1)]
  /\ seen' = In({"parked"})
  /\ wanted' = n
  /\ Goto(t, "notifying")
  /\ UNCHANGED <<lockVars, condVars, timed, saved, captured, depth>>

-----------------------------------------------------------------------------
(* acquire and release are those of the lock; a thread whose lock is taken   *)
(* waits in "acquire" (the wait is RLock's, and Lock's, own matter).         *)
CallAcquire(t) ==
  /\ pc[t] = "idle" /\ ~closing
  /\ owner = t => recursion < MaxDepth
  /\ Goto(t, "acquire")
  /\ UNCHANGED <<lockVars, condVars, timed, saved, captured, count, history>>

Acquire(t) ==
  /\ pc[t] = "acquire"
  /\ CanAcquire(t)
  /\ AcquireLock(t)
  /\ Goto(t, "idle")
  /\ UNCHANGED <<condVars, timed, saved, captured, count, history>>

Release(t) ==
  /\ pc[t] = "idle"
  /\ IsOwned(t)
  /\ ReleaseLock(owner)
  /\ UNCHANGED <<condVars, local, history>>

(* wait and notify without the lock raise RuntimeError. *)
NotOwned(t) ==
  /\ pc[t] = "idle" /\ ~closing
  /\ ~IsOwned(t)
  /\ Goto(t, "error")
  /\ UNCHANGED <<lockVars, condVars, timed, saved, captured, count, history>>

(* wait has checked that the lock is held and heads for the mutex. *)
CallWait(t) ==
  /\ pc[t] = "idle" /\ ~closing
  /\ IsOwned(t)
  /\ timed' \in {[timed EXCEPT ![t] = b] : b \in BOOLEAN}
  /\ depth' = [depth EXCEPT ![t] = recursion]
  /\ Goto(t, "entering")
  /\ UNCHANGED <<lockVars, condVars, saved, captured, count, seen, wanted>>

(* The waiter counts itself, drops the lock and parks; a deadline that has   *)
(* passed by now skips the park.                                             *)
Enter(t) ==
  /\ pc[t] = "entering"
  /\ IsOwned(t)
  /\ waiters' = waiters + 1
  /\ saved' = [saved EXCEPT ![t] = recursion]
  /\ ReleaseAllLevels(owner)
  /\ \/ Goto(t, "parked") /\ UNCHANGED captured
     \/ /\ timed[t]
        /\ Goto(t, "reacquire")
        /\ captured' = [captured EXCEPT ![t] = FALSE]
  /\ UNCHANGED <<kind, closing, deleted, timed, count, history>>

(* A plain Lock that somebody else released since the check: release throws, *)
(* the catch block takes the count back, wait raises RuntimeError.           *)
EnterUnlocked(t) ==
  /\ pc[t] = "entering"
  /\ ~IsOwned(t)
  /\ Goto(t, "error")
  /\ UNCHANGED <<lockVars, condVars, timed, saved, captured, count, history>>

(* The timeout passes, or the system wakes a thread that nobody notified. *)
WakeUnnotified(t) ==
  /\ t \in Parked
  /\ Goto(t, IF pc[t] = "parked" THEN "woken" ELSE "drain")
  /\ UNCHANGED <<lockVars, condVars, timed, saved, captured, count, history>>

(* Back from cv.wait with the mutex: note whether the condition is closing,  *)
(* drop the mutex and go for the lock.                                       *)
Woken(t) ==
  /\ pc[t] = "woken"
  /\ captured' = [captured EXCEPT ![t] = closing]
  /\ Goto(t, "reacquire")
  /\ UNCHANGED <<lockVars, condVars, timed, saved, count, history>>

Reacquire(t) ==
  /\ pc[t] = "reacquire"
  /\ CanAcquire(t)
  /\ RestoreLevels(t, saved[t])
  /\ Goto(t, "leave")
  /\ UNCHANGED <<condVars, timed, saved, captured, count, history>>

(* With lock and mutex: count itself out and, if it saw the condition        *)
(* closing, wake the destroyer.                                              *)
Leave(t) ==
  /\ pc[t] = "leave"
  /\ waiters' = waiters - 1
  /\ IF captured[t] THEN WakeAll(Parked, t, "idle") ELSE Goto(t, "idle")
  /\ UNCHANGED <<lockVars, kind, closing, deleted, timed, saved, captured, count, history>>

(* notify(n): how many to wake is decided under the mutex. *)
Notify(t, n) ==
  /\ pc[t] = "idle" /\ ~closing
  /\ IsOwned(t)
  /\ waiters > 0
  /\ count' = [count EXCEPT ![t] = Lesser(n, waiters)]
  /\ seen' = In({"parked"})
  /\ wanted' = n
  /\ Goto(t, "notifying")
  /\ UNCHANGED <<lockVars, condVars, timed, saved, captured, depth>>

(* One cv.notify_one, outside the mutex. *)
NotifyOne(t) ==
  /\ pc[t] = "notifying"
  /\ count[t] > 0
  /\ count' = [count EXCEPT ![t] = @ - 1]
  /\ IF Parked = {} THEN UNCHANGED pc
                    ELSE \E w \in Parked : WakeAll({w}, t, "notifying")
  /\ UNCHANGED <<lockVars, condVars, timed, saved, captured, history>>

NotifyDone(t) ==
  /\ pc[t] = "notifying"
  /\ count[t] = 0
  /\ Goto(t, "idle")
  /\ UNCHANGED <<lockVars, condVars, timed, saved, captured, count, history>>

(* notifyAll: one cv.notify_all. *)
NotifyAll(t) ==
  /\ pc[t] = "idle" /\ ~closing
  /\ IsOwned(t)
  /\ waiters > 0
  /\ WakeAll(Parked, t, "idle")
  /\ UNCHANGED <<lockVars, condVars, timed, saved, captured, count, history>>

Return(t) ==
  /\ pc[t] = "error"
  /\ Goto(t, "idle")
  /\ UNCHANGED <<lockVars, condVars, timed, saved, captured, count, history>>

(* release_condition for the last handle.  Only waiters may still be inside  *)
(* and nobody calls the condition afterwards: that would be a use of a       *)
(* handle that is gone.                                                      *)
Close(t) ==
  /\ pc[t] = "idle" /\ ~closing
  /\ \A u \in Threads \ {t} : pc[u] \in Waiting \cup {"idle"}
  /\ closing' = TRUE
  /\ Goto(t, "closing")
  /\ UNCHANGED <<lockVars, kind, waiters, deleted, timed, saved, captured, count, history>>

CloseNotifyAll(t) ==
  /\ pc[t] = "closing"
  /\ WakeAll(Parked, t, "drain")
  /\ UNCHANGED <<lockVars, condVars, timed, saved, captured, count, history>>

(* The destroyer parks while there are waiters, then frees the state. *)
Drain(t) ==
  /\ pc[t] = "drain"
  /\ IF waiters > 0
       THEN Goto(t, "drain_parked") /\ UNCHANGED deleted
       ELSE Goto(t, "idle") /\ deleted' = TRUE
  /\ UNCHANGED <<lockVars, kind, waiters, closing, timed, saved, captured, count, history>>

Next ==
  \E t \in Threads :
    \/ CallAcquire(t) \/ Acquire(t) \/ Release(t) \/ NotOwned(t)
    \/ CallWait(t) \/ Enter(t) \/ EnterUnlocked(t) \/ WakeUnnotified(t)
    \/ Woken(t) \/ Reacquire(t) \/ Leave(t)
    \/ \E n \in 1 .. MaxNotify : Notify(t, n)
    \/ NotifyOne(t) \/ NotifyDone(t) \/ NotifyAll(t) \/ Return(t)
    \/ Close(t) \/ CloseNotifyAll(t) \/ Drain(t)

Spec == Init /\ [][Next]_vars

-----------------------------------------------------------------------------
(* condition_wait_state counts itself in and out on every path, thrown       *)
(* exceptions included: ConditionState.waiters is the number of threads      *)
(* inside wait.                                                              *)
WaitersCounted == waiters = Cardinality(In(Waiting))

(* Every variable holds a value of its type, and the waiters are counted.    *)
TypeOK ==
  /\ owner \in Threads \cup {NoThread}
  /\ recursion \in 0 .. MaxDepth
  /\ kind \in {"RLock", "Lock"}
  /\ waiters \in 0 .. Cardinality(Threads)
  /\ closing \in BOOLEAN /\ deleted \in BOOLEAN
  /\ pc \in [Threads -> Locations]
  /\ timed \in [Threads -> BOOLEAN]
  /\ saved \in [Threads -> 0 .. MaxDepth]
  /\ captured \in [Threads -> BOOLEAN]
  /\ count \in [Threads -> 0 .. MaxNotify]
  /\ depth \in [Threads -> 0 .. MaxDepth]
  /\ seen \subseteq Threads
  /\ wanted \in 0 .. MaxNotify
  /\ WaitersCounted

(* condition_wait_state returns with the lock held by the caller at the      *)
(* nesting it had when it called, whoever held the lock in between (a plain  *)
(* Lock anybody may release).                                                *)
WaitRestoresLevels ==
  [][\A t \in Threads :
       (kind = "RLock" /\ pc[t] = "leave" /\ pc'[t] = "idle") =>
         /\ owner' = t
         /\ recursion' = depth[t]]_vars

(* condition_notify_state decides how many waiters to wake under the mutex   *)
(* but wakes them after it has dropped it: no waiter that arrives meanwhile  *)
(* takes a notification from those that were parked when notify was called,  *)
(* because the notifier still holds the lock (an RLock).                     *)
NotifyReachesTheParked ==
  [][\A t \in Threads :
       (kind = "RLock" /\ pc[t] = "notifying" /\ pc'[t] = "idle") =>
         LET left == seen \cap In({"parked"})
         IN  left = {} \/ Cardinality(left) + wanted <= Cardinality(seen)]_vars

(* release_condition frees the state only when no thread is inside wait any  *)
(* more, so no waiter touches freed memory.                                  *)
FreedOnlyWhenUnused == deleted => In(Waiting) = {}
=============================================================================
