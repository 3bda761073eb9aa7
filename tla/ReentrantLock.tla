---------------------------- MODULE ReentrantLock ----------------------------
(***************************************************************************)
(* What paw.concur.thread.RLock promises: one owner at a time, counted     *)
(* levels, and a complete release that is later undone.  RLock shows that  *)
(* the native code implements it, Condition is built on it.                *)
(***************************************************************************)
EXTENDS Naturals

CONSTANTS Threads, NoThread, MaxDepth

ASSUME ReentrantLockAssumption ==
  /\ NoThread \notin Threads
  /\ MaxDepth \in Nat \ {0}

VARIABLES
  owner,     \* RLockState.owner, 0 written NoThread
  recursion  \* RLockState.recursion

lockVars == <<owner, recursion>>

LockInit ==
  /\ owner = NoThread
  /\ recursion = 0

(* Nobody else stands in the way of t. *)
Available(t) == owner \in {NoThread, t}

(* One more level. *)
AcquireLock(t) ==
  /\ Available(t)
  /\ owner' = t
  /\ recursion' = recursion + 1

(* One level less; the lock is free when none is left. *)
ReleaseLock(t) ==
  /\ owner = t
  /\ recursion' = recursion - 1
  /\ owner' = IF recursion = 1 THEN NoThread ELSE t

(* All levels at once. *)
ReleaseAllLevels(t) ==
  /\ owner = t
  /\ owner' = NoThread
  /\ recursion' = 0

(* Back to n levels more. *)
RestoreLevels(t, n) ==
  /\ Available(t)
  /\ owner' = t
  /\ recursion' = recursion + n

LockNext ==
  \E t \in Threads :
    \/ AcquireLock(t)
    \/ ReleaseLock(t)
    \/ ReleaseAllLevels(t)
    \/ \E n \in 1 .. MaxDepth : RestoreLevels(t, n)

LockSpec == LockInit /\ [][LockNext]_lockVars
=============================================================================
