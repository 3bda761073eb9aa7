----------------------------- MODULE RLock_proofs -----------------------------
(***************************************************************************)
(* Proofs about RLock for any set of threads and any depth: typing, which  *)
(* includes that the levels threads believe to hold are those of the lock, *)
(* no lost wake-up, and that RLock implements ReentrantLock.               *)
(***************************************************************************)
EXTENDS RLock, TLAPS

(* TypeOK is not inductive alone.  The levels a thread holds together with   *)
(* those it has saved stay within MaxDepth, with room for one more while an  *)
(* acquire is in progress, and a thread restores only what it has saved.     *)
LevelsBounded ==
  \A t \in Threads :
    /\ held[t] + saved[t] <= MaxDepth
    /\ pc[t] \in {"acquire", "parked_acquire"} => held[t] + saved[t] < MaxDepth
    /\ pc[t] \in {"restore", "parked_restore"} => saved[t] > 0

IInv == TypeOK /\ LevelsBounded

LEMMA InitIInv == Init => IInv
  BY RLockAssumption
  DEF Init, IInv, TypeOK, LevelsBounded, LevelsBelongToOwner, Unlocked, Modes,
      Locations, Loops, Waits, Outcomes

(* Every action keeps the levels consistent and bounded: no sequence of      *)
(* nesting, release, _releaseSave and _acquireRestore loses or invents one.  *)
LEMMA NextIInv == IInv /\ [Next]_vars => IInv'
<1> SUFFICES ASSUME IInv, [Next]_vars PROVE IInv'
  OBVIOUS
<1> USE RLockAssumption
    DEF IInv, TypeOK, LevelsBounded, LevelsBelongToOwner, Unlocked, Modes,
        Locations, Loops, Waits, Outcomes
<1>1. CASE UNCHANGED vars
  BY <1>1 DEF vars
<1>2. ASSUME NEW t \in Threads, NEW m \in Modes, Call(t, m) PROVE IInv'
  BY <1>2 DEF Call, MayNest
<1>3. ASSUME NEW t \in Threads, Reenter(t) PROVE IInv'
  BY <1>3 DEF Reenter
<1>4. ASSUME NEW t \in Threads, Take(t) PROVE IInv'
  BY <1>4 DEF Take
<1>5. ASSUME NEW t \in Threads, Refuse(t) PROVE IInv'
  BY <1>5 DEF Refuse
<1>6. ASSUME NEW t \in Threads, Park(t) PROVE IInv'
  BY <1>6 DEF Park, ParkedIn
<1>7. ASSUME NEW t \in Threads, Expire(t) PROVE IInv'
  BY <1>7 DEF Expire
<1>8. ASSUME NEW t \in Threads, SpuriousWake(t) PROVE IInv'
  BY <1>8 DEF SpuriousWake, Parked, LoopOf
<1>9. ASSUME NEW t \in Threads, Release(t) PROVE IInv'
  BY <1>9 DEF Release
<1>10. ASSUME NEW t \in Threads, ReleaseByOther(t) PROVE IInv'
  BY <1>10 DEF ReleaseByOther
<1>11. ASSUME NEW t \in Threads, ReleaseSave(t) PROVE IInv'
  BY <1>11 DEF ReleaseSave
<1>12. ASSUME NEW t \in Threads, CallRestore(t) PROVE IInv'
  BY <1>12 DEF CallRestore
<1>13. ASSUME NEW t \in Threads, Restore(t) PROVE IInv'
  BY <1>13 DEF Restore, OwnedByOther
<1>14. ASSUME NEW t \in Threads, NotifyOne(t) PROVE IInv'
  BY <1>14 DEF NotifyOne, Parked, LoopOf
<1>15. ASSUME NEW t \in Threads, Return(t) PROVE IInv'
  BY <1>15 DEF Return
<1> QED
  BY <1>1, <1>2, <1>3, <1>4, <1>5, <1>6, <1>7, <1>8, <1>9, <1>10, <1>11, <1>12,
     <1>13, <1>14, <1>15 DEF Next

LEMMA AlwaysIInv == Spec => []IInv
  BY InitIInv, NextIInv, PTL DEF Spec

(* The count of the native lock is what its owner believes to hold, whatever *)
(* the threads do and however deep they nest.                                *)
THEOREM RLockTyping == Spec => []TypeOK
<1>1. IInv => TypeOK
  BY DEF IInv
<1> QED
  BY <1>1, AlwaysIInv, PTL

(* Both releases clear the owner before they notify: no schedule leaves a    *)
(* thread parked on a free lock with nobody left to wake it.                 *)
THEOREM RLockNoLostWakeup == Spec => []NoLostWakeup
<1>1. Init => NoLostWakeup
  BY DEF Init, NoLostWakeup, Parked, Waits
<1>2. IInv /\ NoLostWakeup /\ [Next]_vars => NoLostWakeup'
  <2> SUFFICES ASSUME IInv, NoLostWakeup, [Next]_vars PROVE NoLostWakeup'
    OBVIOUS
  <2> USE DEF IInv, TypeOK, NoLostWakeup, Unlocked, Parked, Waits, Loops
  <2>1. CASE UNCHANGED vars
    BY <2>1 DEF vars
  <2>2. ASSUME NEW t \in Threads, NEW m \in Modes, Call(t, m)
        PROVE NoLostWakeup'
    BY <2>2 DEF Call
  <2>3. ASSUME NEW t \in Threads, Reenter(t) \/ Take(t) PROVE NoLostWakeup'
    BY <2>3, RLockAssumption DEF Reenter, Take
  <2>4. ASSUME NEW t \in Threads, Refuse(t) \/ Park(t) PROVE NoLostWakeup'
    BY <2>4 DEF Refuse, Park, OwnedByOther
  <2>5. ASSUME NEW t \in Threads, Expire(t) PROVE NoLostWakeup'
    BY <2>5 DEF Expire
  <2>6. ASSUME NEW t \in Threads, SpuriousWake(t) PROVE NoLostWakeup'
    BY <2>6 DEF SpuriousWake, LoopOf
  <2>7. ASSUME NEW t \in Threads, Release(t) PROVE NoLostWakeup'
    BY <2>7, RLockAssumption DEF Release
  <2>8. ASSUME NEW t \in Threads, ReleaseByOther(t) PROVE NoLostWakeup'
    BY <2>8 DEF ReleaseByOther
  <2>9. ASSUME NEW t \in Threads, ReleaseSave(t) PROVE NoLostWakeup'
    BY <2>9 DEF ReleaseSave
  <2>10. ASSUME NEW t \in Threads, CallRestore(t) PROVE NoLostWakeup'
    BY <2>10 DEF CallRestore
  <2>11. ASSUME NEW t \in Threads, Restore(t) PROVE NoLostWakeup'
    BY <2>11, RLockAssumption DEF Restore
  <2>12. ASSUME NEW t \in Threads, NotifyOne(t) PROVE NoLostWakeup'
    BY <2>12 DEF NotifyOne, LoopOf
  <2>13. ASSUME NEW t \in Threads, Return(t) PROVE NoLostWakeup'
    BY <2>13 DEF Return, Outcomes
  <2> QED
    BY <2>1, <2>2, <2>3, <2>4, <2>5, <2>6, <2>7, <2>8, <2>9, <2>10, <2>11,
       <2>12, <2>13 DEF Next
<1> QED
  BY <1>1, <1>2, AlwaysIInv, PTL DEF Spec

(* The native code implements the abstract re-entrant lock: every action of  *)
(* RLock is an action of ReentrantLock or leaves owner and recursion alone.  *)
THEOREM RLockImplementsReentrantLock == Spec => ImplementsReentrantLock
<1>1. Init => Abstract!LockInit
  BY DEF Init, Abstract!LockInit
<1>2. IInv /\ [Next]_vars => [Abstract!LockNext]_(Abstract!lockVars)
  <2> SUFFICES ASSUME IInv, [Next]_vars
               PROVE  Abstract!LockNext \/ UNCHANGED Abstract!lockVars
    OBVIOUS
  <2> USE DEF Abstract!lockVars
  <2>1. CASE UNCHANGED vars
    BY <2>1 DEF vars
  <2>2. ASSUME NEW t \in Threads, Reenter(t) \/ Take(t)
        PROVE  Abstract!AcquireLock(t)
    BY <2>2 DEF IInv, TypeOK, LevelsBelongToOwner, Reenter, Take, Unlocked,
                Abstract!AcquireLock, Abstract!Available
  <2>3. ASSUME NEW t \in Threads, Release(t) PROVE Abstract!ReleaseLock(t)
    BY <2>3 DEF Release, Abstract!ReleaseLock
  <2>4. ASSUME NEW t \in Threads, ReleaseSave(t)
        PROVE  Abstract!ReleaseAllLevels(t)
    BY <2>4 DEF ReleaseSave, Abstract!ReleaseAllLevels
  <2>5. ASSUME NEW t \in Threads, Restore(t)
        PROVE  \E n \in 1 .. MaxDepth : Abstract!RestoreLevels(t, n)
    <3>1. saved[t] \in 0 .. MaxDepth /\ saved[t] > 0
      BY <2>5 DEF IInv, TypeOK, LevelsBounded, Restore
    <3>2. saved[t] \in 1 .. MaxDepth
      BY <3>1, RLockAssumption
    <3>3. Abstract!RestoreLevels(t, saved[t])
      BY <2>5 DEF Restore, OwnedByOther, Abstract!RestoreLevels, Abstract!Available
    <3> QED
      BY <3>2, <3>3
  <2>6. ASSUME NEW t \in Threads,
               \/ \E m \in Modes : Call(t, m)
               \/ Refuse(t) \/ Park(t) \/ Expire(t) \/ SpuriousWake(t)
               \/ ReleaseByOther(t) \/ CallRestore(t) \/ NotifyOne(t) \/ Return(t)
        PROVE  UNCHANGED <<owner, recursion>>
    BY <2>6 DEF Call, Refuse, Park, Expire, SpuriousWake, ReleaseByOther,
                CallRestore, NotifyOne, Return
  <2> QED
    BY <2>1, <2>2, <2>3, <2>4, <2>5, <2>6 DEF Next, Abstract!LockNext
<1> QED
  BY <1>1, <1>2, AlwaysIInv, PTL
  DEF Spec, ImplementsReentrantLock, Abstract!LockSpec
=============================================================================
