------------------------- MODULE Synchronizers_proofs -------------------------
(***************************************************************************)
(* Proofs about the lock, the semaphores, the event, the barrier and the   *)
(* future, each for any set of threads and any values of its bounds, and   *)
(* about their composition: typing and counting, no wake-up or permit is   *)
(* lost, a barrier passes full rounds only, a future has one outcome.      *)
(***************************************************************************)
EXTENDS Synchronizers, FiniteSetTheorems, TLAPS

(*************************************************************************)
(* Lock                                                                  *)
(*************************************************************************)

(* Every step of the lock keeps its variables typed and the flag in step     *)
(* with the history of its holder.                                           *)
LEMMA LockKeepsTypes == TypeOK /\ [Next]_vars => TypeOK'
<1> SUFFICES ASSUME TypeOK, [Next]_vars PROVE TypeOK'
  OBVIOUS
<1> USE ThreadsAssumption DEF TypeOK, Modes, Locations
<1>1. CASE UNCHANGED vars
  BY <1>1 DEF vars
<1>2. ASSUME NEW t \in Threads, NEW m \in Modes, Call(t, m) PROVE TypeOK'
  BY <1>2 DEF Call
<1>3. ASSUME NEW t \in Threads, Take(t) PROVE TypeOK'
  BY <1>3 DEF Take
<1>4. ASSUME NEW t \in Threads, Refuse(t) PROVE TypeOK'
  BY <1>4 DEF Refuse
<1>5. ASSUME NEW t \in Threads, Park(t) PROVE TypeOK'
  BY <1>5 DEF Park
<1>6. ASSUME NEW t \in Threads, Expire(t) PROVE TypeOK'
  BY <1>6 DEF Expire
<1>7. ASSUME NEW t \in Threads, SpuriousWake(t) PROVE TypeOK'
  BY <1>7 DEF SpuriousWake
<1>8. ASSUME NEW t \in Threads, Release(t) PROVE TypeOK'
  BY <1>8 DEF Release
<1>9. ASSUME NEW t \in Threads, ReleaseUnlocked(t) PROVE TypeOK'
  BY <1>9 DEF ReleaseUnlocked
<1>10. ASSUME NEW t \in Threads, NotifyOne(t) PROVE TypeOK'
  BY <1>10 DEF NotifyOne, Parked
<1>11. ASSUME NEW t \in Threads, Return(t) PROVE TypeOK'
  BY <1>11 DEF Return
<1> QED
  BY <1>1, <1>2, <1>3, <1>4, <1>5, <1>6, <1>7, <1>8, <1>9, <1>10, <1>11
  DEF Next

(* The flag of a lock is set exactly while an acquire is outstanding.        *)
THEOREM LockTyping == Spec => []TypeOK
<1>1. Init => TypeOK
  BY DEF Init, TypeOK, Modes, Locations
<1> QED
  BY <1>1, LockKeepsTypes, PTL DEF Spec

(* release_lock_state clears the flag before it notifies: no schedule leaves *)
(* a thread parked on a free lock with nobody left to wake it.               *)
LEMMA LockKeepsWakeups == TypeOK /\ NoLostWakeup /\ [Next]_vars => NoLostWakeup'
<1> SUFFICES ASSUME TypeOK, NoLostWakeup, [Next]_vars PROVE NoLostWakeup'
  OBVIOUS
<1> USE DEF TypeOK, NoLostWakeup, Parked
<1>1. CASE UNCHANGED vars
  BY <1>1 DEF vars
<1>2. ASSUME NEW t \in Threads, NEW m \in Modes, Call(t, m)
      PROVE NoLostWakeup'
  BY <1>2 DEF Call
<1>3. ASSUME NEW t \in Threads, Take(t) PROVE NoLostWakeup'
  BY <1>3 DEF Take
<1>4. ASSUME NEW t \in Threads, Refuse(t) PROVE NoLostWakeup'
  BY <1>4 DEF Refuse
<1>5. ASSUME NEW t \in Threads, Park(t) PROVE NoLostWakeup'
  BY <1>5 DEF Park
<1>6. ASSUME NEW t \in Threads, Expire(t) PROVE NoLostWakeup'
  BY <1>6 DEF Expire
<1>7. ASSUME NEW t \in Threads, SpuriousWake(t) PROVE NoLostWakeup'
  BY <1>7 DEF SpuriousWake
<1>8. ASSUME NEW t \in Threads, Release(t) PROVE NoLostWakeup'
  BY <1>8 DEF Release
<1>9. ASSUME NEW t \in Threads, ReleaseUnlocked(t) PROVE NoLostWakeup'
  BY <1>9 DEF ReleaseUnlocked
<1>10. ASSUME NEW t \in Threads, NotifyOne(t) PROVE NoLostWakeup'
  BY <1>10 DEF NotifyOne
<1>11. ASSUME NEW t \in Threads, Return(t) PROVE NoLostWakeup'
  BY <1>11 DEF Return, Outcomes
<1> QED
  BY <1>1, <1>2, <1>3, <1>4, <1>5, <1>6, <1>7, <1>8, <1>9, <1>10, <1>11
  DEF Next

(* acquire_lock_state and release_lock_state: a parked thread of a free lock *)
(* is always on its way to being woken.                                      *)
THEOREM LockNoLostWakeup == Spec => []NoLostWakeup
<1>1. Init => NoLostWakeup
  BY DEF Init, NoLostWakeup, Parked
<1> QED
  BY <1>1, LockKeepsTypes, LockKeepsWakeups, LockTyping, PTL DEF Spec

(* acquire_lock_state takes the lock only when it finds the flag clear, so   *)
(* one holder is followed by another only through a release.                 *)
THEOREM LockHandover == Spec => HandoverOnlyThroughRelease
<1>1. TypeOK /\ [Next]_vars
      => [holder' # holder => holder = NoThread \/ holder' = NoThread]_vars
  BY DEF TypeOK, Next, vars, Call, Take, Refuse, Park, Expire, SpuriousWake,
         Release, ReleaseUnlocked, NotifyOne, Return
<1> QED
  BY <1>1, LockTyping, PTL DEF Spec, HandoverOnlyThroughRelease

(*************************************************************************)
(* Operators of Monitor                                                  *)
(*************************************************************************)

(* The instances speak of the same finite sets and cardinalities.            *)
LEMMA SameFiniteSets ==
  /\ \A S : Sem!IsFiniteSet(S) <=> IsFiniteSet(S)
  /\ \A S : Bar!IsFiniteSet(S) <=> IsFiniteSet(S)
  /\ \A S : Sem!Cardinality(S) = Cardinality(S)
  /\ \A S : Bar!Cardinality(S) = Cardinality(S)
<1>1. \A S : Sem!IsFiniteSet(S) <=> IsFiniteSet(S)
  BY DEF Sem!IsFiniteSet, IsFiniteSet
<1>2. \A S : Bar!IsFiniteSet(S) <=> IsFiniteSet(S)
  BY DEF Bar!IsFiniteSet, IsFiniteSet
<1>3. \A S : Sem!Cardinality(S) = Cardinality(S)
  BY DEF Sem!Cardinality, Cardinality
<1>4. \A S : Bar!Cardinality(S) = Cardinality(S)
  BY DEF Bar!Cardinality, Cardinality
<1> QED
  BY <1>1, <1>2, <1>3, <1>4

(* Waking a set of parked threads moves them from the parked to the woken.   *)
LEMMA WakeMoves ==
  ASSUME NEW st \in [Threads -> Sem!Stages], NEW W \in SUBSET Sem!ParkedIn(st)
  PROVE  /\ Sem!Wake(st, W) \in [Threads -> Sem!Stages]
         /\ Sem!ParkedIn(Sem!Wake(st, W)) = Sem!ParkedIn(st) \ W
         /\ Sem!WokenIn(Sem!Wake(st, W)) = Sem!WokenIn(st) \cup W
         /\ W \cap Sem!WokenIn(st) = {}
BY DEF Sem!Stages, Sem!ParkedIn, Sem!WokenIn, Sem!Wake

(* Two disjoint sets of threads have as many members together as apart.      *)
LEMMA DisjointUnion ==
  ASSUME NEW A \in SUBSET Threads, NEW B \in SUBSET Threads,
         A \cap B = {}, IsFiniteSet(Threads)
  PROVE  Cardinality(A \cup B) = Cardinality(A) + Cardinality(B)
<1>1. IsFiniteSet(A) /\ IsFiniteSet(B)
  BY FS_Subset
<1>2. Cardinality(A \cap B) = 0
  BY FS_EmptySet
<1>3. Cardinality(A) \in Nat /\ Cardinality(B) \in Nat
  BY <1>1, FS_CardinalityType
<1>4. Cardinality(A \cup B) = Cardinality(A) + Cardinality(B) - Cardinality(A \cap B)
  BY <1>1, FS_Union
<1> QED
  BY <1>2, <1>3, <1>4

(*************************************************************************)
(* Semaphore and BoundedSemaphore                                        *)
(*************************************************************************)

(* Every step of a semaphore keeps the count between zero and its bounds.    *)
LEMMA SemaphoreKeepsTypes ==
  Sem!TypeOK /\ [Sem!Next]_semVars => Sem!TypeOK'
<1> SUFFICES ASSUME Sem!TypeOK, [Sem!Next]_semVars PROVE Sem!TypeOK'
  OBVIOUS
<1>a. /\ MaxRelease \in Nat \ {0} /\ MaxInitial \in Nat /\ MaxValue \in Nat
      /\ MaxInitial <= MaxValue /\ NoLimit \notin Nat
  BY SynchronizersAssumption DEF Sem!SemaphoreAssumption
<1> USE <1>a DEF Sem!TypeOK, Sem!Stages
<1>1. CASE UNCHANGED semVars
  BY <1>1 DEF semVars
<1>b. ASSUME NEW t \in Threads, Sem!Grant(t) \/ Sem!GiveUp(t), UNCHANGED limit
      PROVE Sem!TypeOK'
  <2>1. UNCHANGED limit /\ (value' = value \/ (value > 0 /\ value' = value - 1))
    BY <1>b DEF Sem!Grant, Sem!GiveUp
  <2>2. Sem!Leave(t)
    BY <1>b DEF Sem!Grant, Sem!GiveUp
  <2> QED
    BY <2>1, <2>2 DEF Sem!Leave
<1>2. ASSUME NEW t \in Threads, Sem!Acquire(t) PROVE Sem!TypeOK'
  <2>1. CASE Sem!Grant(t) \/ Sem!GiveUp(t)
    BY <1>2, <1>b, <2>1 DEF Sem!Acquire
  <2>2. CASE Sem!Wait(t) /\ semTimed' \in {[semTimed EXCEPT ![t] = b] : b \in BOOLEAN}
    <3>1. semTimed' \in [Threads -> BOOLEAN]
      BY <2>2
    <3> QED
      BY <1>2, <2>2, <3>1 DEF Sem!Acquire, Sem!Wait
  <2> QED
    BY <1>2, <2>1, <2>2 DEF Sem!Acquire
<1>3. ASSUME NEW t \in Threads, Sem!Resume(t) PROVE Sem!TypeOK'
  <2>1. CASE Sem!Grant(t) \/ Sem!GiveUp(t)
    BY <1>3, <1>b, <2>1 DEF Sem!Resume
  <2>2. CASE Sem!Wait(t) /\ UNCHANGED semTimed
    BY <1>3, <2>2 DEF Sem!Resume, Sem!Wait
  <2> QED
    BY <1>3, <2>1, <2>2 DEF Sem!Resume
<1>4. ASSUME NEW t \in Threads, Sem!Timeout(t) \/ Sem!SpuriousWake(t)
      PROVE Sem!TypeOK'
  BY <1>4 DEF Sem!Timeout, Sem!SpuriousWake
<1>5. ASSUME NEW t \in Threads, NEW n \in 1 .. MaxRelease, Sem!Release(t, n)
      PROVE Sem!TypeOK'
  <2>1. CASE Sem!Refuse
    BY <1>5, <2>1 DEF Sem!Release, Sem!Refuse
  <2>2. CASE ~Sem!TooMany(n) /\ Sem!Permit(n)
    <3>1. PICK W \in Sem!NotifyChoices(semStage, n) : semStage' = Sem!Wake(semStage, W)
      BY <2>2 DEF Sem!Permit
    <3>2. semStage' \in [Threads -> Sem!Stages]
      BY <3>1, WakeMoves DEF Sem!NotifyChoices
    <3> QED
      BY <1>5, <2>2, <3>2 DEF Sem!Release, Sem!Permit, Sem!TooMany
  <2> QED
    BY <1>5, <2>1, <2>2 DEF Sem!Release
<1> QED
  BY <1>1, <1>2, <1>3, <1>4, <1>5 DEF Sem!Next

(* Every step of a semaphore keeps a woken thread for every permit while     *)
(* somebody is parked; a release(n) that leaves a thread parked has woken n. *)
LEMMA SemaphoreKeepsPermits ==
  Sem!TypeOK /\ Sem!NoLostPermit /\ [Sem!Next]_semVars => Sem!NoLostPermit'
<1> SUFFICES ASSUME Sem!TypeOK, Sem!NoLostPermit, [Sem!Next]_semVars
             PROVE  Sem!NoLostPermit'
  OBVIOUS
<1> DEFINE P == Sem!ParkedIn(semStage)
           W == Sem!WokenIn(semStage)
<1>a. /\ IsFiniteSet(Threads) /\ MaxInitial \in Nat /\ MaxValue \in Nat
      /\ MaxRelease \in Nat
  BY SynchronizersAssumption, SameFiniteSets DEF Sem!SemaphoreAssumption
<1>b. /\ semStage \in [Threads -> Sem!Stages] /\ DOMAIN semStage = Threads
      /\ value \in Nat
  BY <1>a DEF Sem!TypeOK
<1>c. semStage' \in [Threads -> Sem!Stages] /\ DOMAIN semStage' = Threads
  BY SemaphoreKeepsTypes DEF Sem!TypeOK
<1>d. IsFiniteSet(W) /\ Cardinality(W) \in Nat /\ IsFiniteSet(W')
      /\ Cardinality(W') \in Nat
  BY <1>a, <1>b, <1>c, FS_Subset, FS_CardinalityType DEF Sem!WokenIn
<1>e. Sem!NoLostPermit <=> (P # {} => value <= Cardinality(W))
  BY SameFiniteSets DEF Sem!NoLostPermit
<1>f. Sem!NoLostPermit' <=> (P' # {} => value' <= Cardinality(W'))
  BY SameFiniteSets DEF Sem!NoLostPermit
<1>1. CASE UNCHANGED semVars
  BY <1>1, <1>e, <1>f DEF semVars
<1>2. ASSUME value' = 0 PROVE Sem!NoLostPermit'
  BY <1>2, <1>d, <1>f
<1>3. ASSUME NEW t \in Threads, semStage[t] # "woken", Sem!Grant(t)
      PROVE Sem!NoLostPermit'
  <2>1. P' \subseteq P /\ W' = W
    BY <1>b, <1>3 DEF Sem!Grant, Sem!Leave, Sem!ParkedIn, Sem!WokenIn
  <2> QED
    BY <1>3, <1>b, <1>d, <1>e, <1>f, <2>1 DEF Sem!Grant
<1>4. ASSUME NEW t \in Threads, semStage[t] = "woken", Sem!Grant(t)
      PROVE Sem!NoLostPermit'
  <2>1. P' \subseteq P /\ W' = W \ {t} /\ t \in W
    BY <1>b, <1>4 DEF Sem!Grant, Sem!Leave, Sem!ParkedIn, Sem!WokenIn
  <2>2. Cardinality(W') = Cardinality(W) - 1
    BY <1>d, <2>1, FS_RemoveElement
  <2> QED
    BY <1>4, <1>b, <1>d, <1>e, <1>f, <2>1, <2>2 DEF Sem!Grant
<1>5. ASSUME NEW t \in Threads, Sem!Acquire(t) PROVE Sem!NoLostPermit'
  BY <1>5, <1>2, <1>3 DEF Sem!Acquire, Sem!GiveUp, Sem!Wait
<1>6. ASSUME NEW t \in Threads, Sem!Resume(t) PROVE Sem!NoLostPermit'
  BY <1>6, <1>2, <1>4 DEF Sem!Resume, Sem!GiveUp, Sem!Wait
<1>7. ASSUME NEW t \in Threads, Sem!Timeout(t) \/ Sem!SpuriousWake(t)
      PROVE Sem!NoLostPermit'
  <2>1. P' \subseteq P /\ W \subseteq W' /\ value' = value
    BY <1>b, <1>7
    DEF Sem!Timeout, Sem!SpuriousWake, Sem!ParkedIn, Sem!WokenIn
  <2>2. Cardinality(W) <= Cardinality(W')
    BY <1>d, <2>1, FS_Subset
  <2> QED
    BY <1>b, <1>d, <1>e, <1>f, <2>1, <2>2
<1>8. ASSUME NEW t \in Threads, NEW n \in 1 .. MaxRelease, Sem!Release(t, n)
      PROVE Sem!NoLostPermit'
  <2>1. CASE Sem!Refuse
    BY <2>1, <1>e, <1>f DEF Sem!Refuse
  <2>2. CASE Sem!Permit(n)
    <3>1. PICK V \in Sem!NotifyChoices(semStage, n) : semStage' = Sem!Wake(semStage, V)
      BY <2>2 DEF Sem!Permit
    <3>2. V \in SUBSET P /\ (Cardinality(V) = n \/ V = P)
      BY <3>1, SameFiniteSets DEF Sem!NotifyChoices
    <3>3. P' = P \ V /\ W' = W \cup V /\ V \cap W = {}
      BY <1>b, <3>1, <3>2, WakeMoves
    <3>4. Cardinality(W') = Cardinality(W) + Cardinality(V)
      BY <1>a, <1>b, <3>2, <3>3, DisjointUnion DEF Sem!ParkedIn, Sem!WokenIn
    <3> QED
      BY <1>a, <1>b, <1>d, <1>e, <1>f, <2>2, <3>2, <3>3, <3>4 DEF Sem!Permit
  <2> QED
    BY <1>8, <2>1, <2>2 DEF Sem!Release
<1> QED
  BY <1>1, <1>5, <1>6, <1>7, <1>8 DEF Sem!Next

(*************************************************************************)
(* Event                                                                 *)
(*************************************************************************)

(* Every step of an event keeps its waiters off the queue while the flag is  *)
(* set: set wakes them all, and wait parks nobody who finds it set.          *)
LEMMA EventKeepsTypes == Ev!TypeOK /\ [Ev!Next]_evVars => Ev!TypeOK'
<1> SUFFICES ASSUME Ev!TypeOK, [Ev!Next]_evVars PROVE Ev!TypeOK'
  OBVIOUS
<1> USE DEF Ev!TypeOK, Ev!Stages, Ev!ParkedIn
<1>1. CASE UNCHANGED evVars
  BY <1>1 DEF evVars
<1>2. ASSUME NEW t \in Threads, Ev!Set(t) \/ Ev!Clear(t) PROVE Ev!TypeOK'
  BY <1>2 DEF Ev!Set, Ev!Clear, Ev!WakeParked, Ev!Wake
<1>3. ASSUME NEW t \in Threads, Ev!Wait(t) PROVE Ev!TypeOK'
  <2>1. CASE (flag /\ Ev!Finish(t, "true")) \/ (~flag /\ Ev!Finish(t, "false"))
    BY <1>3, <2>1 DEF Ev!Wait, Ev!Finish
  <2>2. CASE /\ ~flag /\ Ev!Park(t) /\ UNCHANGED evExpired
             /\ evTimed' \in {[evTimed EXCEPT ![t] = b] : b \in BOOLEAN}
    <3>1. evTimed' \in [Threads -> BOOLEAN]
      BY <2>2
    <3> QED
      BY <1>3, <2>2, <3>1 DEF Ev!Wait, Ev!Park
  <2> QED
    BY <1>3, <2>1, <2>2 DEF Ev!Wait
<1>4. ASSUME NEW t \in Threads, Ev!Resume(t) PROVE Ev!TypeOK'
  <2>1. CASE Ev!Finish(t, "true") \/ Ev!Finish(t, "false")
    BY <1>4, <2>1 DEF Ev!Resume, Ev!Finish
  <2>2. CASE ~flag /\ Ev!Park(t) /\ UNCHANGED <<evTimed, evExpired>>
    BY <1>4, <2>2 DEF Ev!Resume, Ev!Park
  <2> QED
    BY <1>4, <2>1, <2>2 DEF Ev!Resume
<1>5. ASSUME NEW t \in Threads, Ev!Timeout(t) PROVE Ev!TypeOK'
  BY <1>5 DEF Ev!Timeout
<1>6. ASSUME NEW t \in Threads, Ev!SpuriousWake(t) PROVE Ev!TypeOK'
  BY <1>6 DEF Ev!SpuriousWake
<1> QED
  BY <1>1, <1>2, <1>3, <1>4, <1>5, <1>6 DEF Ev!Next

(*************************************************************************)
(* Barrier                                                               *)
(*************************************************************************)

(* Bar!TypeOK is not inductive.  A thread that is outside is at the start of *)
(* wait.  While the barrier fills nobody inside has passed, the indices      *)
(* handed out are below the count and there is room for one more; while it   *)
(* drains exactly those inside have passed; and it is only emptied while     *)
(* there is somebody inside.                                                 *)
BarrierPhases ==
  /\ \A t \in Threads : barStage[t] = "out" => place[t] = "enter"
  /\ barState = "Filling" =>
       /\ passed = {} /\ count < parties
       /\ \A t \in Bar!Inside : index[t] < count
  /\ barState = "Draining" => passed = Bar!Inside
  /\ barState \in Bar!Emptying => count > 0

BarrierInv == Bar!TypeOK /\ BarrierPhases

(* The count is a number, that of the threads in _wait.                      *)
LEMMA BarrierCounts ==
  ASSUME BarrierInv
  PROVE  /\ IsFiniteSet(Bar!Inside) /\ Bar!Inside \subseteq Threads
         /\ count = Cardinality(Bar!Inside) /\ count \in Nat
         /\ parties \in Nat \ {0}
         /\ Bar!Inside = {t \in Threads : place[t] = "wait"}
<1>1. IsFiniteSet(Threads) /\ MaxParties \in Nat
  BY SynchronizersAssumption, SameFiniteSets DEF Bar!BarrierAssumption
<1>2. Bar!Inside = {t \in Threads : place[t] = "wait"}
  BY DEF BarrierInv, BarrierPhases, Bar!Inside
<1>3. IsFiniteSet(Bar!Inside) /\ Cardinality(Bar!Inside) \in Nat
  BY <1>1, <1>2, FS_Subset, FS_CardinalityType
<1>4. count = Cardinality(Bar!Inside) /\ parties \in 1 .. MaxParties
  BY SameFiniteSets DEF BarrierInv, Bar!TypeOK
<1> QED
  BY <1>1, <1>2, <1>3, <1>4

(* A thread that leaves wait, having been counted, with the others as in st: *)
(* _exit keeps the count and announces the end of an emptied round.          *)
LEMMA BarrierExit ==
  ASSUME BarrierInv, NEW t \in Threads, NEW s \in Bar!States \ {"Filling"},
         NEW st \in [Threads -> Bar!Stages], NEW o \in {"index", "broken"},
         NEW n, n = Cardinality(Bar!Inside \cup {t}),
         \A u \in Threads : st[u] = "out" <=> barStage[u] = "out",
         \A u \in Threads : st[u] = "parked" => place[u] = "enter" /\ s \in Bar!Emptying,
         Bar!Exit(t, s, n, st, o),
         UNCHANGED parties, rounds' \in 0 .. MaxRounds,
         passed' \subseteq Bar!Inside \ {t},
         s = "Draining" => passed' = Bar!Inside \ {t}
  PROVE  BarrierInv'
<1> DEFINE st2 == IF Bar!Empties(s, n - 1) THEN Bar!WakeParked(st) ELSE st
<1>1. st2 \in [Threads -> Bar!Stages] /\ \A u \in Threads : st2[u] = "out" <=> st[u] = "out"
  BY DEF Bar!WakeParked, Bar!Wake, Bar!ParkedIn, Bar!Stages
<1>2. \A u \in Threads : st2[u] = "parked" => st[u] = "parked" /\ ~Bar!Empties(s, n - 1)
  BY DEF Bar!WakeParked, Bar!Wake, Bar!ParkedIn
<1> HIDE DEF st2
<1>3. /\ count' = n - 1
      /\ barState' = IF Bar!Empties(s, n - 1) THEN "Filling" ELSE s
      /\ barStage' = [st2 EXCEPT ![t] = "out"] /\ place' = [place EXCEPT ![t] = "enter"]
      /\ index' = [index EXCEPT ![t] = 0] /\ deadline' = [deadline EXCEPT ![t] = "none"]
      /\ barResult' = [barResult EXCEPT ![t] = o]
  BY DEF Bar!Exit, Bar!Leave, Bar!AfterExit, Bar!Empties, st2
<1>4. /\ barStage \in [Threads -> Bar!Stages] /\ place \in [Threads -> {"enter", "wait"}]
      /\ index \in [Threads -> 0 .. parties - 1] /\ deadline \in [Threads -> Bar!Deadlines]
      /\ barResult \in [Threads -> {"none", "index", "broken"}]
      /\ parties \in 1 .. MaxParties
      /\ Bar!IndicesDistinct
      /\ \A u \in Threads : barStage[u] = "out" => place[u] = "enter"
  BY DEF BarrierInv, Bar!TypeOK, BarrierPhases
<1>5. \A u \in Threads : barStage'[u] = "out" => place'[u] = "enter"
  BY <1>1, <1>3, <1>4
<1>6. Bar!Inside' = Bar!Inside \ {t}
  BY <1>1, <1>3, <1>4 DEF Bar!Inside, Bar!Stages
<1>7. count' = Cardinality(Bar!Inside') /\ count' \in Nat
  <2>1. IsFiniteSet(Bar!Inside \cup {t})
    BY BarrierCounts, FS_AddElement
  <2>2. Cardinality((Bar!Inside \cup {t}) \ {t}) = n - 1
    BY <2>1, FS_RemoveElement
  <2>3. (Bar!Inside \cup {t}) \ {t} = Bar!Inside \ {t}
    OBVIOUS
  <2>4. Cardinality(Bar!Inside \ {t}) \in Nat
    BY BarrierCounts, FS_RemoveElement, FS_CardinalityType
  <2> QED
    BY <1>3, <1>6, <2>2, <2>3, <2>4
<1>8. parties - 1 \in Nat /\ 0 \in 0 .. parties - 1
  BY <1>4, BarrierCounts
<1>9. Bar!IndicesDistinct'
  BY <1>3, <1>4, <1>6 DEF Bar!IndicesDistinct, Bar!Inside
<1>10. Bar!ParkedForAReason'
  <2> SUFFICES ASSUME NEW u \in Threads, barStage'[u] = "parked"
               PROVE  place'[u] = "enter" /\ barState' \in Bar!Emptying
    BY <1>1, <1>3 DEF Bar!ParkedForAReason, Bar!ParkedIn
  <2>1. u # t /\ st[u] = "parked" /\ ~Bar!Empties(s, n - 1)
    BY <1>1, <1>2, <1>3 DEF Bar!Stages
  <2> QED
    BY <1>3, <1>4, <2>1
<1>11. Bar!TypeOK'
  BY <1>1, <1>3, <1>4, <1>6, <1>7, <1>8, <1>9, <1>10, SameFiniteSets
  DEF Bar!TypeOK, Bar!Stages, Bar!States, Bar!Deadlines
<1>12. CASE Bar!Empties(s, n - 1)
  <2>1. count' = 0 /\ barState' = "Filling"
    BY <1>3, <1>12 DEF Bar!Empties
  <2>2. Bar!Inside' = {}
    BY <1>6, <1>7, <2>1, BarrierCounts, FS_RemoveElement, FS_EmptySet
  <2>3. passed' = {} /\ count' < parties'
    BY <1>6, <1>8, <2>1, <2>2, BarrierCounts
  <2> QED
    BY <1>5, <1>11, <2>1, <2>2, <2>3 DEF BarrierInv, BarrierPhases, Bar!Emptying
<1>13. CASE ~Bar!Empties(s, n - 1)
  <2>1. barState' = s /\ s # "Filling"
    BY <1>3, <1>13
  <2>2. s \in Bar!Emptying => count' > 0
    <3>1. s \in Bar!Emptying => count' # 0
      BY <1>3, <1>13 DEF Bar!Empties
    <3>2. count' \in Nat
      BY <1>7
    <3> QED
      BY <3>1, <3>2
  <2>3. s = "Draining" => passed' = Bar!Inside'
    BY <1>6
  <2> QED
    BY <1>5, <1>11, <2>1, <2>2, <2>3 DEF BarrierInv, BarrierPhases
<1> QED
  BY <1>12, <1>13

(* A thread that arrives or is refused in _enter, whatever it finds there.   *)
LEMMA BarrierEnter ==
  ASSUME BarrierInv, NEW t \in Threads, place[t] = "enter",
         NEW d \in Bar!Deadlines, Bar!Enter(t, d), UNCHANGED parties
  PROVE  BarrierInv'
<1>1. /\ barStage \in [Threads -> Bar!Stages] /\ place \in [Threads -> {"enter", "wait"}]
      /\ index \in [Threads -> 0 .. parties - 1] /\ deadline \in [Threads -> Bar!Deadlines]
      /\ barResult \in [Threads -> {"none", "index", "broken"}]
      /\ parties \in 1 .. MaxParties /\ passed \subseteq Bar!Inside
      /\ rounds \in 0 .. MaxRounds
      /\ Bar!IndicesDistinct /\ Bar!ParkedForAReason
      /\ \A u \in Threads : barStage[u] = "out" => place[u] = "enter"
  BY DEF BarrierInv, Bar!TypeOK, BarrierPhases
<1>2. t \notin Bar!Inside
  BY DEF Bar!Inside
<1>3. count + 1 = Cardinality(Bar!Inside \cup {t})
  BY <1>2, BarrierCounts, FS_AddElement
<1>4. MaxRounds \in Nat
  BY SynchronizersAssumption DEF Bar!BarrierAssumption
<1> DEFINE woken == Bar!WakeParked(barStage)
<1>5. /\ woken \in [Threads -> Bar!Stages]
      /\ \A u \in Threads : (woken[u] = "out" <=> barStage[u] = "out") /\ woken[u] # "parked"
  BY <1>1 DEF Bar!WakeParked, Bar!Wake, Bar!ParkedIn, Bar!Stages
<1> HIDE DEF woken
<1>6. CASE barState = "Filling" /\ count + 1 = parties /\ Bar!Trip(t)
  <2>1. passed = {}
    BY <1>6 DEF BarrierInv, BarrierPhases
  <2>2. CASE /\ rounds < MaxRounds /\ rounds' = rounds + 1
             /\ passed' = passed \cup Bar!Inside
             /\ Bar!Exit(t, "Draining", count + 1, woken, "index")
    <3>1. passed' = Bar!Inside \ {t}
      BY <1>2, <2>1, <2>2
    <3>2. rounds' \in 0 .. MaxRounds
      BY <1>1, <1>4, <2>2
    <3>3. "Draining" \in Bar!States \ {"Filling"}
      BY DEF Bar!States
    <3> QED
      BY <1>3, <1>5, <2>2, <3>1, <3>2, <3>3, BarrierExit
  <2>3. CASE Bar!Break(t, count + 1) /\ UNCHANGED <<rounds, passed>>
    <3>1. "Broken" \in Bar!States \ {"Filling"} /\ passed' \subseteq Bar!Inside \ {t}
      BY <1>1, <1>2, <2>3 DEF Bar!States
    <3> QED
      BY <1>1, <1>3, <1>5, <2>3, <3>1, BarrierExit DEF Bar!Break, woken
  <2> QED
    BY <1>6, <2>2, <2>3 DEF Bar!Trip, woken
<1>7. CASE /\ barState = "Filling" /\ Bar!Break(t, count + 1)
           /\ UNCHANGED <<rounds, passed>>
  <2>1. "Broken" \in Bar!States \ {"Filling"} /\ passed' \subseteq Bar!Inside \ {t}
    BY <1>1, <1>2, <1>7 DEF Bar!States
  <2> QED
    BY <1>1, <1>3, <1>5, <1>7, <2>1, BarrierExit DEF Bar!Break, woken
<1>8. CASE barState = "Filling" /\ count + 1 # parties /\ Bar!ParkInWait(t, d)
  <2>1. /\ count' = count + 1 /\ index' = [index EXCEPT ![t] = count]
        /\ barStage' = [barStage EXCEPT ![t] = "parked"]
        /\ place' = [place EXCEPT ![t] = "wait"]
        /\ deadline' = [deadline EXCEPT ![t] = d]
        /\ UNCHANGED <<barState, barResult, rounds, passed, parties>>
    BY <1>8 DEF Bar!ParkInWait
  <2>2. passed = {} /\ count < parties /\ \A u \in Bar!Inside : index[u] < count
    BY <1>8 DEF BarrierInv, BarrierPhases
  <2>3. Bar!Inside' = Bar!Inside \cup {t}
    BY <1>1, <2>1 DEF Bar!Inside
  <2>4. count \in 0 .. parties - 1 /\ count' < parties /\ count' \in Nat
    BY <1>1, <1>8, <2>1, <2>2, BarrierCounts
  <2>5. \A u \in Bar!Inside : u # t /\ u \in Threads /\ index[u] \in Nat /\ index[u] < count
    BY <1>1, <1>2, <2>2 DEF Bar!Inside
  <2>6. Bar!IndicesDistinct'
    BY <1>1, <2>1, <2>3, <2>5, BarrierCounts DEF Bar!IndicesDistinct
  <2>7. Bar!ParkedForAReason'
    BY <1>1, <1>8, <2>1 DEF Bar!ParkedForAReason, Bar!ParkedIn
  <2>8. Bar!TypeOK'
    BY <1>1, <1>3, <1>8, <2>1, <2>2, <2>3, <2>4, <2>6, <2>7, SameFiniteSets
    DEF Bar!TypeOK, Bar!Stages, Bar!States, Bar!Deadlines
  <2>9. \A u \in Bar!Inside' : index'[u] < count'
    BY <1>1, <2>1, <2>3, <2>5, BarrierCounts
  <2> QED
    BY <1>1, <1>8, <2>1, <2>2, <2>4, <2>8, <2>9
    DEF BarrierInv, BarrierPhases, Bar!Emptying
<1>9. CASE /\ barState \in Bar!Emptying
           /\ barStage' = [barStage EXCEPT ![t] = "parked"]
           /\ deadline' = [deadline EXCEPT ![t] = d]
           /\ UNCHANGED <<barState, count, place, index, barResult, rounds, passed>>
  <2>1. Bar!Inside' = Bar!Inside
    BY <1>1, <1>9 DEF Bar!Inside
  <2>2. Bar!ParkedForAReason'
    BY <1>1, <1>9 DEF Bar!ParkedForAReason, Bar!ParkedIn
  <2>3. Bar!TypeOK'
    BY <1>1, <1>9, <2>1, <2>2 DEF BarrierInv, Bar!TypeOK, Bar!Stages, Bar!IndicesDistinct
  <2> QED
    BY <1>1, <1>9, <2>1, <2>3 DEF BarrierInv, BarrierPhases
<1>10. CASE /\ barState = "Broken" /\ Bar!Leave(t, barStage, "broken")
            /\ UNCHANGED <<barState, count, rounds, passed>>
  <2>0. /\ barStage' = [barStage EXCEPT ![t] = "out"] /\ place' = [place EXCEPT ![t] = "enter"]
        /\ index' = [index EXCEPT ![t] = 0] /\ deadline' = [deadline EXCEPT ![t] = "none"]
        /\ barResult' = [barResult EXCEPT ![t] = "broken"]
    BY <1>10 DEF Bar!Leave
  <2>1. Bar!Inside' = Bar!Inside
    BY <1>1, <2>0 DEF Bar!Inside
  <2>2. Bar!ParkedForAReason'
    BY <1>1, <1>10, <2>0 DEF Bar!ParkedForAReason, Bar!ParkedIn
  <2>3. Bar!IndicesDistinct'
    BY <1>1, <1>2, <2>0, <2>1 DEF Bar!IndicesDistinct, Bar!Inside
  <2>4. 0 \in 0 .. parties - 1
    BY BarrierCounts
  <2>5. Bar!TypeOK'
    BY <1>1, <1>10, <2>0, <2>1, <2>2, <2>3, <2>4
    DEF BarrierInv, Bar!TypeOK, Bar!Stages, Bar!Deadlines
  <2> QED
    BY <1>1, <1>10, <2>0, <2>1, <2>5 DEF BarrierInv, BarrierPhases, Bar!Emptying
<1> QED
  BY <1>6, <1>7, <1>8, <1>9, <1>10
  DEF Bar!Enter, Bar!Arrive, Bar!Enters, Bar!shared

(* Every step of a barrier keeps its count, its indices and its phases.      *)
LEMMA BarrierKeepsCounts == BarrierInv /\ [Bar!Next]_barVars => BarrierInv'
<1> SUFFICES ASSUME BarrierInv, [Bar!Next]_barVars PROVE BarrierInv'
  OBVIOUS
<1>a. /\ barStage \in [Threads -> Bar!Stages] /\ place \in [Threads -> {"enter", "wait"}]
      /\ index \in [Threads -> 0 .. parties - 1] /\ deadline \in [Threads -> Bar!Deadlines]
      /\ barResult \in [Threads -> {"none", "index", "broken"}]
      /\ parties \in 1 .. MaxParties /\ passed \subseteq Bar!Inside
      /\ rounds \in 0 .. MaxRounds /\ barState \in Bar!States
      /\ Bar!IndicesDistinct /\ Bar!ParkedForAReason
      /\ \A u \in Threads : barStage[u] = "out" => place[u] = "enter"
  BY DEF BarrierInv, Bar!TypeOK, BarrierPhases
<1> DEFINE woken == Bar!WakeParked(barStage)
<1>b. /\ woken \in [Threads -> Bar!Stages]
      /\ \A u \in Threads : (woken[u] = "out" <=> barStage[u] = "out") /\ woken[u] # "parked"
  BY <1>a DEF Bar!WakeParked, Bar!Wake, Bar!ParkedIn, Bar!Stages
<1> HIDE DEF woken
<1>c. ASSUME UNCHANGED <<parties, count, place, index, barResult, rounds, passed>>,
             barStage' \in [Threads -> Bar!Stages],
             deadline' \in [Threads -> Bar!Deadlines],
             barState' \in Bar!States,
             \A u \in Threads : barStage'[u] = "out" <=> barStage[u] = "out",
             Bar!ParkedForAReason', BarrierPhases'
      PROVE  BarrierInv'
  <2>1. Bar!Inside' = Bar!Inside
    BY <1>a, <1>c DEF Bar!Inside
  <2> QED
    BY <1>a, <1>c, <2>1 DEF BarrierInv, Bar!TypeOK, Bar!IndicesDistinct
<1>d. ASSUME UNCHANGED <<count, place, index, passed, parties>>,
             \A u \in Threads : barStage'[u] = "out" <=> barStage[u] = "out",
             barState' = barState \/ barState' = "Broken"
               \/ (barState' = "Resetting" /\ count > 0)
               \/ (barState' = "Filling" /\ count = 0)
      PROVE  BarrierPhases'
  <2>1. Bar!Inside' = Bar!Inside
    BY <1>a, <1>d DEF Bar!Inside
  <2>2. count = 0 => Bar!Inside = {} /\ passed = {}
    BY <1>a, BarrierCounts, FS_EmptySet
  <2> QED
    BY <1>a, <1>d, <2>1, <2>2, BarrierCounts DEF BarrierInv, BarrierPhases, Bar!Emptying
<1>1. CASE UNCHANGED barVars
  BY <1>1 DEF barVars, BarrierInv, BarrierPhases, Bar!TypeOK, Bar!Inside,
              Bar!IndicesDistinct, Bar!ParkedForAReason
<1>2. ASSUME NEW t \in Threads, Bar!Wait(t) PROVE BarrierInv'
  <2>1. PICK d \in Bar!Deadlines : Bar!Enter(t, d) /\ UNCHANGED parties
    BY <1>2 DEF Bar!Wait
  <2>2. place[t] = "enter"
    BY <1>2, <1>a DEF Bar!Wait
  <2> QED
    BY <2>1, <2>2, BarrierEnter
<1>3. ASSUME NEW t \in Threads, Bar!ResumeEnter(t) PROVE BarrierInv'
  <2>1. deadline[t] \in Bar!Deadlines
    BY <1>a
  <2> QED
    BY <1>3, <2>1, BarrierEnter DEF Bar!ResumeEnter
<1>4. ASSUME NEW t \in Threads, Bar!ResumeWait(t) PROVE BarrierInv'
  <2>1. /\ t \in Bar!Inside /\ barStage[t] = "woken" /\ place[t] = "wait"
        /\ passed' = IF barStage'[t] = "out" THEN passed \ {t} ELSE passed
        /\ UNCHANGED <<parties, rounds>>
    BY <1>4 DEF Bar!ResumeWait, Bar!Inside
  <2>2. count = Cardinality(Bar!Inside \cup {t})
    <3>1. Bar!Inside \cup {t} = Bar!Inside
      BY <2>1
    <3> QED
      BY <3>1, BarrierCounts
  <2>3. ASSUME NEW s \in Bar!States, NEW n, NEW st \in [Threads -> Bar!Stages], NEW o,
               Bar!Exit(t, s, n, st, o)
        PROVE  passed' = passed \ {t}
    <3>1. barStage'[t] = "out"
      BY <2>3 DEF Bar!Exit, Bar!Leave, Bar!WakeParked, Bar!Wake
    <3> QED
      BY <2>1, <3>1
  <2>4. CASE barState \in {"Draining", "Resetting", "Broken"}
    <3>1. PICK o \in {"index", "broken"} : Bar!Exit(t, barState, count, barStage, o)
      BY <1>4, <2>4 DEF Bar!ResumeWait
    <3>2. passed' = passed \ {t} /\ passed' \subseteq Bar!Inside \ {t}
      BY <1>a, <2>3, <3>1
    <3>3. barState = "Draining" => passed' = Bar!Inside \ {t}
      BY <3>2 DEF BarrierInv, BarrierPhases
    <3>4. \A u \in Threads : barStage[u] = "parked"
            => place[u] = "enter" /\ barState \in Bar!Emptying
      BY <1>a, <2>4 DEF Bar!ParkedForAReason, Bar!ParkedIn
    <3>5. barState \in Bar!States \ {"Filling"} /\ rounds' \in 0 .. MaxRounds
      BY <1>a, <2>1, <2>4
    <3> QED
      BY <1>a, <2>1, <2>2, <3>1, <3>2, <3>3, <3>4, <3>5, BarrierExit
  <2>5. CASE barState = "Filling" /\ Bar!Break(t, count)
    <3>1. Bar!Exit(t, "Broken", count, woken, "broken")
      BY <2>5 DEF Bar!Break, woken
    <3>2. "Broken" \in Bar!States \ {"Filling"} /\ rounds' \in 0 .. MaxRounds
      BY <1>a, <2>1 DEF Bar!States
    <3>3. passed' \subseteq Bar!Inside \ {t}
      BY <1>a, <1>b, <2>3, <3>1, <3>2
    <3> QED
      BY <1>b, <2>1, <2>2, <3>1, <3>2, <3>3, BarrierExit
  <2>6. CASE /\ barState = "Filling"
             /\ barStage' = [barStage EXCEPT ![t] = "parked"]
             /\ UNCHANGED <<barState, count, place, index, deadline, barResult>>
    <3>1. barStage' \in [Threads -> Bar!Stages] /\ UNCHANGED passed
      BY <1>a, <2>1, <2>6 DEF Bar!Stages
    <3>2. \A u \in Threads : barStage'[u] = "out" <=> barStage[u] = "out"
      BY <1>a, <2>1, <2>6
    <3>3. Bar!ParkedForAReason'
      BY <1>a, <2>1, <2>6 DEF Bar!ParkedForAReason, Bar!ParkedIn
    <3> QED
      BY <1>a, <1>c, <1>d, <2>1, <2>6, <3>1, <3>2, <3>3
  <2> QED
    BY <1>4, <1>a, <2>4, <2>5, <2>6
    DEF Bar!ResumeWait, Bar!States, Bar!shared, Bar!local
<1>5. ASSUME NEW t \in Threads, Bar!Timeout(t) \/ Bar!SpuriousWake(t)
      PROVE BarrierInv'
  <2>1. /\ barStage' = [barStage EXCEPT ![t] = "woken"] /\ barStage[t] # "out"
        /\ UNCHANGED <<barState, count, parties, place, index, barResult, rounds, passed>>
        /\ deadline' \in [Threads -> Bar!Deadlines]
    BY <1>5, <1>a
    DEF Bar!Timeout, Bar!SpuriousWake, Bar!Inside, Bar!shared, Bar!local, Bar!Deadlines
  <2>2. barStage' \in [Threads -> Bar!Stages]
    BY <1>a, <2>1 DEF Bar!Stages
  <2>3. \A u \in Threads : barStage'[u] = "out" <=> barStage[u] = "out"
    BY <1>a, <2>1
  <2>4. Bar!ParkedForAReason'
    BY <1>a, <2>1 DEF Bar!ParkedForAReason, Bar!ParkedIn
  <2> QED
    BY <1>a, <1>c, <1>d, <2>1, <2>2, <2>3, <2>4
<1>6. ASSUME NEW t \in Threads, Bar!Reset(t) \/ Bar!Abort(t) PROVE BarrierInv'
  <2>1. UNCHANGED <<parties, count, place, index, deadline, barResult, rounds, passed>>
    BY <1>6 DEF Bar!Reset, Bar!Abort, Bar!local
  <2>2. CASE count = 0 /\ barState' = "Filling" /\ barStage' = barStage
    <3>1. barState \notin Bar!Emptying
      BY <2>2 DEF BarrierInv, BarrierPhases
    <3>2. Bar!ParkedForAReason'
      BY <1>a, <2>1, <2>2, <3>1 DEF Bar!ParkedForAReason, Bar!ParkedIn
    <3>3. barState' \in Bar!States
      BY <2>2 DEF Bar!States
    <3> QED
      BY <1>a, <1>c, <1>d, <2>1, <2>2, <3>2, <3>3
  <2>3. CASE /\ barStage' = woken
             /\ barState' \in Bar!States
             /\ barState' = barState \/ barState' = "Broken"
                  \/ (barState' = "Resetting" /\ count > 0)
    <3>1. Bar!ParkedForAReason'
      BY <1>b, <2>3 DEF Bar!ParkedForAReason, Bar!ParkedIn
    <3> QED
      BY <1>a, <1>b, <1>c, <1>d, <2>1, <2>3, <3>1
  <2> QED
    BY <1>6, <1>a, <2>2, <2>3, BarrierCounts DEF Bar!Reset, Bar!Abort, Bar!States, woken
<1> QED
  BY <1>1, <1>2, <1>3, <1>4, <1>5, <1>6 DEF Bar!Next

(* Every step that completes a round has all the other parties of that round *)
(* inside, and a waiter takes an index home only from its own round.         *)
LEMMA BarrierPassesFullRounds ==
  BarrierInv /\ [Bar!Next]_barVars =>
    [/\ rounds' > rounds => Bar!Cardinality(Bar!Inside \ passed) = parties - 1
     /\ \A t \in Bar!Inside :
          (barStage'[t] = "out" /\ barResult'[t] = "index") => t \in passed]_(Bar!vars)
<1> SUFFICES ASSUME BarrierInv, Bar!Next
             PROVE  /\ rounds' > rounds => Cardinality(Bar!Inside \ passed) = parties - 1
                    /\ \A t \in Bar!Inside :
                         (barStage'[t] = "out" /\ barResult'[t] = "index") => t \in passed
  BY SameFiniteSets DEF barVars, Bar!vars, Bar!shared, Bar!local
<1>a. /\ barStage \in [Threads -> Bar!Stages] /\ place \in [Threads -> {"enter", "wait"}]
      /\ barResult \in [Threads -> {"none", "index", "broken"}]
      /\ rounds \in Nat /\ barState \in Bar!States
      /\ \A u \in Threads : barStage[u] = "out" => place[u] = "enter"
  BY DEF BarrierInv, Bar!TypeOK, BarrierPhases
<1>b. \A u \in Bar!Inside : u \in Threads /\ barStage[u] # "out" /\ place[u] = "wait"
  BY DEF Bar!Inside
<1>c. ASSUME NEW st \in [Threads -> Bar!Stages],
             \A u \in Threads : st[u] = "out" <=> barStage[u] = "out"
      PROVE  /\ Bar!WakeParked(st) \in [Threads -> Bar!Stages]
             /\ \A u \in Threads : Bar!WakeParked(st)[u] = "out" <=> barStage[u] = "out"
  BY <1>c DEF Bar!WakeParked, Bar!Wake, Bar!ParkedIn, Bar!Stages
<1>d. ASSUME NEW t \in Threads, NEW st \in [Threads -> Bar!Stages], NEW s, NEW n, NEW o,
             \A u \in Threads : st[u] = "out" <=> barStage[u] = "out",
             Bar!Exit(t, s, n, st, o)
      PROVE  /\ \A u \in Bar!Inside \ {t} : barStage'[u] # "out"
             /\ barResult'[t] = o
  <2>1. PICK st2 \in [Threads -> Bar!Stages] :
          /\ \A u \in Threads : st2[u] = "out" <=> barStage[u] = "out"
          /\ barStage' = [st2 EXCEPT ![t] = "out"]
    BY <1>c, <1>d DEF Bar!Exit, Bar!Leave
  <2> QED
    BY <1>a, <1>b, <1>d, <2>1 DEF Bar!Exit, Bar!Leave
<1>e. ASSUME NEW t \in Threads, NEW d \in Bar!Deadlines, place[t] = "enter", Bar!Enter(t, d)
      PROVE  /\ rounds' > rounds => Cardinality(Bar!Inside \ passed) = parties - 1
             /\ \A u \in Bar!Inside : barStage'[u] # "out"
  <2>1. \A u \in Bar!Inside : u # t
    BY <1>b, <1>e
  <2>2. rounds' = rounds \/ (rounds' = rounds + 1 /\ barState = "Filling" /\ count + 1 = parties)
    BY <1>e DEF Bar!Enter, Bar!Enters, Bar!Arrive, Bar!Trip, Bar!ParkInWait
  <2>3. rounds' > rounds => Cardinality(Bar!Inside \ passed) = parties - 1
    <3> SUFFICES ASSUME rounds' > rounds PROVE Cardinality(Bar!Inside \ passed) = parties - 1
      OBVIOUS
    <3>1. barState = "Filling" /\ count + 1 = parties
      BY <1>a, <2>2
    <3>2. passed = {}
      BY <3>1 DEF BarrierInv, BarrierPhases
    <3> QED
      BY <3>1, <3>2, BarrierCounts
  <2>4. CASE \E s, n, o : Bar!Exit(t, s, n, Bar!WakeParked(barStage), o)
    BY <1>a, <1>c, <1>d, <2>1, <2>3, <2>4
  <2>5. CASE barStage' = [barStage EXCEPT ![t] = "parked"] \/ barStage' = [barStage EXCEPT ![t] = "out"]
    BY <1>a, <1>b, <2>1, <2>3, <2>5
  <2> QED
    BY <1>e, <2>4, <2>5
    DEF Bar!Enter, Bar!Arrive, Bar!Trip, Bar!Break, Bar!ParkInWait, Bar!Leave
<1>1. ASSUME NEW t \in Threads, Bar!Wait(t) \/ Bar!ResumeEnter(t)
      PROVE  /\ rounds' > rounds => Cardinality(Bar!Inside \ passed) = parties - 1
             /\ \A u \in Bar!Inside : barStage'[u] # "out"
  <2>1. place[t] = "enter" /\ \E d \in Bar!Deadlines : Bar!Enter(t, d)
    BY <1>1, <1>a DEF Bar!Wait, Bar!ResumeEnter, BarrierInv, Bar!TypeOK
  <2> QED
    BY <1>e, <2>1
<1>2. ASSUME NEW t \in Threads, Bar!ResumeWait(t)
      PROVE  /\ rounds' = rounds
             /\ \A u \in Bar!Inside :
                  (barStage'[u] = "out" /\ barResult'[u] = "index") => u \in passed
  <2>0. rounds' = rounds /\ t \in Bar!Inside
    BY <1>2 DEF Bar!ResumeWait, Bar!Inside
  <2>1. CASE barState = "Draining" /\ Bar!Exit(t, barState, count, barStage, "index")
    BY <1>a, <1>d, <2>0, <2>1 DEF BarrierInv, BarrierPhases
  <2>2. CASE Bar!Exit(t, barState, count, barStage, "broken") \/ Bar!Break(t, count)
    BY <1>a, <1>c, <1>d, <2>0, <2>2 DEF Bar!Break
  <2>3. CASE barStage' = [barStage EXCEPT ![t] = "parked"]
    BY <1>a, <1>b, <2>0, <2>3
  <2> QED
    BY <1>2, <2>1, <2>2, <2>3 DEF Bar!ResumeWait
<1>3. ASSUME NEW t \in Threads,
             Bar!Timeout(t) \/ Bar!SpuriousWake(t) \/ Bar!Reset(t) \/ Bar!Abort(t)
      PROVE  rounds' = rounds /\ \A u \in Bar!Inside : barStage'[u] # "out"
  <2>1. rounds' = rounds
    BY <1>3 DEF Bar!Timeout, Bar!SpuriousWake, Bar!Reset, Bar!Abort
  <2>2. \/ barStage' = [barStage EXCEPT ![t] = "woken"]
        \/ barStage' = barStage \/ barStage' = Bar!WakeParked(barStage)
    BY <1>3 DEF Bar!Timeout, Bar!SpuriousWake, Bar!Reset, Bar!Abort
  <2> QED
    BY <1>a, <1>b, <1>c, <2>1, <2>2
<1> QED
  BY <1>1, <1>2, <1>3, <1>a DEF Bar!Next

(*************************************************************************)
(* Future                                                                *)
(*************************************************************************)

(* Every step of a future leaves nobody parked once it is done, whoever      *)
(* completes it and however its waiters time out or wake up.                 *)
LEMMA FutureKeepsTypes == Fut!TypeOK /\ [Fut!Next]_futVars => Fut!TypeOK'
<1> SUFFICES ASSUME Fut!TypeOK, [Fut!Next]_futVars PROVE Fut!TypeOK'
  OBVIOUS
<1> USE DEF Fut!TypeOK, Fut!States, Fut!Done, Fut!Stages, Fut!ParkedIn
<1>a. futState \in Fut!Done => Fut!Outcome(futState, resultValue) \in Fut!Outcomes
  BY DEF Fut!Outcome, Fut!Outcomes
<1>1. CASE UNCHANGED futVars
  BY <1>1 DEF futVars
<1>2. ASSUME NEW t \in Threads, Fut!Cancel(t) PROVE Fut!TypeOK'
  BY <1>2 DEF Fut!Cancel, Fut!AfterCancel, Fut!WakeParked, Fut!Wake
<1>3. ASSUME NEW t \in Threads, Fut!SetRunningOrNotifyCancel(t) PROVE Fut!TypeOK'
  BY <1>3 DEF Fut!SetRunningOrNotifyCancel, Fut!AfterSetRunning, Fut!WakeParked, Fut!Wake
<1>4. ASSUME NEW t \in Threads, Fut!SetResult(t) PROVE Fut!TypeOK'
  BY <1>4 DEF Fut!SetResult, Fut!WakeParked, Fut!Wake
<1>5. ASSUME NEW t \in Threads, Fut!SetException(t) PROVE Fut!TypeOK'
  BY <1>5 DEF Fut!SetException, Fut!WakeParked, Fut!Wake
<1>6. ASSUME NEW t \in Threads, Fut!SetTooLate(t) PROVE Fut!TypeOK'
  BY <1>6 DEF Fut!SetTooLate, Fut!vars
<1>7. ASSUME NEW t \in Threads, Fut!Result(t) PROVE Fut!TypeOK'
  <2>1. CASE Fut!Conclude(t)
    BY <1>7, <2>1, <1>a DEF Fut!Result, Fut!Conclude, Fut!Leave
  <2>2. CASE futState \notin Fut!Done /\ Fut!Park(t)
            /\ futTimed' \in {[futTimed EXCEPT ![t] = b] : b \in BOOLEAN}
            /\ UNCHANGED futExpired
    <3>1. futTimed' \in [Threads -> BOOLEAN]
      BY <2>2
    <3>2. UNCHANGED <<futState, resultValue, runs, cancels>>
      BY <1>7 DEF Fut!Result
    <3>3. futStage' \in [Threads -> Fut!Stages] /\ UNCHANGED <<told, futExpired>>
      BY <2>2 DEF Fut!Park
    <3> QED
      BY <2>2, <3>1, <3>2, <3>3
  <2> QED
    BY <1>7, <2>1, <2>2 DEF Fut!Result
<1>8. ASSUME NEW t \in Threads, Fut!Resume(t) PROVE Fut!TypeOK'
  BY <1>8, <1>a DEF Fut!Resume, Fut!Conclude, Fut!Leave, Fut!Park
<1>9. ASSUME NEW t \in Threads, Fut!Timeout(t) \/ Fut!SpuriousWake(t) PROVE Fut!TypeOK'
  BY <1>9 DEF Fut!Timeout, Fut!SpuriousWake
<1> QED
  BY <1>1, <1>2, <1>3, <1>4, <1>5, <1>6, <1>7, <1>8, <1>9 DEF Fut!Next

(* OneOutcome is not inductive: a task that has been claimed leaves the      *)
(* pending and cancelled states for good, and what has been told is what the *)
(* state says, which no longer changes.                                      *)
Settled ==
  /\ runs \in {0, 1}
  /\ futState \in {"Pending", "Cancelled"} => runs = 0
  /\ cancels # {} => futState = "Cancelled"
  /\ \A a \in told : futState \in Fut!Done /\ a = Fut!Outcome(futState, resultValue)

(* Every step keeps the one winner of the race of cancel,                    *)
(* setRunningOrNotifyCancel, setResult and setException.                     *)
LEMMA FutureKeepsOutcome ==
  Fut!TypeOK /\ Settled /\ [Fut!Next]_futVars => Settled'
<1> SUFFICES ASSUME Fut!TypeOK, Settled, [Fut!Next]_futVars PROVE Settled'
  OBVIOUS
<1> USE DEF Fut!TypeOK, Settled, Fut!States, Fut!Done, Fut!Open, Fut!Outcome
<1>1. CASE UNCHANGED futVars
  BY <1>1 DEF futVars
<1>2. ASSUME NEW t \in Threads, Fut!Cancel(t) PROVE Settled'
  BY <1>2 DEF Fut!Cancel, Fut!AfterCancel
<1>3. ASSUME NEW t \in Threads, Fut!SetRunningOrNotifyCancel(t) PROVE Settled'
  BY <1>3 DEF Fut!SetRunningOrNotifyCancel, Fut!AfterSetRunning
<1>4. ASSUME NEW t \in Threads, Fut!SetResult(t) \/ Fut!SetException(t) PROVE Settled'
  BY <1>4 DEF Fut!SetResult, Fut!SetException
<1>5. ASSUME NEW t \in Threads, Fut!SetTooLate(t) PROVE Settled'
  BY <1>5 DEF Fut!SetTooLate, Fut!vars
<1>6. ASSUME NEW t \in Threads, Fut!Result(t) \/ Fut!Resume(t) PROVE Settled'
  BY <1>6 DEF Fut!Result, Fut!Resume, Fut!Conclude, Fut!Park
<1>7. ASSUME NEW t \in Threads, Fut!Timeout(t) \/ Fut!SpuriousWake(t) PROVE Settled'
  BY <1>7 DEF Fut!Timeout, Fut!SpuriousWake
<1> QED
  BY <1>1, <1>2, <1>3, <1>4, <1>5, <1>6, <1>7 DEF Fut!Next

(*************************************************************************)
(* The components by themselves                                          *)
(*************************************************************************)

(* What the counts and flags are initially.                                  *)
LEMMA SynchronizersStart ==
  /\ Init => TypeOK
  /\ Sem!Init => Sem!TypeOK /\ Sem!NoLostPermit
  /\ Ev!Init => Ev!TypeOK
  /\ Bar!Init => BarrierInv
  /\ Fut!Init => Fut!TypeOK /\ Settled
<1>1. Init => TypeOK
  BY DEF Init, TypeOK, Modes, Locations
<1>2. Sem!Init => Sem!TypeOK /\ Sem!NoLostPermit
  <2>1. MaxInitial \in Nat /\ MaxValue \in Nat /\ MaxInitial <= MaxValue /\ NoLimit \notin Nat
    BY SynchronizersAssumption DEF Sem!SemaphoreAssumption
  <2> QED
    BY <2>1 DEF Sem!Init, Sem!TypeOK, Sem!NoLostPermit, Sem!Stages, Sem!ParkedIn
<1>3. Ev!Init => Ev!TypeOK
  BY DEF Ev!Init, Ev!TypeOK, Ev!Stages, Ev!ParkedIn
<1>4. Bar!Init => BarrierInv
  <2> SUFFICES ASSUME Bar!Init PROVE BarrierInv
    OBVIOUS
  <2>1. Bar!Inside = {} /\ Bar!Cardinality({}) = 0
    BY SameFiniteSets, FS_EmptySet DEF Bar!Init, Bar!Inside
  <2>2. MaxRounds \in Nat /\ MaxParties \in Nat
    BY SynchronizersAssumption DEF Bar!BarrierAssumption
  <2>3. parties \in Nat /\ 0 < parties /\ 0 \in 0 .. parties - 1 /\ 0 \in 0 .. MaxRounds
    BY <2>2 DEF Bar!Init
  <2> QED
    BY <2>1, <2>3
    DEF Bar!Init, BarrierInv, BarrierPhases, Bar!TypeOK, Bar!Stages, Bar!States,
        Bar!Deadlines, Bar!Emptying, Bar!IndicesDistinct, Bar!ParkedForAReason,
        Bar!ParkedIn
<1>5. Fut!Init => Fut!TypeOK /\ Settled
  BY DEF Fut!Init, Fut!TypeOK, Settled, Fut!States, Fut!Done, Fut!Stages, Fut!ParkedIn
<1> QED
  BY <1>1, <1>2, <1>3, <1>4, <1>5

(* The tuples of variables of the components and their flat forms.           *)
LEMMA SameVariables ==
  /\ UNCHANGED Sem!vars <=> UNCHANGED semVars
  /\ UNCHANGED Ev!vars <=> UNCHANGED evVars
  /\ UNCHANGED Bar!vars <=> UNCHANGED barVars
  /\ UNCHANGED Fut!vars <=> UNCHANGED futVars
BY DEF Sem!vars, semVars, Ev!vars, evVars, Bar!vars, Bar!shared, Bar!local, barVars,
       Fut!vars, futVars

(* Semaphore.release: the permits of a release(n) have n woken threads on    *)
(* their way, as long as anybody is parked.                                  *)
THEOREM SemaphoreNoLostPermit == Sem!Spec => [](Sem!TypeOK /\ Sem!NoLostPermit)
<1>1. Sem!TypeOK /\ Sem!NoLostPermit /\ [Sem!Next]_(Sem!vars)
        => (Sem!TypeOK /\ Sem!NoLostPermit)'
  BY SemaphoreKeepsTypes, SemaphoreKeepsPermits, SameVariables
<1> QED
  BY <1>1, SynchronizersStart, PTL DEF Sem!Spec

(* Event.set and Event.wait: nobody is parked on an event that is set.       *)
THEOREM EventTyping == Ev!Spec => []Ev!TypeOK
<1>1. Ev!TypeOK /\ [Ev!Next]_(Ev!vars) => Ev!TypeOK'
  BY EventKeepsTypes, SameVariables
<1> QED
  BY <1>1, SynchronizersStart, PTL DEF Ev!Spec

(* Barrier.wait: its count is the number of threads inside whatever times    *)
(* out, breaks or resets it, and full rounds only pass.                      *)
THEOREM BarrierFullRounds == Bar!Spec => []Bar!TypeOK /\ Bar!OnlyFullRoundsPass
<1>1. BarrierInv /\ [Bar!Next]_(Bar!vars) => BarrierInv'
  BY BarrierKeepsCounts, SameVariables
<1>2. BarrierInv => Bar!TypeOK
  BY DEF BarrierInv
<1>3. BarrierInv /\ [Bar!Next]_(Bar!vars) =>
        [/\ rounds' > rounds => Bar!Cardinality(Bar!Inside \ passed) = parties - 1
         /\ \A t \in Bar!Inside :
              (barStage'[t] = "out" /\ barResult'[t] = "index") => t \in passed]_(Bar!vars)
  BY BarrierPassesFullRounds, SameVariables
<1> QED
  BY <1>1, <1>2, <1>3, SynchronizersStart, PTL DEF Bar!Spec, Bar!OnlyFullRoundsPass

(* Future: the race of cancel, setRunningOrNotifyCancel, setResult and       *)
(* setException has one winner, result tells everybody who that was, and     *)
(* nobody stays parked once it is decided.                                   *)
THEOREM FutureOneOutcome == Fut!Spec => [](Fut!TypeOK /\ Fut!OneOutcome)
<1>1. Fut!TypeOK /\ Settled /\ [Fut!Next]_(Fut!vars) => (Fut!TypeOK /\ Settled)'
  BY FutureKeepsTypes, FutureKeepsOutcome, SameVariables
<1>2. Settled => Fut!OneOutcome
  BY DEF Settled, Fut!OneOutcome
<1> QED
  BY <1>1, <1>2, SynchronizersStart, PTL DEF Fut!Spec

(*************************************************************************)
(* The components together                                               *)
(*************************************************************************)

(* A step of the composition is a step or a stutter of each component.       *)
LEMMA StepOfEach ==
  [SynchronizersNext]_allVars =>
    /\ [Next]_vars /\ [Sem!Next]_semVars /\ [Ev!Next]_evVars
    /\ [Bar!Next]_barVars /\ [Fut!Next]_futVars
BY DEF SynchronizersNext, allVars

SynchronizersInv ==
  /\ TypeOK
  /\ Sem!TypeOK /\ Sem!NoLostPermit
  /\ Ev!TypeOK
  /\ BarrierInv
  /\ Fut!TypeOK /\ Settled

LEMMA SynchronizersInvariance == SynchronizersSpec => []SynchronizersInv
<1>1. SynchronizersInit => SynchronizersInv
  BY SynchronizersStart DEF SynchronizersInit, SynchronizersInv
<1>2. SynchronizersInv /\ [SynchronizersNext]_allVars => SynchronizersInv'
  BY StepOfEach, LockKeepsTypes, SemaphoreKeepsTypes, SemaphoreKeepsPermits,
     EventKeepsTypes, BarrierKeepsCounts, FutureKeepsTypes, FutureKeepsOutcome
  DEF SynchronizersInv
<1> QED
  BY <1>1, <1>2, PTL DEF SynchronizersSpec

(* Whatever is used, counts and flags agree with the threads inside: a lock  *)
(* with its holder, a semaphore with its bounds, a barrier with the threads  *)
(* between _enter and _exit; and nobody is parked without a reason.          *)
THEOREM SynchronizersTyping == SynchronizersSpec => []TypesAndCounts
<1>1. SynchronizersInv => TypesAndCounts
  BY DEF SynchronizersInv, BarrierInv, TypesAndCounts
<1> QED
  BY <1>1, SynchronizersInvariance, PTL

(* Semaphore.release: no permit is added without a wake-up for it.           *)
THEOREM SynchronizersNoLostPermit == SynchronizersSpec => []NoLostPermit
<1>1. SynchronizersInv => NoLostPermit
  BY DEF SynchronizersInv, NoLostPermit
<1> QED
  BY <1>1, SynchronizersInvariance, PTL

(* Barrier.wait: a round completes with all of its parties and no others.    *)
THEOREM SynchronizersFullRounds == SynchronizersSpec => OnlyFullRoundsPass
<1>1. SynchronizersInv /\ [SynchronizersNext]_allVars =>
        [/\ rounds' > rounds => Bar!Cardinality(Bar!Inside \ passed) = parties - 1
         /\ \A t \in Bar!Inside :
              (barStage'[t] = "out" /\ barResult'[t] = "index") => t \in passed]_(Bar!vars)
  BY StepOfEach, BarrierPassesFullRounds DEF SynchronizersInv
<1> QED
  BY <1>1, SynchronizersInvariance, PTL
  DEF SynchronizersSpec, OnlyFullRoundsPass, Bar!OnlyFullRoundsPass

(* Future: a task is run or cancelled, and every caller is told the same.    *)
THEOREM SynchronizersOneOutcome == SynchronizersSpec => []OneOutcome
<1>1. SynchronizersInv => OneOutcome
  BY DEF SynchronizersInv, Settled, OneOutcome, Fut!OneOutcome
<1> QED
  BY <1>1, SynchronizersInvariance, PTL
=============================================================================
