-------------------------------- MODULE RLock --------------------------------
(***************************************************************************)
(* paw.concur.thread.RLock, the re-entrant lock of -thread.inl: an owner   *)
(* and a count of levels under a std::mutex, with a condition variable on  *)
(* which the other threads park.  _releaseSave and _acquireRestore, by     *)
(* which Condition.wait drops and regains all levels, are part of it.      *)
(*                                                                         *)
(* The code between taking and dropping the std::mutex is one action.      *)
(* MaxDepth bounds the levels one thread nests.                            *)
(***************************************************************************)
EXTENDS Naturals, FiniteSets

CONSTANTS Threads, NoThread, MaxDepth

ASSUME RLockAssumption ==
  /\ NoThread \notin Threads
  /\ MaxDepth \in Nat \ {0}

VARIABLES
  owner,      \* RLockState.owner, 0 written NoThread
  recursion,  \* RLockState.recursion
  pc,         \* where each thread is
  mode,       \* the (blocking, timeout) arguments of the acquire in progress
  expired,    \* its deadline has passed
  saved,      \* what _releaseSave returned to the thread, 0 once restored
  held        \* history: levels each thread was granted and has not given back

vars == <<owner, recursion, pc, mode, expired, saved, held>>

Modes == {"try", "timed", "forever"}

(* "restore" is the loop of _acquireRestore, "acquire" that of acquire; a    *)
(* parked thread resumes the loop it came from.                              *)
Loops == {"acquire", "restore"}
Waits == {"parked_acquire", "parked_restore"}
Outcomes == {"granted", "refused", "error"}
Locations == {"idle", "notify"} \cup Loops \cup Waits \cup Outcomes

ParkedIn(loop) == IF loop = "acquire" THEN "parked_acquire" ELSE "parked_restore"
LoopOf(wait) == IF wait = "parked_acquire" THEN "acquire" ELSE "restore"

Parked == {t \in Threads : pc[t] \in Waits}

Init ==
  /\ owner = NoThread
  /\ recursion = 0
  /\ pc = [t \in Threads |-> "idle"]
  /\ mode = [t \in Threads |-> "forever"]
  /\ expired = [t \in Threads |-> FALSE]
  /\ saved = [t \in Threads |-> 0]
  /\ held = [t \in Threads |-> 0]

Unlocked == owner = NoThread

(* The bound on the levels of one thread, saved ones included. *)
MayNest(t) ==
  (IF owner = t THEN recursion ELSE 0) + saved[t] < MaxDepth

-----------------------------------------------------------------------------
(* Wrong variants of the actions below, each a mistake the code could have   *)
(* made: the properties of this module tell them from the real ones.         *)

(* acquire does not look whether another thread is the owner. *)
TakeUnchecked(t) ==
  /\ pc[t] = "acquire"
  /\ owner' = t
  /\ recursion' = 1
  /\ held' = [held EXCEPT ![t] = @ + 1]
  /\ pc' = [pc EXCEPT ![t] = "granted"]
  /\ UNCHANGED <<mode, expired, saved>>

(* release frees the lock at the first level and keeps the count. *)
ReleaseOuter(t) ==
  /\ pc[t] = "idle"
  /\ owner = t
  /\ recursion' = recursion - 1
  /\ held' = [held EXCEPT ![t] = @ - 1]
  /\ owner' = NoThread
  /\ pc' = [pc EXCEPT ![t] = "notify"]
  /\ UNCHANGED <<mode, expired, saved>>

(* _releaseSave relies on release's notify and has none of its own. *)
ReleaseSaveSilently(t) ==
  /\ pc[t] = "idle"
  /\ owner = t
  /\ saved[t] = 0
  /\ saved' = [saved EXCEPT ![t] = recursion]
  /\ owner' = NoThread
  /\ recursion' = 0
  /\ held' = [held EXCEPT ![t] = 0]
  /\ UNCHANGED <<pc, mode, expired>>

-----------------------------------------------------------------------------
(* A call of acquire heads for the mutex. *)
Call(t, m) ==
  /\ pc[t] = "idle"
  /\ MayNest(t)
  /\ pc' = [pc EXCEPT ![t] = "acquire"]
  /\ mode' = [mode EXCEPT ![t] = m]
  /\ \E e \in (IF m = "timed" THEN BOOLEAN ELSE {FALSE}) :
       expired' = [expired EXCEPT ![t] = e]
  /\ UNCHANGED <<owner, recursion, saved, held>>

(* The owner calls again: one more level. *)
Reenter(t) ==
  /\ pc[t] = "acquire"
  /\ owner = t
  /\ recursion' = recursion + 1
  /\ held' = [held EXCEPT ![t] = @ + 1]
  /\ pc' = [pc EXCEPT ![t] = "granted"]
  /\ UNCHANGED <<owner, mode, expired, saved>>

(* The lock is free: become its owner. *)
Take(t) ==
  /\ pc[t] = "acquire"
  /\ Unlocked
  /\ owner' = t
  /\ recursion' = 1
  /\ held' = [held EXCEPT ![t] = @ + 1]
  /\ pc' = [pc EXCEPT ![t] = "granted"]
  /\ UNCHANGED <<mode, expired, saved>>

GivesUp(t) == mode[t] = "try" \/ (mode[t] = "timed" /\ expired[t])

OwnedByOther(t) == owner \notin {NoThread, t}

Refuse(t) ==
  /\ pc[t] = "acquire"
  /\ OwnedByOther(t)
  /\ GivesUp(t)
  /\ pc' = [pc EXCEPT ![t] = "refused"]
  /\ UNCHANGED <<owner, recursion, mode, expired, saved, held>>

(* Both loops park while another thread is the owner. *)
Park(t) ==
  /\ pc[t] \in Loops
  /\ OwnedByOther(t)
  /\ pc[t] = "acquire" => ~GivesUp(t)
  /\ pc' = [pc EXCEPT ![t] = ParkedIn(@)]
  /\ UNCHANGED <<owner, recursion, mode, expired, saved, held>>

Expire(t) ==
  /\ mode[t] = "timed"
  /\ ~expired[t]
  /\ pc[t] \in {"acquire", "parked_acquire"}
  /\ expired' = [expired EXCEPT ![t] = TRUE]
  /\ pc' = [pc EXCEPT ![t] = "acquire"]
  /\ UNCHANGED <<owner, recursion, mode, saved, held>>

SpuriousWake(t) ==
  /\ t \in Parked
  /\ pc' = [pc EXCEPT ![t] = LoopOf(@)]
  /\ UNCHANGED <<owner, recursion, mode, expired, saved, held>>

(* release by the owner: one level less, and a notification after the last. *)
Release(t) ==
  /\ pc[t] = "idle"
  /\ owner = t
  /\ recursion' = recursion - 1
  /\ held' = [held EXCEPT ![t] = @ - 1]
  /\ IF recursion = 1
       THEN owner' = NoThread /\ pc' = [pc EXCEPT ![t] = "notify"]
       ELSE UNCHANGED <<owner, pc>>
  /\ UNCHANGED <<mode, expired, saved>>

(* release and _releaseSave by another thread raise RuntimeError. *)
ReleaseByOther(t) ==
  /\ pc[t] = "idle"
  /\ owner # t
  /\ pc' = [pc EXCEPT ![t] = "error"]
  /\ UNCHANGED <<owner, recursion, mode, expired, saved, held>>

(* _releaseSave: give up all levels and return how many there were. *)
ReleaseSave(t) ==
  /\ pc[t] = "idle"
  /\ owner = t
  /\ saved[t] = 0
  /\ saved' = [saved EXCEPT ![t] = recursion]
  /\ owner' = NoThread
  /\ recursion' = 0
  /\ held' = [held EXCEPT ![t] = 0]
  /\ pc' = [pc EXCEPT ![t] = "notify"]
  /\ UNCHANGED <<mode, expired>>

(* A call of _acquireRestore with the count _releaseSave returned. *)
CallRestore(t) ==
  /\ pc[t] = "idle"
  /\ saved[t] > 0
  /\ pc' = [pc EXCEPT ![t] = "restore"]
  /\ UNCHANGED <<owner, recursion, mode, expired, saved, held>>

(* The lock is free or already its own: add the saved levels. *)
Restore(t) ==
  /\ pc[t] = "restore"
  /\ ~OwnedByOther(t)
  /\ owner' = t
  /\ recursion' = recursion + saved[t]
  /\ held' = [held EXCEPT ![t] = @ + saved[t]]
  /\ saved' = [saved EXCEPT ![t] = 0]
  /\ pc' = [pc EXCEPT ![t] = "granted"]
  /\ UNCHANGED <<mode, expired>>

(* notify_one wakes any one of the parked threads, if there is one. *)
NotifyOne(t) ==
  /\ pc[t] = "notify"
  /\ \/ /\ Parked = {}
        /\ pc' = [pc EXCEPT ![t] = "idle"]
     \/ \E w \in Parked :
          pc' = [pc EXCEPT ![t] = "idle", ![w] = LoopOf(@)]
  /\ UNCHANGED <<owner, recursion, mode, expired, saved, held>>

Return(t) ==
  /\ pc[t] \in Outcomes
  /\ pc' = [pc EXCEPT ![t] = "idle"]
  /\ UNCHANGED <<owner, recursion, mode, expired, saved, held>>

Next ==
  \E t \in Threads :
    \/ \E m \in Modes : Call(t, m)
    \/ Reenter(t) \/ Take(t) \/ Refuse(t) \/ Park(t) \/ Expire(t)
    \/ SpuriousWake(t) \/ Release(t) \/ ReleaseByOther(t) \/ ReleaseSave(t)
    \/ CallRestore(t) \/ Restore(t) \/ NotifyOne(t) \/ Return(t)

Spec == Init /\ [][Next]_vars

-----------------------------------------------------------------------------
(* The count of RLockState is the number of levels its owner was granted,    *)
(* no other thread has any, and the lock is free exactly when nobody has:    *)
(* re-entry, release, _releaseSave and _acquireRestore agree on it.          *)
LevelsBelongToOwner ==
  /\ \A t \in Threads : held[t] = IF owner = t THEN recursion ELSE 0
  /\ Unlocked <=> recursion = 0

(* Every variable holds a value of its type, and the levels that threads     *)
(* believe to hold are those of the lock.                                    *)
TypeOK ==
  /\ owner \in Threads \cup {NoThread}
  /\ recursion \in Nat
  /\ pc \in [Threads -> Locations]
  /\ mode \in [Threads -> Modes]
  /\ expired \in [Threads -> BOOLEAN]
  /\ saved \in [Threads -> 0 .. MaxDepth]
  /\ held \in [Threads -> Nat]
  /\ LevelsBelongToOwner

(* release and _releaseSave notify after they have dropped the mutex: while  *)
(* the lock is free and a thread is parked, some thread is still going to    *)
(* notify or to run its loop.                                                *)
NoLostWakeup ==
  (Unlocked /\ Parked # {}) => \E t \in Threads : pc[t] \in {"notify"} \cup Loops

(* The native code implements the abstract re-entrant lock. *)
Abstract == INSTANCE ReentrantLock

ImplementsReentrantLock == Abstract!LockSpec
=============================================================================
