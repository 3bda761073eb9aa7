-------------------------------- MODULE Lock --------------------------------
(***************************************************************************)
(* paw.concur.thread.Lock: the two-state lock of -thread.inl.  A LockState *)
(* is a std::mutex, a condition variable and the flag `locked'; it has no  *)
(* owner, any thread may release it, and a release wakes one waiter only   *)
(* after the mutex has been dropped.                                       *)
(*                                                                         *)
(* The code between taking and dropping the std::mutex is one action.  A   *)
(* call that finds the lock taken parks on the condition variable and,     *)
(* once woken, runs its loop again.                                        *)
(***************************************************************************)
EXTENDS FiniteSets

CONSTANTS Threads, NoThread

ASSUME ThreadsAssumption == NoThread \notin Threads

VARIABLES
  locked,   \* LockState.locked
  pc,       \* where each thread is in acquire_lock_state / release_lock_state
  mode,     \* the (blocking, timeout) arguments of the call in progress
  expired,  \* the deadline of the call in progress has passed
  holder    \* history: the thread whose acquire the current `locked' comes from

vars == <<locked, pc, mode, expired, holder>>

(* "try" is blocking=False, "timed" a finite timeout, "forever" none. *)
Modes == {"try", "timed", "forever"}

Locations == {"idle", "acquire", "parked", "notify", "granted", "refused", "error"}

Init ==
  /\ locked = FALSE
  /\ pc = [t \in Threads |-> "idle"]
  /\ mode = [t \in Threads |-> "forever"]
  /\ expired = [t \in Threads |-> FALSE]
  /\ holder = NoThread

(* The three ways a call ends; Return(t) hands the outcome to the caller. *)
Outcomes == {"granted", "refused", "error"}

Parked == {t \in Threads : pc[t] = "parked"}

-----------------------------------------------------------------------------
(* Wrong variants of the actions below, each a mistake the code could have   *)
(* made: the properties of this module tell them from the real ones.         *)

(* acquire tests the flag with `if' where the code has `while'. *)
TakeUnchecked(t) ==
  /\ pc[t] = "acquire"
  /\ locked' = TRUE
  /\ holder' = t
  /\ pc' = [pc EXCEPT ![t] = "granted"]
  /\ UNCHANGED <<mode, expired>>

(* acquire waits again after a timeout. *)
GivesUpOnlyTry(t) == mode[t] = "try"

(* release forgets to clear the flag. *)
ReleaseKeepsFlag(t) ==
  /\ pc[t] = "idle"
  /\ locked
  /\ holder' = NoThread
  /\ pc' = [pc EXCEPT ![t] = "notify"]
  /\ UNCHANGED <<locked, mode, expired>>

(* release forgets to notify. *)
ReleaseSilently(t) ==
  /\ pc[t] = "idle"
  /\ locked
  /\ locked' = FALSE
  /\ holder' = NoThread
  /\ UNCHANGED <<pc, mode, expired>>

-----------------------------------------------------------------------------
(* A call of acquire passes validate_blocking_timeout and heads for the      *)
(* mutex; a timeout of zero has already expired.                             *)
Call(t, m) ==
  /\ pc[t] = "idle"
  /\ pc' = [pc EXCEPT ![t] = "acquire"]
  /\ mode' = [mode EXCEPT ![t] = m]
  /\ \E e \in (IF m = "timed" THEN BOOLEAN ELSE {FALSE}) :
       expired' = [expired EXCEPT ![t] = e]
  /\ UNCHANGED <<locked, holder>>

(* The lock is free: take it, at the first attempt or after a wait. *)
Take(t) ==
  /\ pc[t] = "acquire"
  /\ ~locked
  /\ locked' = TRUE
  /\ holder' = t
  /\ pc' = [pc EXCEPT ![t] = "granted"]
  /\ UNCHANGED <<mode, expired>>

GivesUp(t) == mode[t] = "try" \/ (mode[t] = "timed" /\ expired[t])

(* The lock is taken: give up if the call may not or can no longer wait. *)
Refuse(t) ==
  /\ pc[t] = "acquire"
  /\ locked
  /\ GivesUp(t)
  /\ pc' = [pc EXCEPT ![t] = "refused"]
  /\ UNCHANGED <<locked, mode, expired, holder>>

(* The lock is taken: park on the condition variable, dropping the mutex. *)
Park(t) ==
  /\ pc[t] = "acquire"
  /\ locked
  /\ ~GivesUp(t)
  /\ pc' = [pc EXCEPT ![t] = "parked"]
  /\ UNCHANGED <<locked, mode, expired, holder>>

(* The deadline passes, which also ends a timed wait. *)
Expire(t) ==
  /\ mode[t] = "timed"
  /\ ~expired[t]
  /\ pc[t] \in {"acquire", "parked"}
  /\ expired' = [expired EXCEPT ![t] = TRUE]
  /\ pc' = [pc EXCEPT ![t] = "acquire"]
  /\ UNCHANGED <<locked, mode, holder>>

(* A condition variable may wake a waiter that nobody notified. *)
SpuriousWake(t) ==
  /\ pc[t] = "parked"
  /\ pc' = [pc EXCEPT ![t] = "acquire"]
  /\ UNCHANGED <<locked, mode, expired, holder>>

(* release, by any thread: clear the flag under the mutex, then notify. *)
Release(t) ==
  /\ pc[t] = "idle"
  /\ locked
  /\ locked' = FALSE
  /\ holder' = NoThread
  /\ pc' = [pc EXCEPT ![t] = "notify"]
  /\ UNCHANGED <<mode, expired>>

(* release of a lock nobody holds raises RuntimeError. *)
ReleaseUnlocked(t) ==
  /\ pc[t] = "idle"
  /\ ~locked
  /\ pc' = [pc EXCEPT ![t] = "error"]
  /\ UNCHANGED <<locked, mode, expired, holder>>

(* notify_one wakes any one of the parked threads, if there is one. *)
NotifyOne(t) ==
  /\ pc[t] = "notify"
  /\ \/ /\ Parked = {}
        /\ pc' = [pc EXCEPT ![t] = "idle"]
     \/ \E w \in Parked : pc' = [pc EXCEPT ![t] = "idle", ![w] = "acquire"]
  /\ UNCHANGED <<locked, mode, expired, holder>>

Return(t) ==
  /\ pc[t] \in Outcomes
  /\ pc' = [pc EXCEPT ![t] = "idle"]
  /\ UNCHANGED <<locked, mode, expired, holder>>

Next ==
  \E t \in Threads :
    \/ \E m \in Modes : Call(t, m)
    \/ Take(t) \/ Refuse(t) \/ Park(t) \/ Expire(t) \/ SpuriousWake(t)
    \/ Release(t) \/ ReleaseUnlocked(t) \/ NotifyOne(t) \/ Return(t)

(* The operating system runs every runnable thread, and deadlines pass.      *)
(* Calls, releases and spurious wake-ups carry no fairness.                  *)
Running(t) == Take(t) \/ Refuse(t) \/ Park(t) \/ NotifyOne(t) \/ Return(t)

Fairness == \A t \in Threads : WF_vars(Running(t)) /\ WF_vars(Expire(t))

Spec == Init /\ [][Next]_vars /\ Fairness

-----------------------------------------------------------------------------
(* Every variable holds a value of its type, and the flag tells whether an   *)
(* acquire is outstanding.                                                   *)
TypeOK ==
  /\ locked \in BOOLEAN
  /\ pc \in [Threads -> Locations]
  /\ mode \in [Threads -> Modes]
  /\ expired \in [Threads -> BOOLEAN]
  /\ holder \in Threads \cup {NoThread}
  /\ locked <=> holder # NoThread

(* acquire_lock_state and release_lock_state: the lock passes from one      *)
(* holder to the next only through a release, however the wake-ups, the     *)
(* timeouts and the threads that barge in are interleaved.                  *)
HandoverOnlyThroughRelease ==
  [][holder' # holder => holder = NoThread \/ holder' = NoThread]_vars

(* release_lock_state notifies after it has dropped the mutex: while the    *)
(* lock is free and a thread is parked, some thread is still going to       *)
(* notify or to run its acquire loop, so no wake-up has been lost.          *)
NoLostWakeup ==
  (~locked /\ Parked # {}) => \E t \in Threads : pc[t] \in {"notify", "acquire"}

(* acquire_lock_state recomputes the remaining time after each wake-up: a   *)
(* timed call returns, whatever the other threads do.                       *)
TimedCallReturns ==
  \A t \in Threads :
    (pc[t] \in {"acquire", "parked"} /\ mode[t] = "timed") ~> (pc[t] \in Outcomes)
=============================================================================
