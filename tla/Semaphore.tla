------------------------------ MODULE Semaphore ------------------------------
(***************************************************************************)
(* paw.concur.thread.Semaphore and BoundedSemaphore, written in Paw over a *)
(* Condition and an atomic count.  The two differ only in the check        *)
(* BoundedSemaphore.release makes.  MaxRelease bounds the argument of      *)
(* release, MaxInitial the initial value and MaxValue the count of the     *)
(* unbounded one.                                                          *)
(***************************************************************************)
EXTENDS Monitor

CONSTANTS Threads, NoLimit, MaxInitial, MaxRelease, MaxValue

SemaphoreAssumption ==
  /\ IsFiniteSet(Threads)
  /\ MaxRelease \in Nat \ {0}
  /\ MaxInitial \in Nat /\ MaxValue \in Nat /\ MaxValue >= MaxInitial
  /\ NoLimit \notin Nat

VARIABLES
  limit,    \* _initialValue of a BoundedSemaphore, else NoLimit
  value,    \* _value
  stage,    \* where each thread is in acquire
  timed,    \* that acquire has a finite timeout
  expired   \* whose deadline has passed

vars == <<limit, value, stage, timed, expired>>

Init ==
  /\ limit \in {NoLimit} \cup 0 .. MaxInitial
  /\ value \in IF limit = NoLimit THEN 0 .. MaxInitial ELSE {limit}
  /\ stage = [t \in Threads |-> "out"]
  /\ timed = [t \in Threads |-> FALSE]
  /\ expired = [t \in Threads |-> FALSE]

(* acquire returns; its locals are gone. *)
Leave(t) ==
  /\ stage' = [stage EXCEPT ![t] = "out"]
  /\ timed' = [timed EXCEPT ![t] = FALSE]
  /\ expired' = [expired EXCEPT ![t] = FALSE]

-----------------------------------------------------------------------------
(* A wrong variant of Permit below, a mistake the code could have made: the  *)
(* properties of this module tell it from the real one.                      *)

(* release(n) wakes a single waiter. *)
ReleaseNotifiesOne(n) ==
  /\ value' = value + n
  /\ \E W \in NotifyChoices(stage, 1) : stage' = Wake(stage, W)

-----------------------------------------------------------------------------
(* The count is positive: take one permit and return True. *)
Grant(t) ==
  /\ value > 0
  /\ value' = value - 1
  /\ Leave(t)

(* It is not, and the call may not or can no longer wait: return False. *)
GiveUp(t) ==
  /\ value = 0
  /\ Leave(t)
  /\ UNCHANGED value

(* It is not, and the call waits. *)
Wait(t) ==
  /\ value = 0
  /\ stage' = [stage EXCEPT ![t] = "parked"]
  /\ UNCHANGED <<value, expired>>

(* acquire, up to its first wait; it gives up at once if it may not block or *)
(* its timeout is zero.                                                      *)
Acquire(t) ==
  /\ stage[t] = "out"
  /\ \/ Grant(t) \/ GiveUp(t)
     \/ Wait(t) /\ timed' \in {[timed EXCEPT ![t] = b] : b \in BOOLEAN}
  /\ UNCHANGED limit

(* acquire, from the wait on. *)
Resume(t) ==
  /\ stage[t] = "woken"
  /\ \/ Grant(t)
     \/ expired[t] /\ GiveUp(t)
     \/ ~expired[t] /\ Wait(t) /\ UNCHANGED timed
  /\ UNCHANGED limit

(* The deadline of a wait passes. *)
Timeout(t) ==
  /\ stage[t] \in {"parked", "woken"}
  /\ timed[t] /\ ~expired[t]
  /\ expired' = [expired EXCEPT ![t] = TRUE]
  /\ stage' = [stage EXCEPT ![t] = "woken"]
  /\ UNCHANGED <<limit, value, timed>>

SpuriousWake(t) ==
  /\ stage[t] = "parked"
  /\ stage' = [stage EXCEPT ![t] = "woken"]
  /\ UNCHANGED <<limit, value, timed, expired>>

TooMany(n) == limit # NoLimit /\ value + n > limit

(* release(n): n permits more, and at most n waiters woken. *)
Permit(n) ==
  /\ value' = value + n
  /\ \E W \in NotifyChoices(stage, n) : stage' = Wake(stage, W)

(* BoundedSemaphore.release raises ValueError and changes nothing. *)
Refuse == UNCHANGED <<value, stage>>

Release(t, n) ==
  /\ stage[t] = "out"
  /\ value + n <= MaxValue
  /\ IF TooMany(n) THEN Refuse ELSE Permit(n)
  /\ UNCHANGED <<limit, timed, expired>>

Next ==
  \E t \in Threads :
    \/ Acquire(t)
    \/ \E n \in 1 .. MaxRelease : Release(t, n)
    \/ Resume(t) \/ Timeout(t) \/ SpuriousWake(t)

Spec == Init /\ [][Next]_vars

-----------------------------------------------------------------------------
(* Every variable holds a value of its type; above all the count is never    *)
(* negative, although acquire tests and decrements it in two steps, nor      *)
(* above the initial value of a BoundedSemaphore.                            *)
TypeOK ==
  /\ limit \in {NoLimit} \cup 0 .. MaxInitial
  /\ value \in 0 .. MaxValue /\ (limit # NoLimit => value <= limit)
  /\ stage \in [Threads -> Stages]
  /\ timed \in [Threads -> BOOLEAN]
  /\ expired \in [Threads -> BOOLEAN]

(* release(n) wakes as many waiters as it adds permits: while a thread is    *)
(* parked, every permit has a woken thread on its way to it, whatever        *)
(* barging acquires, timeouts and spurious wake-ups happen.                  *)
NoLostPermit ==
  ParkedIn(stage) # {} => value <= Cardinality(WokenIn(stage))

=============================================================================
