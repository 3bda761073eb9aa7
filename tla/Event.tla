-------------------------------- MODULE Event --------------------------------
(***************************************************************************)
(* paw.concur.thread.Event: a flag under a Condition.  wait evaluates the  *)
(* flag, and once it waits, Condition.waitFor evaluates it again each time *)
(* the thread has regained the lock.                                       *)
(***************************************************************************)
EXTENDS Monitor

CONSTANTS Threads

EventAssumption == IsFiniteSet(Threads)

VARIABLES
  flag,     \* _flag
  stage,    \* where each thread is in wait
  timed,    \* the wait in progress has a finite timeout
  expired,  \* its deadline has passed
  result    \* what the last wait of each thread returned

vars == <<flag, stage, timed, expired, result>>

Init ==
  /\ flag = FALSE
  /\ stage = [t \in Threads |-> "out"]
  /\ timed = [t \in Threads |-> FALSE]
  /\ expired = [t \in Threads |-> FALSE]
  /\ result = [t \in Threads |-> "none"]

(* wait returns b; its locals are gone. *)
Finish(t, b) ==
  /\ stage' = [stage EXCEPT ![t] = "out"]
  /\ timed' = [timed EXCEPT ![t] = FALSE]
  /\ expired' = [expired EXCEPT ![t] = FALSE]
  /\ result' = [result EXCEPT ![t] = b]

Park(t) ==
  /\ stage' = [stage EXCEPT ![t] = "parked"]
  /\ result' = [result EXCEPT ![t] = "none"]

-----------------------------------------------------------------------------
(* Wrong variants of the actions below, each a mistake the code could have   *)
(* made: the properties of this module tell them from the real ones.         *)

(* set wakes one waiter. *)
SetNotifiesOne(t) ==
  /\ stage[t] = "out"
  /\ flag' = TRUE
  /\ \E W \in NotifyChoices(stage, 1) : stage' = Wake(stage, W)
  /\ UNCHANGED <<timed, expired, result>>

-----------------------------------------------------------------------------
Set(t) ==
  /\ stage[t] = "out"
  /\ flag' = TRUE
  /\ stage' = WakeParked(stage)
  /\ UNCHANGED <<timed, expired, result>>

Clear(t) ==
  /\ stage[t] = "out"
  /\ flag' = FALSE
  /\ UNCHANGED <<stage, timed, expired, result>>

(* wait, up to its first wait; with a timeout of zero there is none. *)
Wait(t) ==
  /\ stage[t] = "out"
  /\ \/ flag /\ Finish(t, "true")
     \/ ~flag /\ Finish(t, "false")
     \/ /\ ~flag
        /\ Park(t)
        /\ timed' \in {[timed EXCEPT ![t] = b] : b \in BOOLEAN}
        /\ UNCHANGED expired
  /\ UNCHANGED flag

(* waitFor, with the lock regained. *)
Resume(t) ==
  /\ stage[t] = "woken"
  /\ IF flag THEN Finish(t, "true")
     ELSE IF expired[t] THEN Finish(t, "false")
     ELSE Park(t) /\ UNCHANGED <<timed, expired>>
  /\ UNCHANGED <<flag>>

Timeout(t) ==
  /\ stage[t] \in {"parked", "woken"}
  /\ timed[t] /\ ~expired[t]
  /\ expired' = [expired EXCEPT ![t] = TRUE]
  /\ stage' = [stage EXCEPT ![t] = "woken"]
  /\ UNCHANGED <<flag, timed, result>>

SpuriousWake(t) ==
  /\ stage[t] = "parked"
  /\ stage' = [stage EXCEPT ![t] = "woken"]
  /\ UNCHANGED <<flag, timed, expired, result>>

Next ==
  \E t \in Threads :
    Set(t) \/ Clear(t) \/ Wait(t) \/ Resume(t) \/ Timeout(t) \/ SpuriousWake(t)

(* A woken thread regains the lock; nobody has to call set. *)
Fairness == \A t \in Threads : WF_vars(Resume(t))

Spec == Init /\ [][Next]_vars /\ Fairness

-----------------------------------------------------------------------------
(* Every variable holds a value of its type, and no thread is parked while   *)
(* the flag is set: set has woken every waiter and wait parks none.          *)
TypeOK ==
  /\ flag \in BOOLEAN
  /\ stage \in [Threads -> Stages]
  /\ timed \in [Threads -> BOOLEAN]
  /\ expired \in [Threads -> BOOLEAN]
  /\ result \in [Threads -> {"none", "true", "false"}]
  /\ flag => ParkedIn(stage) = {}

(* set: if the event is set and stays set, every waiter returns.             *)
SetReleasesWaiters ==
  <>[]flag => []<>(\A t \in Threads : stage[t] = "out")
=============================================================================
