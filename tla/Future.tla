------------------------------- MODULE Future -------------------------------
(***************************************************************************)
(* paw.concur.thread.Future: a state and a value under a Condition.        *)
(* result and exception evaluate the state, wait while it is not done, and *)
(* evaluate it again each time the thread has regained the lock.           *)
(*                                                                         *)
(* A value is the thread that set it.                                      *)
(***************************************************************************)
EXTENDS Monitor, FutureStates

CONSTANTS Threads, NoValue

FutureAssumption == IsFiniteSet(Threads) /\ NoValue \notin Threads

VARIABLES
  state,        \* Future.state
  resultValue,  \* Future.resultValue
  stage,        \* where each thread is in result or exception
  timed,        \* its call has a finite timeout
  expired,      \* whose deadline has passed
  runs,         \* history: how often setRunningOrNotifyCancel returned True
  cancels,      \* history: threads to whom cancel returned True
  told          \* history: every outcome that result returned or raised

vars == <<state, resultValue, stage, timed, expired, runs, cancels, told>>

(* What result makes of a state that is done. *)
Outcomes == {"CancelledError", "RuntimeError"} \cup Threads

Outcome(s, v) ==
  CASE s = "Cancelled" -> "CancelledError"
    [] s = "Exception" -> "RuntimeError"
    [] s = "Finished" -> v

Init ==
  /\ state = "Pending"
  /\ resultValue = NoValue
  /\ stage = [t \in Threads |-> "out"]
  /\ timed = [t \in Threads |-> FALSE]
  /\ expired = [t \in Threads |-> FALSE]
  /\ runs = 0
  /\ cancels = {}
  /\ told = {}

Park(t) ==
  /\ stage' = [stage EXCEPT ![t] = "parked"]
  /\ UNCHANGED told

(* A call ends, and its locals are gone... *)
Leave(t) ==
  /\ stage' = [stage EXCEPT ![t] = "out"]
  /\ timed' = [timed EXCEPT ![t] = FALSE]
  /\ expired' = [expired EXCEPT ![t] = FALSE]

(* ...with what result makes of the state it finds; if it is not done, that  *)
(* is TimeoutError.                                                          *)
Conclude(t) ==
  /\ Leave(t)
  /\ IF state \in Done
       THEN told' = told \cup {Outcome(state, resultValue)}
       ELSE UNCHANGED told

-----------------------------------------------------------------------------
(* Wrong variants of the actions below, each a mistake the code could have   *)
(* made: the properties of this module tell them from the real ones.         *)

(* setResult does not look at the state. *)
SetResultUnchecked(t) ==
  /\ stage[t] = "out"
  /\ state' = "Finished"
  /\ resultValue' = t
  /\ stage' = WakeParked(stage)
  /\ UNCHANGED <<timed, expired, runs, cancels, told>>

(* setResult wakes one waiter. *)
SetResultNotifiesOne(t) ==
  /\ stage[t] = "out"
  /\ state \in Open
  /\ state' = "Finished"
  /\ resultValue' = t
  /\ \E W \in NotifyChoices(stage, 1) : stage' = Wake(stage, W)
  /\ UNCHANGED <<timed, expired, runs, cancels, told>>

-----------------------------------------------------------------------------
Cancel(t) ==
  /\ stage[t] = "out"
  /\ state' = AfterCancel(state)
  /\ stage' = IF state = "Pending" THEN WakeParked(stage) ELSE stage
  /\ cancels' = IF state' = "Cancelled" THEN cancels \cup {t} ELSE cancels
  /\ UNCHANGED <<resultValue, timed, expired, runs, told>>

SetRunningOrNotifyCancel(t) ==
  /\ stage[t] = "out"
  /\ IF state \in {"Pending", "Cancelled"}
       THEN /\ state' = AfterSetRunning(state)
            /\ stage' = IF state = "Cancelled" THEN WakeParked(stage) ELSE stage
            /\ runs' = IF state = "Pending" THEN runs + 1 ELSE runs
       ELSE UNCHANGED <<state, stage, runs>>
  /\ UNCHANGED <<resultValue, timed, expired, cancels, told>>

SetResult(t) ==
  /\ stage[t] = "out"
  /\ state \in Open
  /\ state' = "Finished"
  /\ resultValue' = t
  /\ stage' = WakeParked(stage)
  /\ UNCHANGED <<timed, expired, runs, cancels, told>>

SetException(t) ==
  /\ stage[t] = "out"
  /\ state \in Open
  /\ state' = "Exception"
  /\ stage' = WakeParked(stage)
  /\ UNCHANGED <<resultValue, timed, expired, runs, cancels, told>>

(* setResult or setException on a future that is done raises and changes     *)
(* nothing.                                                                  *)
SetTooLate(t) ==
  /\ stage[t] = "out"
  /\ state \in Done
  /\ UNCHANGED vars

(* result, up to its first wait; with a timeout of zero there is none.       *)
(* exception differs only in what it returns for the same state.             *)
Result(t) ==
  /\ stage[t] = "out"
  /\ \/ Conclude(t)
     \/ /\ state \notin Done
        /\ Park(t)
        /\ timed' \in {[timed EXCEPT ![t] = b] : b \in BOOLEAN}
        /\ UNCHANGED expired
  /\ UNCHANGED <<state, resultValue, runs, cancels>>

(* waitFor, with the lock regained. *)
Resume(t) ==
  /\ stage[t] = "woken"
  /\ IF state \in Done \/ expired[t]
       THEN Conclude(t) ELSE Park(t) /\ UNCHANGED <<timed, expired>>
  /\ UNCHANGED <<state, resultValue, runs, cancels>>

Timeout(t) ==
  /\ stage[t] \in {"parked", "woken"}
  /\ timed[t] /\ ~expired[t]
  /\ expired' = [expired EXCEPT ![t] = TRUE]
  /\ stage' = [stage EXCEPT ![t] = "woken"]
  /\ UNCHANGED <<state, resultValue, timed, runs, cancels, told>>

SpuriousWake(t) ==
  /\ stage[t] = "parked"
  /\ stage' = [stage EXCEPT ![t] = "woken"]
  /\ UNCHANGED <<state, resultValue, timed, expired, runs, cancels, told>>

Next ==
  \E t \in Threads :
    \/ Cancel(t) \/ SetRunningOrNotifyCancel(t)
    \/ SetResult(t) \/ SetException(t) \/ SetTooLate(t)
    \/ Result(t) \/ Resume(t) \/ Timeout(t) \/ SpuriousWake(t)

(* A woken thread regains the lock; nobody has to complete the future.       *)
Fairness == \A t \in Threads : WF_vars(Resume(t))

Spec == Init /\ [][Next]_vars /\ Fairness

-----------------------------------------------------------------------------
(* Every variable holds a value of its type, a finished future has a value,  *)
(* and nobody is parked on a future that is done.                            *)
TypeOK ==
  /\ state \in States
  /\ resultValue \in Threads \cup {NoValue}
  /\ state = "Finished" => resultValue \in Threads
  /\ stage \in [Threads -> Stages]
  /\ state \in Done => ParkedIn(stage) = {}
  /\ timed \in [Threads -> BOOLEAN]
  /\ expired \in [Threads -> BOOLEAN]
  /\ runs \in Nat
  /\ cancels \subseteq Threads
  /\ told \subseteq Outcomes

(* A future has one outcome: the task is run or the future is cancelled,     *)
(* never both, it is run once, and whoever asks for the result, whenever,    *)
(* gets the same.                                                            *)
OneOutcome ==
  /\ runs <= 1
  /\ cancels # {} => state = "Cancelled" /\ runs = 0
  /\ \A a, b \in told : a = b

(* Everyone who waits for a future that gets done returns.                   *)
WaitersReturn == \A t \in Threads : (state \in Done /\ stage[t] # "out") ~> (stage[t] = "out")
=============================================================================
