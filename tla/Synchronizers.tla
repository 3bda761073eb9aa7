---------------------------- MODULE Synchronizers ----------------------------
(***************************************************************************)
(* A set of threads uses one synchronizer: a Lock, or one of those that    *)
(* Paw code builds on a Condition, a semaphore of either kind, an event, a *)
(* barrier or a future.  The initial state chooses the subject; the others *)
(* are left alone.                                                         *)
(***************************************************************************)
EXTENDS Lock, Naturals

CONSTANTS
  MaxInitial, MaxRelease, MaxValue, NoLimit,  \* of the semaphores
  MaxParties, MaxRounds,                      \* of the barrier
  NoValue                                     \* of the future

VARIABLES
  subject,
  limit, value, semStage, semTimed, semExpired,
  flag, evStage, evTimed, evExpired, evResult,
  parties, barState, count, barStage, place, index, deadline, barResult, rounds, passed,
  futState, resultValue, futStage, futTimed, futExpired, runs, cancels, told

semVars == <<limit, value, semStage, semTimed, semExpired>>
evVars == <<flag, evStage, evTimed, evExpired, evResult>>
barVars ==
  <<parties, barState, count, barStage, place, index, deadline, barResult, rounds, passed>>
futVars ==
  <<futState, resultValue, futStage, futTimed, futExpired, runs, cancels, told>>
allVars == <<subject, vars, semVars, evVars, barVars, futVars>>

Sem == INSTANCE Semaphore WITH
  stage <- semStage, timed <- semTimed, expired <- semExpired

Ev == INSTANCE Event WITH
  stage <- evStage, timed <- evTimed, expired <- evExpired, result <- evResult

Bar == INSTANCE Barrier WITH
  state <- barState, stage <- barStage, result <- barResult

Fut == INSTANCE Future WITH
  state <- futState, stage <- futStage, timed <- futTimed, expired <- futExpired

ASSUME SynchronizersAssumption ==
  /\ Sem!SemaphoreAssumption
  /\ Ev!EventAssumption
  /\ Bar!BarrierAssumption
  /\ Fut!FutureAssumption

(* Whoever is not the subject has one initial state.                         *)
SynchronizersInit ==
  /\ subject \in {"lock", "semaphore", "event", "barrier", "future"}
  /\ Init
  /\ Sem!Init /\ (subject # "semaphore" => limit = 0)
  /\ Ev!Init
  /\ Bar!Init /\ (subject # "barrier" => parties = 1)
  /\ Fut!Init

SynchronizersNext ==
  /\ UNCHANGED subject
  /\ \/ /\ subject = "lock" /\ Next
        /\ UNCHANGED <<semVars, evVars, barVars, futVars>>
     \/ /\ subject = "semaphore" /\ Sem!Next
        /\ UNCHANGED <<vars, evVars, barVars, futVars>>
     \/ /\ subject = "event" /\ Ev!Next
        /\ UNCHANGED <<vars, semVars, barVars, futVars>>
     \/ /\ subject = "barrier" /\ Bar!Next
        /\ UNCHANGED <<vars, semVars, evVars, futVars>>
     \/ /\ subject = "future" /\ Fut!Next
        /\ UNCHANGED <<vars, semVars, evVars, barVars>>

SynchronizersSpec ==
  /\ SynchronizersInit /\ [][SynchronizersNext]_allVars
  /\ Fairness /\ Ev!Fairness /\ Bar!Fairness /\ Fut!Fairness

-----------------------------------------------------------------------------
(* The type invariants.  They also say that the flag of a lock goes with its *)
(* holder, that a semaphore keeps its bounds, that a flag that is set and a  *)
(* future that is done leave nobody parked, that a barrier counts the        *)
(* threads inside, gives those of a round different indices, and that who    *)
(* waits there has something to wait for.                                    *)
TypesAndCounts == TypeOK /\ Sem!TypeOK /\ Ev!TypeOK /\ Bar!TypeOK /\ Fut!TypeOK

(* Semaphore.release: no permit is added without a wake-up for it.           *)
NoLostPermit == Sem!NoLostPermit

(* Barrier.wait: a round completes with all of its parties and no others.    *)
OnlyFullRoundsPass == Bar!OnlyFullRoundsPass

(* Future: there is one outcome, whoever asks and when, and a task is run or *)
(* cancelled.                                                                *)
OneOutcome == Fut!OneOutcome

(* Waits end: a timed acquire returns, an event that stays set releases its  *)
(* waiters, a round that empties makes room for the next, and whoever waits  *)
(* for a future that gets done returns (acquire_lock_state, Event.set,       *)
(* Barrier._exit, Future.result).                                            *)
WaitsEnd ==
  TimedCallReturns /\ Ev!SetReleasesWaiters /\ Bar!EmptyingEnds /\ Fut!WaitersReturn
=============================================================================
