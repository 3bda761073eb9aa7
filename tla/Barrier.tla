------------------------------- MODULE Barrier -------------------------------
(***************************************************************************)
(* paw.concur.thread.Barrier: rounds of `parties' threads over a Condition *)
(* and a four-valued state.  MaxRounds bounds the completed rounds, which  *)
(* only the history counts.                                                *)
(***************************************************************************)
EXTENDS Monitor

CONSTANTS Threads, MaxParties, MaxRounds

BarrierAssumption ==
  /\ IsFiniteSet(Threads)
  /\ MaxParties \in Nat \ {0}
  /\ MaxRounds \in Nat

VARIABLES
  parties,   \* _parties
  state,     \* _state
  count,     \* _count
  stage,     \* whether each thread is outside, parked or woken ...
  place,     \* ... in the loop of _enter or in the waitFor of _wait
  index,     \* the local `index' of a thread in _wait
  deadline,  \* of the wait in progress: there is none, it is ahead or past
  result,    \* how the last wait of each thread ended
  rounds,    \* history: completed rounds
  passed     \* history: threads in _wait whose own round is complete

shared == <<state, count>>
local == <<place, index, deadline>>
vars == <<parties, shared, stage, local, result, rounds, passed>>

States == {"Filling", "Draining", "Resetting", "Broken"}
Deadlines == {"none", "ahead", "past"}

(* _enter waits in these states. *)
Emptying == {"Draining", "Resetting"}

Init ==
  /\ parties \in 1 .. MaxParties
  /\ state = "Filling"
  /\ count = 0
  /\ stage = [t \in Threads |-> "out"]
  /\ place = [t \in Threads |-> "enter"]
  /\ index = [t \in Threads |-> 0]
  /\ deadline = [t \in Threads |-> "none"]
  /\ result = [t \in Threads |-> "none"]
  /\ rounds = 0
  /\ passed = {}

(* Threads counted in: they have passed _enter and not reached _exit. *)
Inside == {t \in Threads : stage[t] # "out" /\ place[t] = "wait"}

(* A call of wait ends; its locals are gone. *)
Leave(t, st, outcome) ==
  /\ stage' = [st EXCEPT ![t] = "out"]
  /\ place' = [place EXCEPT ![t] = "enter"]
  /\ index' = [index EXCEPT ![t] = 0]
  /\ deadline' = [deadline EXCEPT ![t] = "none"]
  /\ result' = [result EXCEPT ![t] = outcome]

-----------------------------------------------------------------------------
(* Wrong variants of the definitions below, each a mistake the code could    *)
(* have made: the properties of this module tell them from the real ones.    *)

(* _exit forgets the rounds that a reset empties. *)
AfterExitDrainingOnly(s, n) == IF n = 0 /\ s = "Draining" THEN "Filling" ELSE s

(* _enter lets a thread into a round that is draining. *)
EntersDraining(t) == state \in {"Filling", "Draining"}

(* wait leaves without the finally clause's decrement. *)
ExitUncounted(t, s, n, st, outcome) ==
  /\ count' = n
  /\ state' = s
  /\ Leave(t, st, outcome)

-----------------------------------------------------------------------------
(* The effect of _exit on the state, given the count after the decrement. *)
AfterExit(s, n) == IF n = 0 /\ s \in Emptying THEN "Filling" ELSE s

(* _exit notifies if it changed the state. *)
Empties(s, n) == n = 0 /\ s \in Emptying

(* Leaving wait: the finally clause decrements the count and calls _exit.    *)
(* `s' is the state and `n' the count before it, `st' the stages with the    *)
(* wake-ups made so far.                                                     *)
Exit(t, s, n, st, outcome) ==
  /\ count' = n - 1
  /\ state' = AfterExit(s, n - 1)
  /\ Leave(t, IF Empties(s, n - 1) THEN WakeParked(st) ELSE st, outcome)

(* _break, with t about to leave: everybody is woken to see it. *)
Break(t, n) == Exit(t, "Broken", n, WakeParked(stage), "broken")

(* _release by the last thread to arrive: the action runs with the lock      *)
(* held; if it raises, the barrier breaks.                                   *)
Trip(t) ==
  \/ /\ rounds < MaxRounds
     /\ rounds' = rounds + 1
     /\ passed' = passed \cup Inside
     /\ Exit(t, "Draining", count + 1, WakeParked(stage), "index")
  \/ /\ Break(t, count + 1)
     /\ UNCHANGED <<rounds, passed>>

(* Takes the next index and parks in _wait. *)
ParkInWait(t, d) ==
  /\ count' = count + 1
  /\ index' = [index EXCEPT ![t] = count]
  /\ stage' = [stage EXCEPT ![t] = "parked"]
  /\ place' = [place EXCEPT ![t] = "wait"]
  /\ deadline' = [deadline EXCEPT ![t] = d]
  /\ UNCHANGED <<state, result, rounds, passed>>

(* What follows _enter: trip the barrier, or wait for the others until the   *)
(* deadline, which a timeout of zero has already reached.                    *)
Arrive(t, d) ==
  \/ count + 1 = parties /\ Trip(t)
  \/ /\ count + 1 # parties
     /\ d = "past"
     /\ Break(t, count + 1)
     /\ UNCHANGED <<rounds, passed>>
  \/ count + 1 # parties /\ d # "past" /\ ParkInWait(t, d)

Enters(t) == state = "Filling"

(* _enter: wait while a round empties, refuse a broken barrier. *)
Enter(t, d) ==
  \/ Enters(t) /\ Arrive(t, d)
  \/ /\ state \in Emptying /\ ~Enters(t)
     /\ stage' = [stage EXCEPT ![t] = "parked"]
     /\ deadline' = [deadline EXCEPT ![t] = d]
     /\ UNCHANGED <<shared, place, index, result, rounds, passed>>
  \/ /\ state = "Broken"
     /\ Leave(t, stage, "broken")
     /\ UNCHANGED <<shared, rounds, passed>>

(* wait, up to the first time it gives the lock away. *)
Wait(t) ==
  /\ stage[t] = "out"
  /\ \E d \in Deadlines : Enter(t, d)
  /\ UNCHANGED parties

(* Back in the loop of _enter. *)
ResumeEnter(t) ==
  /\ stage[t] = "woken" /\ place[t] = "enter"
  /\ Enter(t, deadline[t])
  /\ UNCHANGED parties

(* Back in waitFor: the round is complete, broken or reset; or the deadline  *)
(* has passed, which breaks it; or the wake-up was spurious.                 *)
ResumeWait(t) ==
  /\ stage[t] = "woken" /\ place[t] = "wait"
  /\ \/ state = "Draining" /\ Exit(t, state, count, stage, "index")
     \/ state \in {"Resetting", "Broken"} /\ Exit(t, state, count, stage, "broken")
     \/ state = "Filling" /\ deadline[t] = "past" /\ Break(t, count)
     \/ /\ state = "Filling" /\ deadline[t] # "past"
        /\ stage' = [stage EXCEPT ![t] = "parked"]
        /\ UNCHANGED <<shared, local, result>>
  /\ passed' = IF stage'[t] = "out" THEN passed \ {t} ELSE passed
  /\ UNCHANGED <<parties, rounds>>

(* A deadline runs only in _wait. *)
Timeout(t) ==
  /\ t \in Inside
  /\ deadline[t] = "ahead"
  /\ deadline' = [deadline EXCEPT ![t] = "past"]
  /\ stage' = [stage EXCEPT ![t] = "woken"]
  /\ UNCHANGED <<parties, shared, place, index, result, rounds, passed>>

SpuriousWake(t) ==
  /\ stage[t] = "parked"
  /\ stage' = [stage EXCEPT ![t] = "woken"]
  /\ UNCHANGED <<parties, shared, local, result, rounds, passed>>

Reset(t) ==
  /\ stage[t] = "out"
  /\ IF count > 0
       THEN /\ state' = IF state \in {"Filling", "Broken"} THEN "Resetting" ELSE state
            /\ stage' = WakeParked(stage)
       ELSE state' = "Filling" /\ UNCHANGED stage
  /\ UNCHANGED <<parties, count, local, result, rounds, passed>>

Abort(t) ==
  /\ stage[t] = "out"
  /\ state' = "Broken"
  /\ stage' = WakeParked(stage)
  /\ UNCHANGED <<parties, count, local, result, rounds, passed>>

Next ==
  \E t \in Threads :
    \/ Wait(t) \/ ResumeEnter(t) \/ ResumeWait(t)
    \/ Timeout(t) \/ SpuriousWake(t) \/ Reset(t) \/ Abort(t)

Resume(t) == ResumeEnter(t) \/ ResumeWait(t)

(* A woken thread regains the lock.  Nobody has to arrive. *)
Fairness == \A t \in Threads : WF_vars(Resume(t))

Spec == Init /\ [][Next]_vars /\ Fairness

-----------------------------------------------------------------------------
(* The threads of one round hold different indices, all below parties.       *)
IndicesDistinct ==
  \A t, u \in Inside : t # u => index[t] # index[u]

(* Every change of state is announced: a thread is parked in _enter only     *)
(* while a round empties, and in _wait only while the barrier fills.         *)
ParkedForAReason ==
  \A t \in ParkedIn(stage) :
    IF place[t] = "enter" THEN state \in Emptying ELSE state = "Filling"

(* Every variable holds a value of its type, _count is the number of threads *)
(* between _enter and _exit, also after a broken or reset round, and indices *)
(* and waits are in order.                                                   *)
TypeOK ==
  /\ parties \in 1 .. MaxParties
  /\ state \in States
  /\ count = Cardinality(Inside)
  /\ stage \in [Threads -> Stages]
  /\ place \in [Threads -> {"enter", "wait"}]
  /\ index \in [Threads -> 0 .. parties - 1]
  /\ deadline \in [Threads -> Deadlines]
  /\ result \in [Threads -> {"none", "index", "broken"}]
  /\ rounds \in 0 .. MaxRounds
  /\ passed \subseteq Inside
  /\ IndicesDistinct /\ ParkedForAReason

(* wait: the last arrival completes a round only with all other parties of   *)
(* that round inside, none of them left over from an earlier round, and a    *)
(* waiter returns an index only if its own round was completed.              *)
OnlyFullRoundsPass ==
  [][/\ rounds' > rounds => Cardinality(Inside \ passed) = parties - 1
     /\ \A t \in Inside :
          (stage'[t] = "out" /\ result'[t] = "index") => t \in passed]_vars

(* A round that empties comes to its end, and _enter lets the next one in.   *)
EmptyingEnds == (state \in Emptying) ~> (state \notin Emptying)
=============================================================================
