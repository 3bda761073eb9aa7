------------------------------- MODULE Monitor -------------------------------
(***************************************************************************)
(* The use of a Condition by Event, Semaphore, Barrier and Future.  Their  *)
(* code runs with the lock of the condition held from entry to return,     *)
(* except while it waits, so everything between two such points is one     *)
(* action.  What a thread is doing in a call is kept in a function from    *)
(* threads to Stages: it is outside, parked in Condition.wait, or woken    *)
(* and about to regain the lock.  Module Condition justifies the           *)
(* operators: notify(n) reaches n of the parked threads if there are that  *)
(* many, and wait returns with the lock held.                              *)
(***************************************************************************)
EXTENDS Naturals, FiniteSets

Stages == {"out", "parked", "woken"}

ParkedIn(stage) == {t \in DOMAIN stage : stage[t] = "parked"}

WokenIn(stage) == {t \in DOMAIN stage : stage[t] = "woken"}

(* The threads of W are woken. *)
Wake(stage, W) == [t \in DOMAIN stage |-> IF t \in W THEN "woken" ELSE stage[t]]

(* notifyAll *)
WakeParked(stage) == Wake(stage, ParkedIn(stage))

(* The sets of threads that notify(n) may wake. *)
NotifyChoices(stage, n) ==
  {W \in SUBSET ParkedIn(stage) :
     \/ Cardinality(W) = n
     \/ Cardinality(W) <= n /\ W = ParkedIn(stage)}
=============================================================================
