---------------------------- MODULE BlockingQueue ----------------------------
(***************************************************************************)
(* paw.concur.thread.Queue: the multi-producer, multi-consumer queue of    *)
(* -thread.inl.  A QueueState is a std::mutex, three condition variables,  *)
(* the items, the count of unfinished tasks and two shutdown flags.        *)
(*                                                                         *)
(* The code between taking and dropping the std::mutex is one action; the  *)
(* notifications that put, get and shutdown make after dropping it are     *)
(* actions of their own.  Items are the numbers of the puts that added     *)
(* them, MaxPuts bounds the puts.                                          *)
(***************************************************************************)
EXTENDS Naturals, Sequences, FiniteSets

CONSTANTS Threads, MaxSize, MaxPuts

ASSUME QueueAssumption ==
  /\ IsFiniteSet(Threads)
  /\ MaxSize \in Nat
  /\ MaxPuts \in Nat

VARIABLES
  items,       \* QueueState.items
  unfinished,  \* QueueState.unfinished_tasks
  closed,      \* QueueState.shutdown
  immediate,   \* QueueState.immediate
  pc,          \* where each thread is
  patience,    \* what the (block, timeout) of the call in progress still allow
  accepted,    \* history: puts that added their item
  delivered,   \* history: the items returned by get, in order
  taken        \* history: items each thread got and has not acknowledged

state == <<items, unfinished, closed, immediate>>
history == <<accepted, delivered, taken>>
vars == <<state, pc, patience, history>>

(* The deadline is ahead, or "past" if it has been reached or block is False. *)
Patience == {"ahead", "past", "endless"}

Calls == {"put", "get", "join"}
Waits == {"put_parked", "get_parked", "join_parked"}
Notes == {"note_not_empty", "note_not_full"}
Closings == {"close_not_empty", "close_not_full", "close_all_done"}
Locations == {"idle"} \cup Calls \cup Waits \cup Notes \cup Closings

At(place) == {t \in Threads : pc[t] = place}

(* The call each parked thread goes back to. *)
CallOf(wait) ==
  CASE wait = "put_parked" -> "put"
    [] wait = "get_parked" -> "get"
    [] wait = "join_parked" -> "join"

Init ==
  /\ items = <<>>
  /\ unfinished = 0
  /\ closed = FALSE
  /\ immediate = FALSE
  /\ pc = [t \in Threads |-> "idle"]
  /\ patience = [t \in Threads |-> "endless"]
  /\ accepted = 0
  /\ delivered = <<>>
  /\ taken = [t \in Threads |-> 0]

Goto(t, place) == pc' = [pc EXCEPT ![t] = place]

(* The call of t returns or raises, and t goes on to place. *)
Finish(t, place) ==
  /\ Goto(t, place)
  /\ patience' = [patience EXCEPT ![t] = "endless"]

Full == MaxSize > 0 /\ Len(items) >= MaxSize
Empty == items = <<>>
GivesUp(t) == patience[t] = "past"

-----------------------------------------------------------------------------
(* Wrong variants of the definitions below, each a mistake the code could    *)
(* have made: the properties of this module tell them from the real ones.    *)

(* get takes the newest item. *)
GetLast(t) ==
  /\ pc[t] = "get"
  /\ ~Empty /\ ~immediate
  /\ items' = SubSeq(items, 1, Len(items) - 1)
  /\ delivered' = Append(delivered, items[Len(items)])
  /\ taken' = [taken EXCEPT ![t] = @ + 1]
  /\ Finish(t, "note_not_full")
  /\ UNCHANGED <<unfinished, closed, immediate, accepted>>

(* put does not count the task. *)
PutUncounted(t) ==
  /\ pc[t] = "put"
  /\ ~closed /\ ~Full
  /\ items' = Append(items, accepted + 1)
  /\ accepted' = accepted + 1
  /\ Finish(t, "note_not_empty")
  /\ UNCHANGED <<unfinished, closed, immediate, delivered, taken>>

(* get does not notify the producers. *)
GetSilently(t) ==
  /\ pc[t] = "get"
  /\ ~Empty /\ ~immediate
  /\ items' = Tail(items)
  /\ delivered' = Append(delivered, Head(items))
  /\ taken' = [taken EXCEPT ![t] = @ + 1]
  /\ Finish(t, "idle")
  /\ UNCHANGED <<unfinished, closed, immediate, accepted>>

(* shutdown wakes only the consumers. *)
AfterCloseOnlyGetters(place) == "idle"

-----------------------------------------------------------------------------
(* The start of put, get or join; the bound is on puts. *)
CallPut(t) ==
  /\ pc[t] = "idle"
  /\ accepted + Cardinality(At("put") \cup At("put_parked")) < MaxPuts
  /\ patience' \in {[patience EXCEPT ![t] = p] : p \in Patience}
  /\ Goto(t, "put")
  /\ UNCHANGED <<state, history>>

CallGet(t) ==
  /\ pc[t] = "idle"
  /\ patience' \in {[patience EXCEPT ![t] = p] : p \in Patience}
  /\ Goto(t, "get")
  /\ UNCHANGED <<state, history>>

CallJoin(t) ==
  /\ pc[t] = "idle"
  /\ Goto(t, "join")
  /\ UNCHANGED <<state, patience, history>>

(* put adds its item; a closed queue takes none, full or not, and raises     *)
(* ShutDownError; so does get on a closed queue that is empty.  FullError    *)
(* and EmptyError end the calls that give up.                                *)
Put(t) ==
  /\ pc[t] = "put"
  /\ ~closed /\ ~Full
  /\ items' = Append(items, accepted + 1)
  /\ unfinished' = unfinished + 1
  /\ accepted' = accepted + 1
  /\ Finish(t, "note_not_empty")
  /\ UNCHANGED <<closed, immediate, delivered, taken>>

PutFails(t) ==
  /\ pc[t] = "put"
  /\ closed \/ (Full /\ GivesUp(t))
  /\ Finish(t, "idle")
  /\ UNCHANGED <<state, history>>

PutWaits(t) ==
  /\ pc[t] = "put"
  /\ ~closed /\ Full /\ ~GivesUp(t)
  /\ Goto(t, "put_parked")
  /\ UNCHANGED <<state, patience, history>>

(* get removes the oldest item, also from a queue that is closed. *)
Get(t) ==
  /\ pc[t] = "get"
  /\ ~Empty /\ ~immediate
  /\ items' = Tail(items)
  /\ delivered' = Append(delivered, Head(items))
  /\ taken' = [taken EXCEPT ![t] = @ + 1]
  /\ Finish(t, "note_not_full")
  /\ UNCHANGED <<unfinished, closed, immediate, accepted>>

GetFails(t) ==
  /\ pc[t] = "get"
  /\ (closed /\ (Empty \/ immediate)) \/ (Empty /\ GivesUp(t))
  /\ Finish(t, "idle")
  /\ UNCHANGED <<state, history>>

GetWaits(t) ==
  /\ pc[t] = "get"
  /\ ~closed /\ Empty /\ ~GivesUp(t)
  /\ Goto(t, "get_parked")
  /\ UNCHANGED <<state, patience, history>>

Join(t) ==
  /\ pc[t] = "join"
  /\ unfinished = 0 \/ immediate
  /\ Finish(t, "idle")
  /\ UNCHANGED <<state, history>>

JoinWaits(t) ==
  /\ pc[t] = "join"
  /\ unfinished > 0 /\ ~immediate
  /\ Goto(t, "join_parked")
  /\ UNCHANGED <<state, patience, history>>

(* The joiners that taskDone wakes, under the mutex. *)
WakeJoiners(left) == IF left = 0 THEN At("join_parked") ELSE {}

(* taskDone by a thread that has an item to acknowledge.  shutdown may have  *)
(* zeroed the count in the meantime: then it raises ValueError.              *)
TaskDone(t) ==
  /\ pc[t] = "idle"
  /\ taken[t] > 0
  /\ taken' = [taken EXCEPT ![t] = @ - 1]
  /\ \/ /\ unfinished > 0
        /\ unfinished' = unfinished - 1
        /\ pc' = [u \in Threads |->
                    IF u \in WakeJoiners(unfinished - 1) THEN "join" ELSE pc[u]]
     \/ unfinished = 0 /\ UNCHANGED <<unfinished, pc>>
  /\ UNCHANGED <<items, closed, immediate, patience, accepted, delivered>>

(* shutdown(immediate=False) and shutdown(immediate=True). *)
Shutdown(t) ==
  /\ pc[t] = "idle"
  /\ closed' = TRUE
  /\ Goto(t, "close_not_empty")
  /\ UNCHANGED <<items, unfinished, immediate, patience, history>>

ShutdownNow(t) ==
  /\ pc[t] = "idle"
  /\ closed' = TRUE
  /\ immediate' = TRUE
  /\ items' = <<>>
  /\ unfinished' = 0
  /\ Goto(t, "close_not_empty")
  /\ UNCHANGED <<patience, history>>

(* The condition variable a thread notifies, by the wait of its waiters. *)
WaitOf(place) ==
  IF place \in {"note_not_empty", "close_not_empty"} THEN "get_parked"
  ELSE IF place \in {"note_not_full", "close_not_full"} THEN "put_parked"
  ELSE "join_parked"

(* notify_one on not_empty after put, on not_full after get. *)
NotifyOne(t) ==
  /\ pc[t] \in Notes
  /\ LET wait == WaitOf(pc[t])
     IN  \/ At(wait) = {} /\ Goto(t, "idle")
         \/ \E w \in At(wait) :
              pc' = [pc EXCEPT ![t] = "idle", ![w] = CallOf(wait)]
  /\ UNCHANGED <<state, patience, history>>

(* What shutdown does after each of its three notify_all. *)
AfterClose(place) ==
  CASE place = "close_not_empty" -> "close_not_full"
    [] place = "close_not_full" -> "close_all_done"
    [] place = "close_all_done" -> "idle"

NotifyAll(t) ==
  /\ pc[t] \in Closings
  /\ LET wait == WaitOf(pc[t])
     IN  pc' = [u \in Threads |->
                  IF u = t THEN AfterClose(pc[t])
                  ELSE IF u \in At(wait) THEN CallOf(wait) ELSE pc[u]]
  /\ UNCHANGED <<state, patience, history>>

(* The deadline passes, which also ends the wait. *)
Expire(t) ==
  /\ patience[t] = "ahead"
  /\ patience' = [patience EXCEPT ![t] = "past"]
  /\ Goto(t, IF pc[t] \in Waits THEN CallOf(pc[t]) ELSE pc[t])
  /\ UNCHANGED <<state, history>>

SpuriousWake(t) ==
  /\ pc[t] \in Waits
  /\ Goto(t, CallOf(pc[t]))
  /\ UNCHANGED <<state, patience, history>>

Next ==
  \E t \in Threads :
    \/ CallPut(t) \/ CallGet(t) \/ CallJoin(t)
    \/ Put(t) \/ PutFails(t) \/ PutWaits(t)
    \/ Get(t) \/ GetFails(t) \/ GetWaits(t)
    \/ Join(t) \/ JoinWaits(t)
    \/ TaskDone(t) \/ Shutdown(t) \/ ShutdownNow(t)
    \/ NotifyOne(t) \/ NotifyAll(t) \/ Expire(t) \/ SpuriousWake(t)

Spec == Init /\ [][Next]_vars

-----------------------------------------------------------------------------
(* The items that consumers have to acknowledge, the k-th of each.           *)
ToAcknowledge == UNION {{t} \X (1 .. taken[t]) : t \in Threads}
Acknowledgeable == Cardinality(ToAcknowledge)

(* unfinished_tasks counts the items in the queue and those that a consumer  *)
(* has taken and not acknowledged, until an immediate shutdown.              *)
UnfinishedCounted ==
  ~immediate => unfinished = Len(items) + Acknowledgeable

(* Every variable holds a value of its type, the queue keeps its bound and   *)
(* the count of unfinished tasks is exact.                                   *)
TypeOK ==
  /\ items \in Seq(Nat)
  /\ MaxSize > 0 => Len(items) <= MaxSize
  /\ unfinished \in Nat
  /\ closed \in BOOLEAN /\ immediate \in BOOLEAN
  /\ immediate => closed
  /\ pc \in [Threads -> Locations]
  /\ patience \in [Threads -> Patience]
  /\ accepted \in Nat
  /\ delivered \in Seq(Nat)
  /\ taken \in [Threads -> Nat]
  /\ UnfinishedCounted

(* notify_one runs after the mutex is dropped: as long as a consumer is      *)
(* parked, every item has a notification or an awake consumer on its way to  *)
(* it, and likewise every free place while a producer is parked.             *)
NoLostWakeup ==
  /\ (~closed /\ At("get_parked") # {}) =>
       Len(items) <= Cardinality(At("note_not_empty")) + Cardinality(At("get"))
  /\ (~closed /\ At("put_parked") # {}) =>
       MaxSize <= Len(items) + Cardinality(At("note_not_full")) + Cardinality(At("put"))

(* shutdown reaches everyone: a thread that is still parked on a closed      *)
(* queue has its notify_all before it, and join waits only for a reason.     *)
ClosedQueueHoldsNobody ==
  /\ (closed /\ At("get_parked") # {}) => At("close_not_empty") # {}
  /\ (closed /\ At("put_parked") # {}) =>
       At("close_not_empty") \cup At("close_not_full") # {}
  /\ (At("join_parked") # {} /\ (unfinished = 0 \/ immediate)) =>
       {t \in Threads : pc[t] \in Closings} # {}

(* The queue is the abstract one. *)
Abstract == INSTANCE FifoQueue WITH dropped <- immediate

ImplementsFifoQueue == Abstract!QueueSpec

(* put and get: every item is delivered once and in the order of the puts.   *)
FifoExactlyOnce == Abstract!FifoExactlyOnce
=============================================================================
