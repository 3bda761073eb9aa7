---------------------------- MODULE TaskScheduler ----------------------------
(***************************************************************************)
(* paw.concur.task: the cooperative scheduler behind Task.run.  Slots are  *)
(* numbered from 1, the root coroutine being the first.  One OS thread     *)
(* pops slots off `ready' and advances them; when `ready' is empty it      *)
(* counts a period, looks at the handles that are waited for and fires the *)
(* timers.  Only the job of Task.runThread runs elsewhere.                 *)
(*                                                                         *)
(* What a coroutine does between two awaits is left open: it may call any  *)
(* of Task.create, sleep, waitRead, runThread and gather, then awaits a    *)
(* task, returns or raises; so an await that raises, that of a task whose  *)
(* job failed, is like one that returns.  The wake-up period of a timer is *)
(* kept as the number of periods left, which makes periodCount superfluous.*)
(***************************************************************************)
EXTENDS Integers, FiniteSets, SequencesExt

CONSTANTS
  MaxTasks,     \* bound: slots of one run
  MaxPeriods,   \* bound: periods that a sleep takes
  MaxChildren,  \* bound: tasks given to one gather
  MaxLinks      \* bound: wait links, those to finished tasks included

ASSUME SchedulerAssumption ==
  /\ MaxTasks \in Nat \ {0}
  /\ MaxPeriods \in Nat \ {0}
  /\ MaxChildren \in Nat
  /\ MaxLinks \in Nat

VARIABLES
  kind,           \* the kind of each slot, "none" for an id not given out yet
  done,           \* the slots marked done
  ready,          \* Scheduler._ready
  waitLinks,      \* Scheduler._waitLinks: of each target, those who wait for it
  timers,         \* Scheduler._timers
  ioWaits,        \* Scheduler._ioWaits: the tasks of the entries
  gatherLinks,    \* Scheduler._gatherLinks
  pending,        \* _GatherSlot._pending
  filled,         \* the indexes of _GatherSlot._results that hold a result
  awaits,         \* the target of the await a coroutine is suspended in
  jobs,           \* the tasks whose job a thread of their pool is running
  failed,         \* the tasks whose job raised: to ask for their result raises
  running,        \* the coroutine whose code is executing
  nextTaskId,     \* _SchedState.nextTaskId
  haveScheduler,  \* _SchedState.haveScheduler
  inRun           \* some call of Task.run is on the stack

tables == <<kind, done, waitLinks, gatherLinks, pending, filled>>
vars == <<tables, ready, timers, ioWaits, awaits, jobs, failed, running,
          nextTaskId, haveScheduler, inRun>>

Tasks == 1..MaxTasks
NoTask == 0
Root == 1

(* "unset" is a gather slot whose call of gather raised before it was set up. *)
Kinds == {"none", "coro", "sleep", "gather", "unset", "thread", "io"}

Known == {t \in Tasks : kind[t] # "none"}
Undone == Known \ done

(* The tasks there are handles of: Task.run gives none for its root, nor      *)
(* does a call of gather that raises.                                        *)
Handles == {t \in Known \ {Root} : kind[t] # "unset"}

(* The lists that gather takes, which may name a task twice.                 *)
Children == UNION {[1..n -> Handles] : n \in 0..MaxChildren}

Init ==
  /\ kind = [t \in Tasks |-> "none"]
  /\ done = {}
  /\ ready = <<>> /\ timers = <<>> /\ ioWaits = <<>> /\ gatherLinks = <<>>
  /\ waitLinks = [t \in Tasks |-> <<>>]
  /\ pending = [t \in Tasks |-> 0]
  /\ filled = [t \in Tasks |-> {}]
  /\ awaits = [t \in Tasks |-> NoTask]
  /\ jobs = {} /\ failed = {}
  /\ running = NoTask
  /\ nextTaskId = Root
  /\ haveScheduler = FALSE
  /\ inRun = FALSE

-----------------------------------------------------------------------------
(* The part of the state that finishing a slot changes, and the lists that a *)
(* tick goes through, as one value that _finishSlot maps to its successor:   *)
(* several slots may finish in a step.                                       *)
Board ==
  [done |-> done, ready |-> ready, links |-> waitLinks, timers |-> timers,
   ioWaits |-> ioWaits, pending |-> pending, filled |-> filled]

Becomes(b) ==
  /\ done' = b.done /\ ready' = b.ready /\ waitLinks' = b.links
  /\ timers' = b.timers /\ ioWaits' = b.ioWaits
  /\ pending' = b.pending /\ filled' = b.filled

(* Wrong variants of the two operators that follow. *)

(* _wakeWaiters drops the links without queueing those who wait. *)
WakeNobody(b, t) == [b EXCEPT !.links[t] = <<>>]

(* onChildDone does not finish the gather. *)
TellOnly(b, link) ==
  IF link.child \in failed THEN b
  ELSE [b EXCEPT !.filled[link.gather] = @ \union {link.index},
                 !.pending[link.gather] = @ - 1]

(* _wakeWaiters *)
Wake(b, t) ==
  [b EXCEPT !.ready = @ \o b.links[t], !.links[t] = <<>>]

(* onChildDone of the gather slot, and the _finishSlot that follows when     *)
(* this was its last child: it wakes, but tells no gather of its own.  With  *)
(* a child whose job failed, _slotResult raises before a thing is stored.    *)
Tell(b, link) ==
  LET left == b.pending[link.gather] - 1
      told == [b EXCEPT !.filled[link.gather] = @ \union {link.index},
                        !.pending[link.gather] = left]
  IN  IF link.child \in failed THEN b
      ELSE IF left = 0
      THEN Wake([told EXCEPT !.done = @ \union {link.gather}], link.gather)
      ELSE told

(* The exception leaves the loop over the links, which have one child and    *)
(* are all left untold, and then _finishSlot.                                *)
FinishRaises(t) == t \in failed /\ \E l \in ToSet(gatherLinks) : l.child = t

(* markDone and _finishSlot of a slot that is not a gather, whose gathers    *)
(* are told in the order of their links.                                     *)
FinishSlot(b, t) ==
  LET told[n \in 0 .. Len(gatherLinks)] ==
        IF n = 0 THEN Wake([b EXCEPT !.done = @ \union {t}], t)
        ELSE IF gatherLinks[n].child = t THEN Tell(told[n - 1], gatherLinks[n])
        ELSE told[n - 1]
  IN  told[Len(gatherLinks)]

(* One entry of _fireIo; the lists are made anew from the entries kept.      *)
FireIo(b, t, arrived) ==
  IF t \in b.done THEN b
  ELSE IF t \in arrived THEN FinishSlot(b, t)
  ELSE [b EXCEPT !.ioWaits = Append(@, t)]

(* One entry of _fireTimers.                                                 *)
FireTimer(b, entry) ==
  IF entry.left > 1
  THEN [b EXCEPT !.timers = Append(@, [entry EXCEPT !.left = @ - 1])]
  ELSE IF entry.task \in b.done THEN b
  ELSE IF kind[entry.task] = "sleep" THEN FinishSlot(b, entry.task)
  ELSE [b EXCEPT !.ready = Append(@, entry.task)]

(* _fireIo and _fireTimers                                                   *)
FireAllIo(b, arrived) ==
  LET fired[n \in 0 .. Len(ioWaits)] ==
        IF n = 0 THEN [b EXCEPT !.ioWaits = <<>>]
        ELSE FireIo(fired[n - 1], ioWaits[n], arrived)
  IN  fired[Len(ioWaits)]

FireAllTimers(b) ==
  LET fired[n \in 0 .. Len(timers)] ==
        IF n = 0 THEN [b EXCEPT !.timers = <<>>]
        ELSE FireTimer(fired[n - 1], timers[n])
  IN  fired[Len(timers)]

-----------------------------------------------------------------------------
(* Wrong variants of definitions below.                                      *)

(* _addWait does not look whether the target is done. *)
AddWaitBlindly(c, t) ==
  /\ waitLinks' = [waitLinks EXCEPT ![t] = Append(@, c)]
  /\ UNCHANGED ready

(* A poll that finds the job unfinished is not repeated. *)
PollOnce(t) ==
  /\ IF t \notin jobs
     THEN /\ Becomes(FinishSlot([Board EXCEPT !.ready = Tail(@)], t))
          /\ inRun' = ~FinishRaises(t)
     ELSE /\ ready' = Tail(ready)
          /\ UNCHANGED <<done, waitLinks, timers, ioWaits, pending, filled, inRun>>
  /\ UNCHANGED <<awaits, running>>

-----------------------------------------------------------------------------
(* The code of the coroutine that is running, up to where it hands control   *)
(* back.                                                                     *)

(* Every slot gets the next id. *)
Allocate(k) ==
  /\ running # NoTask
  /\ nextTaskId \in Tasks
  /\ kind' = [kind EXCEPT ![nextTaskId] = k]
  /\ nextTaskId' = nextTaskId + 1
  /\ UNCHANGED <<failed, running, awaits, haveScheduler, inRun>>

(* Task.create *)
Create ==
  /\ Allocate("coro")
  /\ ready' = Append(ready, nextTaskId)
  /\ UNCHANGED <<done, waitLinks, gatherLinks, pending, filled, timers, ioWaits, jobs>>

(* Task.sleep; _secsToPeriods gives at least one period, so the timer never  *)
(* fires at once.                                                            *)
Sleep ==
  /\ Allocate("sleep")
  /\ \E n \in 1..MaxPeriods :
       timers' = Append(timers, [task |-> nextTaskId, left |-> n])
  /\ UNCHANGED <<done, ready, waitLinks, gatherLinks, pending, filled, ioWaits, jobs>>

(* Task.runThread: a pool of one worker, and a slot that is polled.          *)
RunThread ==
  /\ Allocate("thread")
  /\ jobs' = jobs \union {nextTaskId}
  /\ ready' = Append(ready, nextTaskId)
  /\ UNCHANGED <<done, waitLinks, gatherLinks, pending, filled, timers, ioWaits>>

(* Task.waitRead and waitWrite: the entry stays although the handle is ready *)
(* at once.                                                                  *)
WaitIo ==
  /\ Allocate("io")
  /\ ioWaits' = Append(ioWaits, nextTaskId)
  /\ \/ UNCHANGED done
     \/ done' = done \union {nextTaskId}
  /\ UNCHANGED <<ready, waitLinks, gatherLinks, pending, filled, timers, jobs>>

(* Task.gather: the children that are done hand in their results now.        *)
Gather ==
  /\ Allocate("gather")
  /\ \E children \in Children :
       /\ Range(children) \cap done \cap failed = {}
       /\ LET early == {i \in DOMAIN children : children[i] \in done}
              late == Len(children) - Cardinality(early)
          IN  /\ filled' = [filled EXCEPT ![nextTaskId] = early]
              /\ pending' = [pending EXCEPT ![nextTaskId] = late]
              /\ done' = IF late = 0 THEN done \union {nextTaskId} ELSE done
              /\ gatherLinks' = gatherLinks \o
                   [i \in DOMAIN children |->
                      [gather |-> nextTaskId, index |-> i, child |-> children[i]]]
  /\ UNCHANGED <<ready, waitLinks, timers, ioWaits, jobs>>

(* Task.gather with a child whose job failed: the slot has been registered,  *)
(* nothing else is done, and the coroutine gets the exception, which it may  *)
(* catch.                                                                    *)
GatherRaises ==
  /\ Allocate("unset")
  /\ \E children \in Children : Range(children) \cap done \cap failed # {}
  /\ UNCHANGED <<done, ready, waitLinks, gatherLinks, pending, filled, timers,
                 ioWaits, jobs>>

(* _addWait *)
AddWait(c, t) ==
  /\ waitLinks' = [waitLinks EXCEPT ![t] = Append(@, c)]
  /\ ready' = IF t \in done THEN Append(ready, c) ELSE ready

(* await: the iterator of a task yields at least once, even if it is done.   *)
Await ==
  /\ running # NoTask
  /\ Cardinality(UNION {{x} \X DOMAIN waitLinks[x] : x \in Tasks}) < MaxLinks
  /\ \E t \in Handles :
       /\ awaits' = [awaits EXCEPT ![running] = t]
       /\ AddWait(running, t)
  /\ running' = NoTask
  /\ UNCHANGED <<kind, done, gatherLinks, pending, filled, timers, ioWaits, jobs,
                 failed, nextTaskId, haveScheduler, inRun>>

(* The coroutine returns. *)
Return ==
  /\ running # NoTask
  /\ Becomes(FinishSlot(Board, running))
  /\ running' = NoTask
  /\ UNCHANGED <<kind, gatherLinks, awaits, jobs, failed, nextTaskId,
                 haveScheduler, inRun>>

(* An exception of the coroutine leaves through advance, pump and Task.run,  *)
(* which does not take haveScheduler back.                                   *)
Raise ==
  /\ running # NoTask
  /\ running' = NoTask
  /\ inRun' = FALSE
  /\ UNCHANGED <<tables, ready, timers, ioWaits, awaits, jobs, failed,
                 nextTaskId, haveScheduler>>

Code ==
  \/ Create \/ Sleep \/ RunThread \/ WaitIo \/ Gather \/ GatherRaises
  \/ Await \/ Return \/ Raise

-----------------------------------------------------------------------------
(* Task.run and the loop in it.                                              *)

(* Task.run: everything of the previous run is thrown away.  dropAllSlots    *)
(* shuts the pools of runThread down and so waits for the jobs left over.    *)
Run ==
  /\ ~inRun /\ ~haveScheduler
  /\ jobs = {}
  /\ failed' = {}
  /\ kind' = [t \in Tasks |-> IF t = Root THEN "coro" ELSE "none"]
  /\ done' = {}
  /\ ready' = <<Root>>
  /\ waitLinks' = [t \in Tasks |-> <<>>]
  /\ timers' = <<>> /\ ioWaits' = <<>> /\ gatherLinks' = <<>>
  /\ pending' = [t \in Tasks |-> 0]
  /\ filled' = [t \in Tasks |-> {}]
  /\ awaits' = [t \in Tasks |-> NoTask]
  /\ nextTaskId' = Root + 1
  /\ haveScheduler' = TRUE /\ inRun' = TRUE
  /\ UNCHANGED <<jobs, running>>

Pumping == inRun /\ running = NoTask /\ Root \notin done

(* advance of a thread slot: done if its future is, else polled next period. *)
(* The exception of a gather that is told of a failed job leaves pump and    *)
(* Task.run, as in Raise.                                                    *)
PollThread(t) ==
  /\ IF t \notin jobs
     THEN /\ Becomes(FinishSlot([Board EXCEPT !.ready = Tail(@)], t))
          /\ inRun' = ~FinishRaises(t)
     ELSE /\ ready' = Tail(ready)
          /\ timers' = Append(timers, [task |-> t, left |-> 1])
          /\ UNCHANGED <<done, waitLinks, ioWaits, pending, filled, inRun>>
  /\ UNCHANGED <<awaits, running>>

(* advance of a coroutine: the await that it is suspended in returns if its  *)
(* target is done, and yields again if not.                                  *)
AdvanceCoro(c) ==
  LET t == awaits[c] IN
  /\ IF t \in Undone
     THEN /\ waitLinks' = [waitLinks EXCEPT ![t] = Append(@, c)]
          /\ UNCHANGED <<awaits, running>>
     ELSE /\ awaits' = [awaits EXCEPT ![c] = NoTask]
          /\ running' = c
          /\ UNCHANGED waitLinks
  /\ ready' = Tail(ready)
  /\ UNCHANGED <<done, timers, ioWaits, pending, filled, inRun>>

(* _runOnce with a slot to take: one that is done, or that has no code, is   *)
(* passed over.                                                              *)
RunOnce ==
  /\ Pumping
  /\ ready # <<>>
  /\ LET t == Head(ready) IN
       IF t \in Undone /\ kind[t] = "thread" THEN PollThread(t)
       ELSE IF t \in Undone /\ kind[t] = "coro" THEN AdvanceCoro(t)
       ELSE /\ ready' = Tail(ready)
            /\ UNCHANGED <<done, waitLinks, timers, ioWaits, pending, filled,
                           awaits, running, inRun>>
  /\ UNCHANGED <<kind, gatherLinks, jobs, failed, nextTaskId, haveScheduler>>

(* _tick: a period is over.  Any of the handles waited for may be ready.     *)
Tick ==
  /\ Pumping
  /\ ready = <<>>
  /\ \E arrived \in SUBSET (ToSet(ioWaits) \ done) :
       Becomes(FireAllTimers(FireAllIo(Board, arrived)))
  /\ UNCHANGED <<kind, gatherLinks, awaits, jobs, failed, running, nextTaskId,
                 haveScheduler, inRun>>

(* The root is done: Task.run returns its result.                            *)
EndRun ==
  /\ inRun /\ running = NoTask /\ Root \in done
  /\ inRun' = FALSE
  /\ haveScheduler' = FALSE
  /\ UNCHANGED <<tables, ready, timers, ioWaits, awaits, jobs, failed, running,
                 nextTaskId>>

(* The job of a thread slot returns or raises, in the worker of its pool.    *)
JobEnds(t) ==
  /\ t \in jobs
  /\ jobs' = jobs \ {t}
  /\ failed' \in {failed, failed \union {t}}
  /\ UNCHANGED <<tables, ready, timers, ioWaits, awaits, running, nextTaskId,
                 haveScheduler, inRun>>

Loop == RunOnce \/ Tick \/ EndRun \/ Code

Next == Run \/ Loop \/ \E t \in Tasks : JobEnds(t)

(* The thread that called Task.run goes on, and no coroutine computes for    *)
(* ever between two awaits.                                                  *)
Fairness == WF_vars(Loop)

Spec == Init /\ [][Next]_vars /\ Fairness

-----------------------------------------------------------------------------
Indexes(g) == {i \in 1..MaxChildren : \E l \in ToSet(gatherLinks) :
                 l.gather = g /\ l.index = i}

ChildOf(g, i) ==
  (CHOOSE l \in ToSet(gatherLinks) : l.gather = g /\ l.index = i).child

(* Besides the types: a gather has as many results to come as indexes are    *)
(* empty, is done when there are none, and an index is filled exactly when   *)
(* its child is done and did not fail - unless the child is a gather that    *)
(* was not done when it was given, of which the parent is never told.  A run *)
(* that goes on has no gather with a child that is done and failed: the call *)
(* of gather raised, or the run ended when the gather was told.              *)
TypeOK ==
  /\ kind \in [Tasks -> Kinds]
  /\ done \subseteq Known
  /\ ready \in Seq(Known)
  /\ waitLinks \in [Tasks -> Seq(Known)]
  /\ timers \in Seq([task : Known, left : 1..MaxPeriods])
  /\ ioWaits \in Seq(Known)
  /\ gatherLinks \in Seq([gather : Known, index : 1..MaxChildren, child : Known])
  /\ awaits \in [Tasks -> Known \union {NoTask}]
  /\ running \in Known \union {NoTask}
  /\ jobs \union failed \subseteq {t \in Known : kind[t] = "thread"}
  /\ jobs \cap (done \union failed) = {}
  /\ nextTaskId = Cardinality(Known) + 1
  /\ inRun => haveScheduler
  /\ \A g \in Known : kind[g] = "gather" =>
       /\ pending[g] = Cardinality(Indexes(g) \ filled[g])
       /\ (g \in done) <=> (pending[g] = 0)
       /\ \A i \in Indexes(g) :
            /\ IF kind[ChildOf(g, i)] = "gather"
               THEN i \in filled[g] => ChildOf(g, i) \in done
               ELSE (i \in filled[g]) <=> (ChildOf(g, i) \in done \ failed)
            /\ inRun => ChildOf(g, i) \notin done \cap failed

(* What will bring an unfinished slot back: its places in `ready', its links *)
(* to unfinished targets, its timers, its entries among the handles.         *)
Tickets(b, t) ==
  LET In(list, of, s) == {<<list, of, i>> : i \in {j \in DOMAIN s : s[j] = t}}
  IN  In("ready", NoTask, b.ready)
      \union In("timers", NoTask, [i \in DOMAIN b.timers |-> b.timers[i].task])
      \union In("ioWaits", NoTask, b.ioWaits)
      \union UNION {In("waitLinks", x, b.links[x]) : x \in Tasks \ b.done}

(* While a run is on, every unfinished slot that has code, a timer or a      *)
(* handle waits in exactly one place, and the coroutine that is executing in *)
(* none: with none a task would never be resumed, with two its code would be *)
(* entered while it waits for something else (_addWait, _wakeWaiters,        *)
(* _fireTimers, _fireIo and the wake-up of a target that is done already).   *)
OneTicket ==
  inRun => \A t \in Undone :
    kind[t] \notin {"gather", "unset"} =>
      Cardinality(Tickets(Board, t)) = IF t = running THEN 0 ELSE 1

(* What await promises: once the awaited task is done the coroutine goes on, *)
(* or the run ends first.                                                    *)
AwaiterResumes ==
  \A c \in Tasks :
    (inRun /\ awaits[c] \in done) ~> (~inRun \/ awaits[c] \notin done)

(* Timers are looked at in idle periods only.  If these keep coming, a sleep *)
(* ends, and so does a thread slot whose job has ended (_tick, _fireTimers,  *)
(* LoopTaskPoll).                                                            *)
SleepersWake ==
  ([]<>(ready = <<>> /\ running = NoTask)) =>
    \A t \in Tasks :
      (/\ inRun /\ t \in Undone
       /\ kind[t] \in {"sleep", "thread"} /\ t \notin jobs)
        ~> (~inRun \/ t \in done)

(* Task.gather as its callers take it, for gathers of gathers too: it is     *)
(* done when the tasks given to it are, or the run is over.                  *)
GatherCompletes ==
  inRun => \A g \in Undone : kind[g] = "gather" =>
    \E i \in Indexes(g) : ChildOf(g, i) \in Undone
=============================================================================
