# Verification of Py2Cpp

Py2Cpp is a statically typed dialect of Python (Paw), a translator from it to
C++, a standard library whose lowest layer is written in C++, and Zeus, an
engine and scene editor written in the dialect. This directory holds TLA+
models of the parts of these where order matters. In the library: the reference
counts that every `ref class` stands on, the threads, locks, conditions, queues,
futures and pools of `paw.concur.thread`, and the cooperative scheduler of
`paw.concur.task`. In the programs written in Python: the lowering of control
flow, loops and generators, the moved-use check, the incremental build of the
run time, and the editor with its command bus. TLC checks the models on small
instances, TLAPS proves the main results for all instances.

Paths are relative to the repository. `-thread.inl` stands for
`src/paw/templates/concur/-thread.inl`, `thread.paw` and `task.paw` for the
files of that name under `src/paw/lib/paw/concur/`, `refcount.h` for
`src/paw/templates/core/refcount.h`, `host/` for `src/paw/host/`, `zeus/` for
`src/zeus/engine/source/zeus/`, and a `.md` without a path for a file of
`src/paw/docs/`.

    tlc -config MCBlockingQueue.cfg MCBlockingQueue.tla
    tlapm BlockingQueue_proofs.tla

PROJECT.json lists the components, the runs, which source lines each definition
models, the hazards, and for each property a wrong variant of the code that the
property rejects. These variants stand in the modules, under the heading "wrong
variants"; nothing else refers to them.

## 1. The system

| Part | Where | State it keeps | Modelled |
| --- | --- | --- | --- |
| Reference counts | `refcount.h` | control block: strong and weak count, liveness of the object | `RefCount` |
| Lock | `-thread.inl` `LockState` | `locked`, mutex, condition variable | `Lock` |
| RLock | `-thread.inl` `RLockState` | owner, levels | `RLock`, `ReentrantLock` |
| Condition | `-thread.inl` `ConditionState` | `waiters`, `closing`, the lock it was made with | `Condition` |
| Semaphore, BoundedSemaphore | `thread.paw` | `_value`, `_initialValue` under a Condition | `Semaphore` |
| Event | `thread.paw` | `_flag` under a Condition | `Event` |
| Barrier | `thread.paw` | `_state`, `_count` under a Condition | `Barrier` |
| Queue | `-thread.inl` `QueueState` | items, unfinished tasks, two shutdown flags, three condition variables | `BlockingQueue`, `FifoQueue` |
| Future | `thread.paw` | state and value under a Condition | `Future`, `FutureStates` |
| Thread | `thread.paw`, `-thread.inl` `ThreadState` | phase, flags, reference count, registry entry, `std::thread` | `Thread` |
| ThreadPool | `thread.paw` | work queue, workers, `shutdownFlag` | `ThreadPool` |
| Task scheduler | `task.paw` | slots, ready list, waits, timers, handles, gathers | `TaskScheduler` |
| Process, channel, process pool | `concur/process.paw`, `-process.inl` | ring in shared memory, child processes | planned |
| Atomics | `-thread.inl` | one `std::atomic` | no: one step each |
| Containers, text, algorithms | `src/paw/lib/paw/{util,text,alg}` | sequential | planned in part |
| Streams | `src/paw/lib/paw/io` | buffers | planned |
| Flow history | `src/paw/lib/paw/design` | undo and redo | planned |
| Lowering of try, with, loops, jumps | `host/translator.py`, `host/emit/try_emit.py` | the stacks of finally bodies, managers and else flags of the visitor | `ControlFlow`, `FlowPrograms` |
| Counting loops | `host/emit/loops_emit.py` | - | `ForLoops` |
| Moved-use check | `host/passes/moved_use_check.py` | the set of moved variables | `MovedUse`, `MovedPrograms` |
| Generator emitter | `host/passes/generators.py`, `generator_emit.py` | the numbering of states, the stacks of break and continue targets | `Generators`, `GenPrograms` |
| Incremental build | `host/codegen/bootstrap_stamp.py`, `bootstrap_incremental.py` | the stamp, the signature cache, the emitted files, the inputs' times | `BootstrapBuild` |
| Command bus, scene, scene files | `zeus/developer/command.py`, `zeus/runtime/core/scene.py`, `zeus/runtime/assets/scene_io.py` | object tree, selection, play state | `CommandBus` |
| Editor panels | `zeus/editor/` | rows of the hierarchy, the form of the inspector, the drag of the gizmo | `Editor` |
| Other passes and emitters, bootstrap compiler | `src/paw/host`, `src/paw/compiler` | trees to text | no |
| Foreign functions, third party, tools, rendering and games | the rest | - | no |

How they interact:

- Every object shared by threads is reached through `PyRefCount` handles; the
  states `LockState` ... `ThreadState` are freed by the last of them.
- `Condition.wait` takes all levels off an RLock and restores them.
  Semaphore, Event, Barrier and Future run with the lock of a Condition held,
  except while they wait; Queue has condition variables of its own.
- `ThreadPool` passes jobs through a Queue to worker Threads, each job has a
  Future. `Task.runThread` owns a pool of one worker and polls its future.
- The scheduler is single-threaded; only the jobs of runThread and the
  readiness of handles come from outside.

What is hard about it: nearly every notification is made after the mutex has
been dropped; condition variables wake spuriously; timed calls race with late
answers; the last handle of an object may go while threads are inside; shutdowns
overtake work in progress; and slots of the scheduler may be woken from several
sides. The list in PROJECT.json (`hazards`) names the line for each.

The programs in Python:

- One walk over the tree of a function both reads and emits: what a `break`
  becomes depends on stacks that the visitor pushed further out. The generator
  emitter numbers the states of a switch during the same walk.
- `main.py` asks the stamp whether to translate at all, parses, plans what to
  emit from the times of the inputs, merges the signatures of this build into the
  cache, and emits; another process then writes the stamp. Inputs may be edited
  and the build may die between any two of these.
- Every panel of the editor, and every other client, works through the same bus.
  The panels keep copies: rows and form are read once and used later, when the
  object may have been renamed or deleted or the scene replaced.

What is hard about them: a translation is right only if all combinations of
nested statements are, and tests cover the statements one by one; an incremental
build is right only if every sequence of edits, failures and skipped builds leaves
files that agree; and the editor sends rows of commands whose results it does not
read, so a refused one is followed by others.

## 2. Modules

What a step is: the code between taking and dropping a `std::mutex` is one
action, what is done after dropping it (a notification, `std::thread::join`) is
another, and each atomic operation on a reference count is one. A parked thread
may be woken by a notification, by its deadline (`Expire`, `Timeout`) or by
nothing (`SpuriousWake`), and then runs its loop again. `notify_one` chooses any
parked thread. Time is only the fact that a deadline has passed.

**Lock** - `acquire_lock_state` (446-487) as `Call`, `Take`, `Refuse`, `Park`;
`release_lock_state` (489-504) as `Release` or `ReleaseUnlocked` under the mutex
and `NotifyOne` after it. Any thread may release. `holder` is history.

**RLock** - owner and levels, `acquire` and `release` as for Lock, and the pair
`ReleaseSave`/`Restore` that Condition.wait uses. `held` is history: the levels
that each thread was granted. **ReentrantLock** is what an RLock promises, as
five operations on owner and levels. RLock implements it, Condition is built on
it.

**Condition** - `condition_wait_state` (724-809) step by step, `notify` and
`notifyAll` with the wake-ups after the mutex is released, and `release_condition`
(392-416), which wakes the waiters of a condition whose last handle is gone and
frees it after they have left. The lock is an RLock (the abstract one) or a
plain Lock, which another thread may release: then `wait` fails between its
check and its release, in the `catch` block (784-809). **Monitor** is the same
thing as the classes on a Condition see it: parked, woken, about to go on.

**Semaphore**, **Event**, **Barrier**, **Future** - one action for each stretch
of code with the lock held. `Condition.waitFor` (-thread.inl 1256-1297)
evaluates the predicate again after each wake-up and gives up at its deadline:
`Resume`. BoundedSemaphore is a Semaphore with a limit. A barrier has
its four states, an action that may raise, `reset` and `abort`. In Future a
value is the thread that set it. **FutureStates** holds the transitions that
Future and ThreadPool share. **Synchronizers** composes Lock and these four: the
initial state chooses one of them, and the properties of the composition are those of
its parts. **MCSynchronizers** gives it three threads.

**BlockingQueue** - `put`, `get`, `taskDone`, `join` and `shutdown`, bounded or
not, each with the wake-ups it makes after its mutex is released. Items are the
numbers of their puts. **FifoQueue** is the promise: a queue that hands out what
was put, in order, up to a bound, and can be closed or dropped.

**Thread** - clients share the Thread object and wrappers from `Thread.actives`.
`start` checks and counts under the mutex (`Start`), creates the `std::thread`
(`Spawn`, `SpawnFails`), stores it (`Store`, outside the mutex) and waits for the
ident (`Await`). The OS thread identifies and registers itself, runs the target,
unregisters and drops its reference. `join` waits, and one joiner joins natively.
The last reference deletes the state.

**ThreadPool** - `submit` under the lock of the pool, with the start of a worker
that may fail; `shutdown` with and without `wait` and `cancelFutures`, as a loop
that drains the queue; `Future.cancel` by users; the loop of a worker. The queue
is the abstract FifoQueue, which BlockingQueue implements.

**RefCount** - copies, drops and upgrades of strong and weak handles, with the
temporary weak count ("sentinel") that `release` (166-192) holds while it
destroys the object, an object that may own a weak reference to itself, and
`_py_refcount_delete_block_if_dead` at each place that calls it. A block that is
used after its deletion is `misused`, where the model stops. **Lifetimes** composes
Thread and RefCount in the way of Synchronizers, **MCThreads** gives it clients and
holders.

**TaskScheduler** - `Task.run` with its loop: `RunOnce` takes the head of the
ready list and advances it, `Tick` counts a period when nothing is ready, lets any
of the handles be ready and fires the timers. Between two awaits a coroutine may
create tasks of every kind, then awaits, returns or raises. The job of a `runThread`
may raise (`JobEnds`), and then so does whatever asks for its result: `gather`, if the
task is done already, after it has registered its slot and before it sets it up
(`GatherRaises`, which leaves a slot of the kind "unset" that nobody has a handle of), and
`onChildDone` of a gather that is told of it (`Tell`), before it stores a result or counts
it; that exception leaves `_finishSlot`, the pump and `Task.run` (`FinishRaises`). An
`await` of such a task raises in the coroutine, which may go on or not, as after any
await. One `_finishSlot`
may finish a task, its gathers, and queue all who wait for them, in the order of
the lists (`FinishSlot`); a tick goes through the handles and then the timers, finishing
slots as it goes, and leaves the entries that were not due (`FireAllIo`,
`FireAllTimers`). `waitLinks` is kept by target, in the order in which its waiters came:
the code has one list for all targets and looks only for the links to one of them. Timers keep the periods left rather than the period
number. The branch of `_registerTimer` for a timer that is due at once is left out:
`_secsToPeriods` gives at least one period. The root has no handle
(`Task.run` gives none), so no task awaits it.

**CommandBus** - the commands that change something, as functions from a bus to a
bus, over the scene as the depth-first list of its objects. A refused command returns
the bus it was given. Names are resolved as `_find` does, the root first and then
breadth-first; settings, transforms and fields of components are told apart by
whether they differ from those of a new object, which is what a scene file may lose.
`Load` replaces the tree by a file's. **Editor** - one action per handler
of a panel, with the reloads of the form that follow, beside `Client`, which sends
any command.

**BootstrapBuild** - `Translate`, `Plan`, `StoreSignatures`, `Emit` and
`WriteStamp` in the order of the code, with `Edit`, `Clean` and `Fail` at any
point. Times are numbers of writes: two files never have the same time. Each
artifact remembers what it was made of (history).

**ControlFlow** - `PySeq` is what Python says a program does, `LowSeq` what the
translator emits, `CppSeq` what the emitted C++ does: a log and the way it ended. Each
is a function on the levels of nesting: at level n it goes over the bodies of that level
and takes what goes over those inside from level n - 1. Where the translator visits a
statement its three stacks are a `Context`: the finally bodies of the try statements around
it, the exits of its with statements, both with the innermost first, and the else flag of
the innermost loop. `Place` is what `CleanSeq` knows there. Finally bodies are
straight-line: `visit_Return` emits all the active ones again from inside of one, so that a
jump there has a meaning of its own, and the rest of what they may hold is in the
other bodies.
**Generators** - in the same way `PyRun` and the emitted switch over `_state`, which
is executed step by step, with sends and tests from outside. **MovedUse** - the
visitor against all the runs of a function; a body is a sequence of statements whose own
bodies are of one level less, and what walks over a level takes what walks over the one
below as an argument. **ForLoops** - the counter of the
C++ loop and Python's iterator side by side, with a body that may append and pop, bind the
name of the list to another one, change the variables of the call, and assign the loop
variable of a range, which is the C++ counter itself: a range loop in the body that takes
the same name does so too (`AssignTarget`). The start of an enumerate is evaluated in every
round; Python's iterator keeps its list and its numbers. **FlowPrograms**, **GenPrograms**, **MovedPrograms**
hold the programs that are tried. **MCTools** runs these six subjects, one at a time.

## 3. Runs

| Run | Instance | Distinct states | Question |
| --- | --- | --- | --- |
| synchronizers | 3 threads; permits up to 3; barriers of up to 3, 2 rounds | 182 000 | Lock, Semaphore, Event, Barrier and Future: is anything lost to a waiter, do waits end, is there one outcome |
| rlock | 3 threads, depth 2 | 701 000 | lost wake-ups, refinement of ReentrantLock |
| condition | 3 threads (symmetric), depth 2, notify up to 2 | 618 000 | counting of waiters, restored levels, freeing under waiters |
| queue | 3 threads, bound 2, 3 puts | 216 000 | order, exactly once, wake-ups of three kinds, shutdown, refinement of FifoQueue |
| threads | 2 clients; or 3 holders with 1 strong and 1 weak handle each | 206 000 | start, join, references, lifetime; upgrade against drop, lifetime of the block |
| thread_pool | 2 users, 2 workers, 3 jobs | 321 000 | jobs against shutdown and cancel |
| task | 4 slots, sleeps of 2 periods, gathers of 2, 3 wait links | 399 000 | every task waits in one place, gathers fill, awaits end; with jobs that fail |
| tools | see below | 3 050 000 | the programs in Python |
| task_gather, refcount_weak_doc, finally_once, generators_doc | as above | - | statements that the code does not keep (section 6) |

The subjects of `tools`: the editor with 3 objects, 3 names, 1 setting and 2
kinds of component, at most 2 of them set; the build of 2 modules, one of them a
leaf, in 2 configurations, with 3 writes; try, with and loop in each other, two or
three deep, with every jump and two exceptions; loops over lists of up to 3 items
with 2 changes by the body, and over ranges with bounds and step from -2 to 2 in an int that
holds up to 3; functions of three statements over two variables, with loops of up
to 2 rounds; and generators of loops in loops with tests, up to 5 yields.

What the properties say beyond types:

- *No lost wake-up* (`NoLostWakeup` of Lock, RLock and Queue, `NoLostPermit`,
  `ClosedQueueHoldsNobody`): while somebody is parked and could go on, someone is
  on the way who will notify or take. The Queue's version counts: items beyond
  the reach of awake consumers have as many notifications on their way.
- *Who holds what* (`HandoverOnlyThroughRelease`, the counts in
  `TypesAndCounts` and in the type invariant of Condition, `WaitRestoresLevels`,
  `OnlyFullRoundsPass`, `RunOrCancelled`, `OneOutcome`, `EveryJobHasOnePlace`,
  `OneTicket`).
- *Lifetime* (`FreedOnlyWhenUnused` twice, `HandlesKeepAlive`, `NothingLeaks`,
  `OneNativeThread`).
- *Progress* (`WaitsEnd`, `CallsReturn`, `ShutdownCompletes` and `WorkGetsDone`,
  `AwaiterResumes`, `SleepersWake`). `WaitsEnd` says that a timed acquire
  of a Lock returns, that whoever waits for an event that stays set returns, that a barrier
  which has begun to empty is emptied, and that whoever waits for a future which is done
  returns. It says nothing of semaphores, nor that the timed calls of the others
  return at their deadline.
- `NotifyReachesTheParked`: no late waiter takes a notification from those that
  were parked when `notify` was called. It holds for an RLock, which the
  notifier still has, and is stated for that kind.
- *Editor*: `NamesAreRepeatedOnlyByFiles`: no sequence of creations, renames, saves
  and loads makes objects share a name, though each command checks only its own argument,
  but for the load of a file in which they share it already;
  `SelectionIsLostOnlyWithAnAncestor`: the selection goes on naming an object through
  renames, deletions and loads, unless an object above the selected one is deleted;
  `PlayingProtectsTheScene`: while the world plays its scene changes only as a
  whole, by a load, whichever panel composes the commands.
- *Build*: `SkippedBuildIsCurrent`: a build that is skipped would have changed
  nothing; `CachedSignaturesAreCurrent`: the same for the signatures that a user's
  program is translated against, however the cache was merged.
- *Translation*: `FaithfulWhereClean`, `CleanGeneratorsFollowPython`,
  `CountingLoopsFollowTheIterator`: the C++ does what Python does.
  `CheckIsExact`: the functions that the moved-use check refuses are those that use
  a moved variable.

Some of these hold with exceptions, which the definitions name one by one. They
are what the code does not do, and each is needed: without it TLC finds a
counterexample.

| In | Exception | Why |
| --- | --- | --- |
| `SkippedBuildIsCurrent` | `late`: inputs edited between the parse and the stamp | the stamp is newer than the edit, which no later build sees |
| `CachedSignaturesAreCurrent` | `raced`: inputs edited between the parse and the store | the fingerprint is taken at the store |
| `FaithfulWhereClean` | what `CleanSeq` of ControlFlow excludes | section 6, item 3 |
| `CleanGeneratorsFollowPython` | what `Clean` of Generators excludes | section 6, item 4 |
| `NamesAreRepeatedOnlyByFiles` | the load of a file (`Files`) that repeats a name, or of a text | `scene_from_json` takes a file as it is, and calls every object without a name "GameObject" (scene_io.py 255-256) |
| `CountingLoopsFollowTheIterator` | `Harmless`: a body that binds the name of the list to another list, changes the start of an enumerate or the stop or step of a range, or assigns the loop variable of a range, by a range loop of the same name too; removal under a reversed loop, any change of length under enumerate(reversed); an int that wraps | the header and the item read the name, the length and the variables again each round, the Python iterator does not; the variable of a range is the counter (loops_emit.py 126-131, 198-199); C++ addition wraps |
| `TypeOK` of TaskScheduler, its part on gathers | children that are gathers; children whose job failed, of which it says that a run with a gather that has one does not go on | section 6, item 1, and the raising `onChildDone` at its end |
| `CheckIsExact` | `Seen`, `NoMore`: loops that move or assign, augmented and self-reading assignments; returns, annotated moves and moves of a variable to itself | the visitor walks the text once, and knows no paths |

Bounds. Three threads are one that holds, one that waits and one that comes
in between; two that wait for different things and one that wakes the wrong one;
for a barrier of two, a full round and a late arrival. Depth two distinguishes
one level from all. A queue of bound two fills and empties with three puts, and
3 threads can be parked in put, get and join at once. Two workers and three jobs
leave a job queued while both are busy. With one handle of a kind each, three
holders still drop, upgrade and copy at the same time, and a handle is copied to
another thread. Four slots hold a gather of a gather of
a task beside the root, or two coroutines that await what the root awaits. Three
objects are a root, a parent and a child, the least in which a subtree goes, is
copied or is moved below itself; three names leave one to collide with. Three
writes are an edit, a stamp and an edit after or during the next build. Loops of two
rounds show what one round leaves to the next; `MaxNest` and `MaxDepth` are the depth
of the deepest program that is tried. Every
bound is a CONSTANT: only the proofs speak of other values. `MaxLinks`,
`MaxRounds`, `MaxPuts`, `MaxValue`, `MaxRows`, `MaxTouched` and `MaxClock` cap
what would otherwise grow for ever.

`CHECK_DEADLOCK FALSE` is set where a program may stop by its own doing (it
waits for an event nobody sets, locks a Lock twice, has dropped its last handle,
was left by an exception, or has ended), as a comment in each .cfg says.

Fairness. A thread that is not parked takes its steps, which is what the
operating system gives, and deadlines pass (`WF_vars(Running(t))`, `Expire`).
No fairness is assumed of callers: nobody has to release, put, set or arrive,
and no target or spurious wake-up has to come; a job of a pool is assumed to
end, a coroutine not to compute for ever between two awaits. There is no strong
fairness: nothing is claimed of a thread that others overtake again and again.
`SleepersWake` is stated under the condition that idle periods keep coming,
because the loop looks at timers only then: a coroutine that never lets the ready
list drain starves all sleeps. The editor and the build promise nothing about
progress: a user need not click, an edited build may be killed for ever.

## 4. Proofs

| Module | Theorems | Argument |
| --- | --- | --- |
| `Synchronizers_proofs` | `LockTyping`, `LockNoLostWakeup`, `LockHandover`, `SemaphoreNoLostPermit`, `EventTyping`, `BarrierFullRounds`, `FutureOneOutcome`; of the composition `SynchronizersTyping`, `SynchronizersNoLostPermit`, `SynchronizersFullRounds`, `SynchronizersOneOutcome` | Lock: TypeOK is inductive, because the flag goes with the history `holder`; a release leaves its caller in "notify", which is what NoLostWakeup asks for. Semaphore: a release wakes as many as it adds permits or all who are parked, so that the parked and the woken are counted together. Barrier: `BarrierPhases`, that while the barrier fills nobody inside has passed and the indices given are below the count, and while it drains those inside are those who have passed. Future: `Settled`, that what was told, how often it was run and to whom cancel said True all follow from the state. The composition keeps the conjunction of the parts' invariants (`SynchronizersInv`) |
| `RLock_proofs` | `RLockTyping`, `RLockNoLostWakeup`, `RLockImplementsReentrantLock` | the levels of the owner are those of the lock and all others hold none; strengthened by the bound on levels and saved levels, without which a restore could not be typed |
| `Condition_proofs` | `ConditionTyping`, `ConditionWaitRestores`, `ConditionFreedWhenUnused`, `ConditionNotifyReaches` | first the invariant without the count (types, the levels kept for each waiter, nobody enters a closed condition), then the count of waiters as the cardinality of the threads inside, one lemma for entering and one for leaving. For notify `NotifierKeeps`: while a thread notifies it owns the RLock, so that nobody can park, those still parked are among those it saw, and either its notifications are enough for them or as many have left as it has made |
| `BlockingQueue_proofs` | `QueueTyping`, `QueueImplementsFifoQueue`, `QueueFifoExactlyOnce`, `QueueNoLostWakeup`, `QueueClosedHoldsNobody` | delivered items followed by queued ones are 1..accepted; for wake-ups the threads of each place are counted, and each step moves a known number of them; the unfinished tasks are the queued items and those taken and not acknowledged (`Amounts`), counted as a set of pairs of a thread and a number |
| `ThreadPool_proofs` | `PoolTyping`, `PoolRunOrCancelled`, `PoolEveryJobHasOnePlace`, `PoolShutdownCompletes` | a claimed job is held by one worker and its future is no longer pending (`IInv`). `PlacesInv` adds that the queue holds the last jobs accepted, in order (`Ordered`), so that a job is queued or has been handed on; that nobody holds a job another holds (`Held`); that a job handed on is done or held (`Accounted`); the count of the places (`Balanced`); and that a worker leaves only when the queue is closed and empty (`Closing`), which makes the threads that a shutdown joins find every job done |
| `Lifetimes_proofs` | `ThreadTyping`, `ThreadFreedOnlyWhenUnused`, `ThreadOneNativeThread`, `RefCountSafety`; of the composition `LifetimesTyping`, `LifetimesFreedOnlyWhenUnused`, `LifetimesOneNativeThread`, `LifetimesHandlesKeepAlive`, `LifetimesNothingLeaks` | Thread: `refs` is the number of owners; whoever is between the check of `start` and the creation of the OS thread is alone (`StartsAlone`); the flags say where the OS thread is (`FlagsFollowTheThread`); a joiner keeps what it came through, and one is in the native join (`JoinsOnce`). RefCount: the counts are those of the handles and of the temporary weak references (`Counted`, which holds even when releases race); the last strong handle is released by one thread, which destroys the object (`OneRelease`); a block without references is deleted or about to be (`Deletes`); and unless the last strong and the last weak handle are released at the same time, one thread deletes it (`DeletesAlone`) |
| `TaskScheduler_proofs` | `SchedulerTyping`, `SchedulerOneTicket`, both from `SchedulerInvariant` | what finishing a slot changes is one value, a board, which `_finishSlot`, `_fireIo` and `_fireTimers` map to another; a lemma for each says what of it they keep, and the recursive functions that go through a list are unfolded by induction on it (`Induction`, from the least counterexample). `Gathers`: the pending count of a gather is the number of links that have no result yet, with those of the link that is being told counted apart. `AllPlaced`: every task that is not done has one place in the lists together, through the middle of a step, where it is excused while it runs. `Inv` adds that ids are given out in order and nobody waits for one that was not, which kinds of task a list may hold, that a gather has one link for each index, that a job which runs has not failed and its task is not done (`JobsOK`), and that while the run is on no gather has a child that is done and failed (`NoFailedChild`): the step that would make one ends the run |
| `Tools_proofs`: editor | `EditorTyping`, `EditorRepeatsNoNames`, `EditorLosesSelectionsOnlyWithAncestors`, `EditorProtectsAPlayingScene` | every command but delete and load is an edit: it keeps a tree, repeats no name that was not repeated, and keeps a selection that names an object, and a scene that is playing. Edits compose, so that a panel's row of commands is one; delete and load are proved by themselves |
| `Tools_proofs`: build and loops | `BuildSkipsOnlyWhenCurrent`, `BuildCacheIsCurrent`, `LoopsFollowTheIterator` | build: what a job has read is current but for edits since, and those are newer than the stamp (`ReadsAreKnown`); with a stamp there is every artifact, made of the inputs that are not newer than it, so that a skipped build finds all of them current (`StampedAreCurrent`); what has been emitted is what was read (`EmittedAreRead`); the signatures of a cache fit its fingerprint, the raced ones aside, through every merge. Loops: in each form the place of the counter against that of the iterator (`ListPosition` and its like); the counter of a range is start + rounds * step, the place before it passed the test, and the number of rounds that this leaves is the quotient that `RangeLen` computes (`LengthIsRounds`) |
| `Tools_proofs`: moved-use check | `MovedCheckIsExact` | `GoodWalk` says of any piece of a function what the visitor's walk over it (a function from checks to checks) has to do with its runs (a function from states to sets of states): `SoundWalk`, that a check which knows all that is moved in a run and does not refuse still knows it after; `CompleteWalk`, that of a set of runs which together moved all that the check holds for moved, one uses such a variable if the check refuses, and together they again moved all if not. Each statement is good if its bodies are (`SimpleIsGood`, `IfIsGood`, `LoopIsGood`, the last for any number of rounds), good pieces one after the other are (`OneAfterTheOther`), and so bodies of every length and depth are (`BodyIsGood`, `EveryBodyIsGood`) |
| `Tools_proofs`: try, with, loops and jumps | `FlowIsFaithful` | `Arrives` relates the two runs of a body that were started from the same log: they end the same way; what the C++ has logged is what Python has and, after a jump, the finally bodies and exits around the place it jumps from, in advance (`Extra`); and the flags of the statements around are as they were, but for the one a break clears (`Flags`). Neither log can be left out of it: a jump's finally bodies come before the jump in C++ and after it in Python, and only at the end of the try, with or loop are both logs equal again (`FinalEnds`, `WithEnds`, `FlowRoundsEnd`). There is a lemma for each statement (`JumpEnds`, `TryEnds`, `WithEnds`, `PlainLoopEnds`, `ElseLoopEnds`, of which the loops are by induction on the rounds), one for what runs in a row (`ChainsFollow`, `BodyFollows`), and one that takes it from a level of nesting to the next (`GivenGrows`) |

They hold for every set of threads (finite where the named ASSUME says so), every
depth, bound, number of parties, handles, jobs and puts. The assumptions are the ones
named in the modules, which TLC evaluates in the runs: `ThreadsAssumption`,
`SynchronizersAssumption` (that of Semaphore, Event, Barrier and Future together),
`RLockAssumption`, `ConditionAssumption`, `QueueAssumption`, `ThreadPoolAssumption`,
`ThreadAssumption`, `LifetimesAssumption` (that of RefCount), `NameAssumption`,
`SchedulerAssumption` and `MovedAssumption` (their bounds are numbers, and a loop may go
round), `FlowAssumption` (the depth is a number, and no exception type has the name of
another way to end), `FilesAssumption`, `EditorAssumption`, `InputAssumption` (no scanned path starts with
"paw", see section 6), and `LoopAssumption` (lengths and the variables of a range fit
the C++ int). `NameAssumption` keeps the empty name out of the names: the bus refuses it.

`PlacesInv` and `NotifierKeeps`, the two that say most, hold on the instances of the runs as
well, where TLC has checked them. Counts of threads, handles and items are cardinalities of sets of threads or of pairs,
not sums: one lemma for a member more and one for a member less is then all that
the steps need.

The theorems about a component by itself (`LockTyping`, `EventTyping`, `ThreadTyping`,
`RefCountSafety` and the like) are what those of the compositions rest on.
`RLockTyping`, `EditorTyping` and `QueueFifoExactlyOnce` have no run of their
own: the runs check the refinements or the invariants that rest on them.

Only model-checked: everything under fairness (`WaitsEnd`, `CallsReturn`,
`WorkGetsDone`, `AwaiterResumes`, `SleepersWake`), which is out of the prover's reach;
and `CleanGeneratorsFollowPython`, where Generators is written with recursive
operators over programs and over the code that was emitted so far, which it cannot unfold.
`BlockOutlivesRacingHandles`, `GatherCompletes`, `FinallyRunsOnce` and
`GeneratorsFollowPython` are false (section 6).

## 5. Not modelled

- Memory order: atomic operations and mutexes are taken as sequentially
  consistent. One unsynchronised access is modelled as such: `join` reads
  `ThreadState.worker` while `start` stores it, and may see either value.
- Assignment of handles (`refcount.h` 198), which releases before it retains.
- The main thread, thread names, idents, daemon flags, and thread-local data.
- Values, messages and exception texts; in a ThreadPool a job that raises and one that
  returns differ only in the state of the future. (In the scheduler a failed job has steps
  of its own.)
- Handles of tasks kept from one `Task.run` to the next: ids start at 1 again, so
  that such a handle names another task of the next run.
- That `release_condition` returns: a waiter that timed out before the condition
  was closing does not notify the closing thread (-thread.inl 778).
- A pool made with no workers, which accepts jobs that nobody runs.
- Editor: numbers, layout, drawing; the text of scene files. `scene_from_json`
  replaces the root before it has read all of the file, so that a broken file leaves half
  a scene: files of the model are whole. Their objects have names of `Name`, of which the
  empty one is none, and at most one component of each kind. A step of the world
  (`World.step`) leaves the scene alone, which is true of the components that an editor can
  load, but not of the `on_update` of a game's own: `PlayingProtectsTheScene` is about
  what the bus and the panels do.
- Build: the compilation of the emitted library, inputs that are deleted, clocks that
  stand still.
- Moved-use check: break, raise, try, and the targets of for loops are not in the language
  of MovedUse.
- Translator: except*, async with, async for, zip and loops over other iterators; try
  and with in a generator; the value of a return, which is computed after the finally
  bodies. The other passes and emitters (type inference, overloads, expansion
  of dataclasses, unions and protocols, style rules, the text of the C++) are
  functions of a tree and of a table of types. Their cases are the rules of the
  language: a model would repeat them, and have nothing to check them against. They are
  by far the most of the implementation's lines, which is why the map covers a
  small share of these.
- Containers, I/O, bindings, bootstrap compiler, tools and the engine of Zeus: see
  the notes in PROJECT.json.

## 6. Where code and documents part

With a run that shows it:

1. `task_gather`. A gather that was given an unfinished gather is never told
   (task.paw 327-328): it stays pending after all of its tasks are done, and a
   `Task.run` whose root awaits it never returns, though task.paw 470 says that it runs
   main to its end.
2. `refcount_weak_doc`. `concur-thread.md:133` and `:94`: the atomic counts may be
   released by several threads, the last strong and last weak handle at once. Both
   may find both counts zero and delete the block (refcount.h 172-190, 378-380).
3. `finally_once`. `参考手册.md:574` and try_emit.py:181: a finally body is always
   executed, and once. It stands after the catch clauses and in a last `catch (...)`
   of the same C++ try, so that an exception raised in a handler, or in else, passes
   it by or meets it twice; and a break or continue emits every finally body of the
   function, those outside of its loop included, which then run again.
   `FaithfulWhereClean` excludes these, and the managers of with statements, for which
   the same holds.
4. `generators_doc`. `编码规范.md:814`: generators have Python's semantics. They do not
   for `x = yield` in a while; a yield in the else of a loop; the else of a nested
   loop; break in a loop that becomes a native one, or is over an iterator, inside another
   loop; continue of a while inside a for; a while or a native loop as the last statement of
   a branch; and a while inside a native for.

Without a run, in the library:

- `concur-thread.md:593`: a waiter woken by `Event.set` returns success although `clear`
  follows. `waitFor` (-thread.inl 1292) evaluates the flag again.
- `concur-thread.md:529`: with `wait=True` all workers are joined. A second shutdown with
  cancelFutures (thread.paw 914-921) meets a closed, empty queue, whose
  `ShutDownError` the loop does not catch: it raises and joins nobody.
- A negative timeout of `Thread.join` raises (thread.paw 843);
  `concur-thread.md:346` says that it counts as zero. `CallJoinNegative` models the code.
- `submit` starts a worker whenever there are fewer than `maxWorkers` (thread.paw
  930-937); `concur-thread.md:506` and `:740` say that none is started while one is idle.
- A worker that fails to start leaves its job in the queue (thread.paw 901-902,
  935-936); `concur-thread.md:511` asks for a roll-back. `StartFails` models the code.
- `start` may return before the thread is in the registry (-thread.inl
  1701-1706, 1739); `concur-thread.md:621` has them the other way round.
- The docstring of `Queue.join` (thread.paw 696) against an immediate shutdown,
  which zeroes the count while consumers still work (-thread.inl 1568-1573).
- An exception that leaves `Task.run` keeps `haveScheduler` set (task.paw 490-492), and
  every later run is refused as already running.
- The job of a `runThread` that is given to a gather and raises ends the whole run by way of
  `onChildDone` (task.paw 125, 141, 173), whoever awaits the gather and catches exceptions;
  the gather keeps its pending count. A gather of a task that has failed already
  raises in its caller, and leaves its slot registered.

In the build:

- `runtime-libs.md:217`: a stamp of another configuration translates again. The plan
  then finds nothing changed and emits the umbrella alone; the new stamp names a
  configuration in which no module was emitted. `SkippedBuildIsCurrent` is about inputs, not
  configurations, for this reason.
- The scanned inputs: bootstrap_stamp.py:52 looks for a directory `root/src` that
  does not exist, so that edits under `host/` are not seen; `runtime-libs.md:217` and
  bootstrap_incremental.py:3 count them in.
- A leaf is never translated by itself: bootstrap_incremental.py:114 wants a path that
  starts with `paw/`, the scanned ones start with `lib/`, `templates/` or `ffi/`.
  `host/tests/test_bootstrap_incremental.py:57` expects otherwise. `InputAssumption` says so.
- An input edited between the parse and the stamp is never translated again (`late`).

In the editor and the passes:

- scene_io.py:1 promises a round trip; the size of a mesh, the view of a camera and
  half of a pad are not written.
- The inspector binds its form to a new name although the rename was refused, and writes
  the fields to whoever has that name. `CreateEmpty` counts the root's children for a
  name, which may be taken. The rows of the hierarchy are never refreshed, and a
  gizmo that was being dragged stays so through a change of the selection.
- `编码规范.md:296`: a moved variable is not used before it is assigned again. The check
  does not see the second round of a loop, augmented assignments and annotated moves.

## 7. Plan

Done: the locks, Condition and what stands on it, Queue, Thread, ThreadPool,
RefCount, TaskScheduler; the editor with its command bus, the incremental build,
and four parts of the translator. Proved: every safety property that the passing runs check but
that of generators.

Next, in this order:

1. Proofs: that ThreadPool over BlockingQueue is ThreadPool over FifoQueue, by composition
   of the two; and generators, with a function for each depth of nesting in place of
   the recursive operators.
2. ProcessChannel: the ring between two processes, its wrap-around and the death of
   one side; an abstract channel that it implements.
3. RefCount: assignment, with a chain of objects that own one another.
4. Condition: that `release_condition` returns, and the case in which it does not.
5. The coroutine desugaring and the state machines of `src/paw/templates/core`, which
   `_CoroSlot.advance` drives; try and with inside generators.
6. The sequential structures with a protocol of their own: Pool and Deque of
   `util`, buffered streams, flow history.
