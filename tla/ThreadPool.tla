----------------------------- MODULE ThreadPool -----------------------------
(***************************************************************************)
(* paw.concur.thread.ThreadPool: users submit jobs and shut the pool down, *)
(* workers take the jobs from the work queue and run them.  Each job is    *)
(* the number of the put that queued it.                                   *)
(*                                                                         *)
(* The work queue is the abstract one (BlockingQueue implements it), and   *)
(* of a future only its state matters here (module Future has the rest).   *)
(* Worker w is the w-th thread that the pool has started.                  *)
(***************************************************************************)
EXTENDS FifoQueue, FutureStates, FiniteSets

CONSTANTS Users, MaxWorkers

ASSUME ThreadPoolAssumption ==
  /\ IsFiniteSet(Users)
  /\ MaxWorkers \in Nat /\ MaxPuts \in Nat
  /\ MaxSize = 0

Jobs == 1 .. MaxPuts
Workers == 1 .. MaxWorkers

VARIABLES
  shutdownFlag, \* ThreadPool.shutdownFlag
  threads,      \* the length of ThreadPool.threads
  unfinished,   \* unfinished_tasks of the work queue
  future,       \* the state of the future of each job
  wpc,          \* where each worker is
  job,          \* the job it has taken, or 0
  upc,          \* where each user is
  waits,        \* its shutdown has wait=True
  drained,      \* the job that its shutdown has taken off the queue, or 0
  given,        \* history: jobs whose future submit has returned
  runs,         \* history: how often each job was run
  cancelled     \* history: jobs for which a user's cancel returned True

users == <<upc, waits, drained>>
workers == <<wpc, job>>
history == <<given, runs, cancelled>>
vars == <<queueVars, shutdownFlag, threads, unfinished, future, workers, users, history>>

Busy == {"claim", "run", "acknowledge"}
WorkerPlaces == {"absent", "get", "exited"} \cup Busy
UserPlaces == {"idle", "adjust", "drain", "cancel", "close", "join"}

(* The users' places in which the lock of the pool is held. *)
Locked == {"adjust", "drain", "cancel", "close"}

LockFree == \A u \in Users : upc[u] \notin Locked

Init ==
  /\ QueueInit
  /\ shutdownFlag = FALSE
  /\ threads = 0
  /\ unfinished = 0
  /\ future = [j \in Jobs |-> "Pending"]
  /\ wpc = [w \in Workers |-> "absent"]
  /\ job = [w \in Workers |-> 0]
  /\ upc = [u \in Users |-> "idle"]
  /\ waits = [u \in Users |-> FALSE]
  /\ drained = [u \in Users |-> 0]
  /\ given = {}
  /\ runs = [j \in Jobs |-> 0]
  /\ cancelled = {}

Goto(u, place) == upc' = [upc EXCEPT ![u] = place]

(* A call returns or raises. *)
Finish(u) == Goto(u, "idle")

Advance(w, place) == wpc' = [wpc EXCEPT ![w] = place]

-----------------------------------------------------------------------------
(* Wrong variants of the actions below, each a mistake the code could have   *)
(* made: the properties of this module tell them from the real ones.         *)

(* A worker runs what it takes, whatever became of the future. *)
ClaimUnchecked(w) ==
  /\ wpc[w] = "claim"
  /\ future' = [future EXCEPT ![job[w]] = "Running"]
  /\ runs' = [runs EXCEPT ![job[w]] = @ + 1]
  /\ Advance(w, "run")
  /\ UNCHANGED <<queueVars, shutdownFlag, threads, unfinished, job, users,
                 given, cancelled>>

(* The drain acknowledges nothing. *)
DrainCancelUnacknowledged(u) ==
  /\ upc[u] = "cancel"
  /\ future' = [future EXCEPT ![drained[u]] = AfterCancel(@)]
  /\ drained' = [drained EXCEPT ![u] = 0]
  /\ Goto(u, "drain")
  /\ UNCHANGED <<queueVars, shutdownFlag, threads, unfinished, workers, waits,
                 history>>

(* A worker leaves as soon as the queue is closed. *)
RetiresEarly(w) ==
  /\ wpc[w] = "get"
  /\ closed
  /\ Advance(w, "exited")
  /\ UNCHANGED <<queueVars, shutdownFlag, threads, unfinished, future, job, users, history>>

(* One thread more than maxWorkers. *)
AdjustOffByOne(u) ==
  /\ upc[u] = "adjust"
  /\ IF threads <= MaxWorkers
       THEN Advance(threads + 1, "get") /\ threads' = threads + 1
       ELSE UNCHANGED <<wpc, threads>>
  /\ Finish(u)
  /\ given' = given \cup {accepted}
  /\ UNCHANGED <<queueVars, shutdownFlag, unfinished, future, job, waits, drained, runs,
                 cancelled>>

(* A worker that fails to run its job says so to nobody. *)
OutcomesOnlyOnSuccess == {"Finished", "Running"}

-----------------------------------------------------------------------------
(* submit, with the lock of the pool: the flag is tested and the item put. *)
Submit(u) ==
  /\ upc[u] = "idle" /\ LockFree
  /\ accepted < MaxPuts
  /\ ~shutdownFlag
  /\ Enqueue
  /\ unfinished' = unfinished + 1
  /\ Goto(u, "adjust")
  /\ UNCHANGED <<shutdownFlag, threads, future, workers, waits, drained, history>>

(* submit raises RuntimeError and changes nothing. *)
SubmitRefused(u) ==
  /\ upc[u] = "idle" /\ LockFree
  /\ shutdownFlag
  /\ UNCHANGED vars

(* submit drops the lock and returns the future of the item it put last. *)
SubmitReturns(u) ==
  /\ Finish(u)
  /\ given' = given \cup {accepted}

(* _adjustThreadCount: another worker, unless there are maxWorkers. *)
AdjustThreadCount(u) ==
  /\ upc[u] = "adjust"
  /\ IF threads < MaxWorkers
       THEN Advance(threads + 1, "get") /\ threads' = threads + 1
       ELSE UNCHANGED <<wpc, threads>>
  /\ SubmitReturns(u)
  /\ UNCHANGED <<queueVars, shutdownFlag, unfinished, future, job, waits, drained, runs,
                 cancelled>>

(* Thread.start raises out of submit. *)
StartFails(u) ==
  /\ upc[u] = "adjust" /\ threads < MaxWorkers
  /\ Finish(u)
  /\ UNCHANGED <<queueVars, shutdownFlag, threads, unfinished, future, workers, waits,
                 drained, history>>

(* shutdown takes the lock and sets the flag; c is cancelFutures. *)
Shutdown(u) ==
  /\ upc[u] = "idle" /\ LockFree
  /\ shutdownFlag' = TRUE
  /\ \E wait, c \in BOOLEAN :
       /\ waits' = [waits EXCEPT ![u] = wait]
       /\ Goto(u, IF c THEN "drain" ELSE "close")
  /\ UNCHANGED <<queueVars, threads, unfinished, future, workers, drained, history>>

(* getNoWait in the loop of shutdown... *)
Drain(u) ==
  /\ upc[u] = "drain"
  /\ Dequeue
  /\ drained' = [drained EXCEPT ![u] = Head(items)]
  /\ Goto(u, "cancel")
  /\ UNCHANGED <<shutdownFlag, threads, unfinished, future, workers, waits, history>>

(* ...then cancel of the future and taskDone. *)
DrainCancel(u) ==
  /\ upc[u] = "cancel"
  /\ future' = [future EXCEPT ![drained[u]] = AfterCancel(@)]
  /\ unfinished' = unfinished - 1
  /\ drained' = [drained EXCEPT ![u] = 0]
  /\ Goto(u, "drain")
  /\ UNCHANGED <<queueVars, shutdownFlag, threads, workers, waits, history>>

(* getNoWait raises EmptyError, which ends the loop... *)
DrainEnds(u) ==
  /\ upc[u] = "drain"
  /\ items = <<>> /\ ~closed
  /\ Goto(u, "close")
  /\ UNCHANGED <<queueVars, shutdownFlag, threads, unfinished, future, workers, waits,
                 drained, history>>

(* ...or, if the queue has been closed before, ShutDownError, which leaves   *)
(* shutdown altogether.                                                      *)
DrainFails(u) ==
  /\ upc[u] = "drain"
  /\ items = <<>> /\ closed
  /\ Finish(u)
  /\ UNCHANGED <<queueVars, shutdownFlag, threads, unfinished, future, workers, waits,
                 drained, history>>

CloseQueue(u) ==
  /\ upc[u] = "close"
  /\ Close
  /\ IF waits[u] THEN Goto(u, "join") ELSE Finish(u)
  /\ UNCHANGED <<shutdownFlag, threads, unfinished, future, workers, waits, drained, history>>

(* shutdown joins the workers one after the other. *)
JoinWorkers(u) ==
  /\ upc[u] = "join"
  /\ \A w \in 1 .. threads : wpc[w] = "exited"
  /\ Finish(u)
  /\ UNCHANGED <<queueVars, shutdownFlag, threads, unfinished, future, workers, waits,
                 drained, history>>

(* A user cancels a future that submit has returned. *)
CancelFuture(u) ==
  /\ upc[u] = "idle"
  /\ \E j \in given :
       /\ future' = [future EXCEPT ![j] = AfterCancel(@)]
       /\ cancelled' = IF future'[j] = "Cancelled" THEN cancelled \cup {j} ELSE cancelled
  /\ UNCHANGED <<queueVars, shutdownFlag, threads, unfinished, workers, users, given, runs>>

(* Queue.get in _worker. *)
TakeJob(w) ==
  /\ wpc[w] = "get"
  /\ Dequeue
  /\ job' = [job EXCEPT ![w] = Head(items)]
  /\ Advance(w, "claim")
  /\ UNCHANGED <<shutdownFlag, threads, unfinished, future, users, history>>

(* get raises ShutDownError on a closed queue that is empty. *)
Retires(w) ==
  /\ wpc[w] = "get"
  /\ closed /\ items = <<>>
  /\ Advance(w, "exited")
  /\ UNCHANGED <<queueVars, shutdownFlag, threads, unfinished, future, job, users, history>>

(* _runItem: setRunningOrNotifyCancel says whether to run the job. *)
Claim(w) ==
  /\ wpc[w] = "claim"
  /\ future' = [future EXCEPT ![job[w]] = AfterSetRunning(@)]
  /\ IF future[job[w]] = "Pending"
       THEN Advance(w, "run") /\ runs' = [runs EXCEPT ![job[w]] = @ + 1]
       ELSE Advance(w, "acknowledge") /\ UNCHANGED runs
  /\ UNCHANGED <<queueVars, shutdownFlag, threads, unfinished, job, users,
                 given, cancelled>>

(* What becomes of a future whose job was run. *)
Outcomes == {"Finished", "Exception"}

Run(w) ==
  /\ wpc[w] = "run"
  /\ \E s \in Outcomes : future' = [future EXCEPT ![job[w]] = s]
  /\ Advance(w, "acknowledge")
  /\ UNCHANGED <<queueVars, shutdownFlag, threads, unfinished, job, users, history>>

(* taskDone, in the finally clause. *)
Acknowledge(w) ==
  /\ wpc[w] = "acknowledge"
  /\ unfinished' = unfinished - 1
  /\ job' = [job EXCEPT ![w] = 0]
  /\ Advance(w, "get")
  /\ UNCHANGED <<queueVars, shutdownFlag, threads, future, users, history>>

(* What a user does once it is inside a call. *)
InCall(u) ==
  \/ AdjustThreadCount(u) \/ StartFails(u)
  \/ Drain(u) \/ DrainCancel(u) \/ DrainEnds(u) \/ DrainFails(u)
  \/ CloseQueue(u) \/ JoinWorkers(u)

Work(w) == TakeJob(w) \/ Retires(w) \/ Claim(w) \/ Run(w) \/ Acknowledge(w)

Next ==
  \/ \E u \in Users :
       Submit(u) \/ SubmitRefused(u) \/ Shutdown(u) \/ CancelFuture(u) \/ InCall(u)
  \/ \E w \in Workers : Work(w)

(* Threads run, and every job ends. *)
Spec ==
  /\ Init /\ [][Next]_vars
  /\ \A u \in Users : WF_vars(InCall(u))
  /\ \A w \in Workers : WF_vars(Work(w))

-----------------------------------------------------------------------------
(* Every variable holds a value of its type; the workers are those that      *)
(* submit has started, at most maxWorkers.                                   *)
TypeOK ==
  /\ items \in Seq(Jobs) /\ closed \in BOOLEAN /\ dropped = FALSE
  /\ accepted \in 0 .. MaxPuts
  /\ shutdownFlag \in BOOLEAN /\ (closed => shutdownFlag)
  /\ threads \in 0 .. MaxWorkers
  /\ unfinished \in Nat
  /\ future \in [Jobs -> States]
  /\ wpc \in [Workers -> WorkerPlaces]
  /\ \A w \in Workers : wpc[w] = "absent" <=> w > threads
  /\ job \in [Workers -> 0 .. MaxPuts]
  /\ upc \in [Users -> UserPlaces]
  /\ waits \in [Users -> BOOLEAN]
  /\ drained \in [Users -> 0 .. MaxPuts]
  /\ given \subseteq Jobs
  /\ runs \in [Jobs -> Nat]
  /\ cancelled \subseteq Jobs

(* The places where a job can be. *)
Queued(j) == {i \in 1 .. Len(items) : items[i] = j}
TakenBy(j) == {w \in Workers : job[w] = j}
DrainedBy(j) == {u \in Users : drained[u] = j}

(* submit, get and the drain of shutdown hand a job over without losing or   *)
(* doubling it: as long as its future is pending it is in one place, running *)
(* with one worker, and it is nowhere twice.  The count of unfinished tasks  *)
(* is the number of the jobs in these places, so that taskDone never raises. *)
EveryJobHasOnePlace ==
  /\ unfinished = Len(items) + Cardinality({w \in Workers : wpc[w] \in Busy})
                             + Cardinality({u \in Users : upc[u] = "cancel"})
  /\ \A j \in 1 .. accepted :
       /\ Cardinality(Queued(j)) + Cardinality(TakenBy(j)) + Cardinality(DrainedBy(j)) <= 1
       /\ future[j] = "Pending" => Queued(j) # {} \/ TakenBy(j) # {} \/ DrainedBy(j) # {}
       /\ future[j] = "Running" <=> \E w \in TakenBy(j) : wpc[w] = "run"

(* A job is run once at most, and not at all after its cancel returned True. *)
RunOrCancelled ==
  \A j \in Jobs :
    /\ runs[j] <= 1
    /\ j \in cancelled => runs[j] = 0 /\ future[j] = "Cancelled"

(* shutdown: nothing is accepted once a shutdown has closed the queue, and   *)
(* when a shutdown that waits returns, every future is done, or in the hands *)
(* of another shutdown that is about to cancel it, if a worker was started.  *)
ShutdownCompletes ==
  /\ [][closed => accepted' = accepted]_vars
  /\ [][\A u \in Users :
          (upc[u] = "join" /\ upc'[u] = "idle" /\ threads > 0) =>
            \A j \in 1 .. accepted : future[j] \in Done \/ DrainedBy(j) # {}]_vars

(* Every job that was submitted gets done as soon as one worker could be     *)
(* started, and submit and shutdown return, whatever the others do.          *)
WorkGetsDone ==
  /\ \A j \in Jobs : (j <= accepted /\ threads > 0) ~> (j <= accepted /\ future[j] \in Done)
  /\ \A u \in Users : []<>(upc[u] = "idle")
=============================================================================
