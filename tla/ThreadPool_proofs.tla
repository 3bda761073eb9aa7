------------------------- MODULE ThreadPool_proofs -------------------------
(***************************************************************************)
(* Proofs about ThreadPool for any users, workers and number of jobs: a    *)
(* job is run once at most, and not after it has been cancelled; it is in  *)
(* one place until then; and a shutdown that waits leaves none undone.     *)
(***************************************************************************)
EXTENDS ThreadPool, FiniteSetTheorems, TLAPS

(* The types, without the count of unfinished tasks: whoever has a job in    *)
(* hand has one that was queued.                                             *)
Typed ==
  /\ items \in Seq(Jobs)
  /\ accepted \in 0 .. MaxPuts
  /\ threads \in 0 .. MaxWorkers
  /\ future \in [Jobs -> States]
  /\ wpc \in [Workers -> WorkerPlaces]
  /\ job \in [Workers -> 0 .. MaxPuts]
  /\ \A w \in Workers : wpc[w] \in Busy => job[w] \in Jobs
  /\ upc \in [Users -> UserPlaces]
  /\ drained \in [Users -> 0 .. MaxPuts]
  /\ \A u \in Users : /\ upc[u] = "cancel" => drained[u] \in Jobs
                      /\ upc[u] = "adjust" => accepted \in Jobs
  /\ given \subseteq Jobs
  /\ runs \in [Jobs -> Nat]
  /\ cancelled \subseteq Jobs

(* RunOrCancelled is not inductive: whether a job has been run can be told   *)
(* from its future, and a worker runs only what it has claimed.              *)
Claimed ==
  /\ \A j \in Jobs :
       /\ runs[j] \in {0, 1}
       /\ runs[j] = 0 <=> future[j] \in {"Pending", "Cancelled"}
       /\ j \in cancelled => future[j] = "Cancelled"
  /\ \A w \in Workers : wpc[w] = "run" => runs[job[w]] = 1

IInv == Typed /\ Claimed

LEMMA InitIInv == Init => IInv
<1> SUFFICES ASSUME Init PROVE IInv
  OBVIOUS
<1> USE ThreadPoolAssumption DEF Init, QueueInit
<1>1. Typed
  <2>1. items \in Seq(Jobs)
    OBVIOUS
  <2>2. 0 \in 0 .. MaxPuts /\ 0 \in 0 .. MaxWorkers
    OBVIOUS
  <2> QED
    BY <2>1, <2>2 DEF Typed, States, WorkerPlaces, Busy, UserPlaces
<1>2. Claimed
  BY DEF Claimed
<1> QED
  BY <1>1, <1>2 DEF IInv

LEMMA NextIInv == IInv /\ [Next]_vars => IInv'
<1> SUFFICES ASSUME IInv, [Next]_vars PROVE IInv'
  OBVIOUS
<1> USE ThreadPoolAssumption
    DEF IInv, Typed, Claimed, States, WorkerPlaces, Busy, UserPlaces, Jobs, Workers,
        queueVars, users, workers, history, Goto, Finish, Advance
<1>1. CASE UNCHANGED vars
  BY <1>1 DEF vars
<1>2. ASSUME NEW u \in Users, Submit(u) PROVE IInv'
  BY <1>2 DEF Submit, Enqueue, LockFree, Locked
<1>3. ASSUME NEW u \in Users, SubmitRefused(u) PROVE IInv'
  BY <1>3 DEF SubmitRefused, vars
<1>4. ASSUME NEW u \in Users, AdjustThreadCount(u) PROVE IInv'
  <2>1. CASE threads < MaxWorkers
    <3>1. /\ upc' = [upc EXCEPT ![u] = "idle"] /\ given' = given \cup {accepted}
          /\ wpc' = [wpc EXCEPT ![threads + 1] = "get"] /\ threads' = threads + 1
          /\ UNCHANGED <<items, accepted, future, job, drained, runs, cancelled>>
      BY <1>4, <2>1 DEF AdjustThreadCount, SubmitReturns
    <3>2. threads + 1 \in Workers /\ accepted \in Jobs
      BY <1>4, <2>1 DEF AdjustThreadCount
    <3>3. Typed'
      BY <2>1, <3>1, <3>2
    <3>4. Claimed'
      BY <3>1, <3>2
    <3> QED
      BY <3>3, <3>4
  <2>2. CASE ~(threads < MaxWorkers)
    <3>1. /\ upc' = [upc EXCEPT ![u] = "idle"] /\ given' = given \cup {accepted}
          /\ UNCHANGED <<items, accepted, threads, future, wpc, job, drained, runs, cancelled>>
      BY <1>4, <2>2 DEF AdjustThreadCount, SubmitReturns
    <3>2. accepted \in Jobs
      BY <1>4 DEF AdjustThreadCount
    <3> QED
      BY <3>1, <3>2
  <2> QED
    BY <2>1, <2>2
<1>5. ASSUME NEW u \in Users, StartFails(u) PROVE IInv'
  BY <1>5 DEF StartFails
<1>6. ASSUME NEW u \in Users, Shutdown(u) PROVE IInv'
  BY <1>6 DEF Shutdown
<1>7. ASSUME NEW u \in Users, Drain(u) PROVE IInv'
  BY <1>7 DEF Drain, Dequeue
<1>8. ASSUME NEW u \in Users, DrainCancel(u) PROVE IInv'
  BY <1>8 DEF DrainCancel, AfterCancel
<1>9. ASSUME NEW u \in Users, DrainEnds(u) \/ DrainFails(u) PROVE IInv'
  BY <1>9 DEF DrainEnds, DrainFails
<1>10. ASSUME NEW u \in Users, CloseQueue(u) PROVE IInv'
  BY <1>10 DEF CloseQueue, Close
<1>11. ASSUME NEW u \in Users, JoinWorkers(u) PROVE IInv'
  BY <1>11 DEF JoinWorkers
<1>12. ASSUME NEW u \in Users, CancelFuture(u) PROVE IInv'
  BY <1>12 DEF CancelFuture, AfterCancel
<1>13. ASSUME NEW w \in Workers, TakeJob(w) PROVE IInv'
  <2>1. Head(items) \in Jobs /\ items' \in Seq(Jobs)
    BY <1>13 DEF TakeJob, Dequeue
  <2>2. Typed'
    <3>1. /\ job' = [job EXCEPT ![w] = Head(items)]
          /\ wpc' = [wpc EXCEPT ![w] = "claim"]
          /\ UNCHANGED <<accepted, threads, future, upc, drained, given, runs, cancelled>>
      BY <1>13 DEF TakeJob, Dequeue
    <3>2. /\ job' \in [Workers -> 0 .. MaxPuts] /\ wpc' \in [Workers -> WorkerPlaces]
          /\ \A v \in Workers : wpc'[v] \in Busy => job'[v] \in Jobs
      BY <2>1, <3>1
    <3> QED
      BY <2>1, <3>1, <3>2
  <2>3. Claimed'
    BY <1>13 DEF TakeJob, Dequeue
  <2> QED
    BY <2>2, <2>3
<1>14. ASSUME NEW w \in Workers, Retires(w) PROVE IInv'
  BY <1>14 DEF Retires
<1>15. ASSUME NEW w \in Workers, Claim(w) PROVE IInv'
  <2>1. job[w] \in Jobs
    BY <1>15 DEF Claim
  <2>2. CASE future[job[w]] = "Pending"
    <3>1. /\ future' = [future EXCEPT ![job[w]] = "Running"]
          /\ runs' = [runs EXCEPT ![job[w]] = @ + 1]
          /\ wpc' = [wpc EXCEPT ![w] = "run"]
          /\ UNCHANGED <<items, accepted, threads, job, upc, drained, given, cancelled>>
      BY <1>15, <2>2 DEF Claim, AfterSetRunning
    <3>2. Typed'
      BY <2>1, <3>1
    <3>3. runs[job[w]] = 0
      BY <2>1, <2>2
    <3>4. Claimed'
      BY <2>1, <2>2, <3>1, <3>3
    <3> QED
      BY <3>2, <3>4
  <2>3. CASE future[job[w]] # "Pending"
    <3>1. /\ future' = future /\ runs' = runs
          /\ wpc' = [wpc EXCEPT ![w] = "acknowledge"]
          /\ UNCHANGED <<items, accepted, threads, job, upc, drained, given, cancelled>>
      BY <1>15, <2>1, <2>3 DEF Claim, AfterSetRunning
    <3> QED
      BY <1>15, <3>1 DEF Claim
  <2> QED
    BY <2>2, <2>3
<1>16. ASSUME NEW w \in Workers, Run(w) PROVE IInv'
  BY <1>16 DEF Run, Outcomes
<1>17. ASSUME NEW w \in Workers, Acknowledge(w) PROVE IInv'
  BY <1>17 DEF Acknowledge
<1> QED
  BY <1>1, <1>2, <1>3, <1>4, <1>5, <1>6, <1>7, <1>8, <1>9, <1>10, <1>11, <1>12, <1>13,
     <1>14, <1>15, <1>16, <1>17 DEF Next, InCall, Work

(* The race of a user's cancel with the worker that has taken the item, and  *)
(* with the drain of a shutdown: the job is run, once, or it is cancelled.   *)
THEOREM PoolRunOrCancelled == Spec => []RunOrCancelled
<1>1. IInv => RunOrCancelled
  BY DEF IInv, Typed, Claimed, RunOrCancelled
<1> QED
  BY <1>1, InitIInv, NextIInv, PTL DEF Spec

-----------------------------------------------------------------------------
(* EveryJobHasOnePlace is not inductive.  The queue holds the jobs that were *)
(* submitted last, in order, and the ones that have left it are below them.  *)
Gone == accepted - Len(items)

Ordered ==
  /\ Len(items) <= accepted
  /\ \A i \in 1 .. Len(items) : items[i] = Gone + i

(* Who holds a job, from the moment it leaves the queue until it is          *)
(* acknowledged; nobody else holds it.                                       *)
Held ==
  /\ \A w \in Workers : job[w] <= Gone /\ (job[w] # 0 <=> wpc[w] \in Busy)
  /\ \A u \in Users : drained[u] <= Gone /\ (drained[u] # 0 <=> upc[u] = "cancel")
  /\ \A v, w \in Workers : job[v] = job[w] /\ job[v] # 0 => v = w
  /\ \A u, v \in Users : drained[u] = drained[v] /\ drained[u] # 0 => u = v
  /\ \A w \in Workers, u \in Users : job[w] = drained[u] => job[w] = 0

(* A future is pending until its job is claimed, cancelled or let go.        *)
Accounted ==
  /\ \A j \in 1 .. Gone : future[j] = "Pending" =>
       (\E w \in Workers : job[w] = j) \/ (\E u \in Users : drained[u] = j)
  /\ \A j \in Jobs : future[j] = "Running" <=> \E w \in Workers : job[w] = j /\ wpc[w] = "run"
  /\ \A w \in Workers : wpc[w] = "acknowledge" => future[job[w]] \in Done

Active == {w \in Workers : wpc[w] \in Busy}
Cancelling == {u \in Users : upc[u] = "cancel"}

Balanced == unfinished = Len(items) + Cardinality(Active) + Cardinality(Cancelling)

(* Workers leave when the queue is closed for good, which only a shutdown    *)
(* does.                                                                     *)
Closing ==
  /\ shutdownFlag \in BOOLEAN /\ closed \in BOOLEAN /\ dropped = FALSE
  /\ waits \in [Users -> BOOLEAN]
  /\ closed => shutdownFlag
  /\ \A u \in Users : upc[u] \in {"drain", "cancel", "close", "join"} => shutdownFlag
  /\ \A w \in Workers : wpc[w] = "absent" <=> w > threads
  /\ \A w \in Workers : wpc[w] = "exited" => closed /\ items = <<>>

PlacesInv == IInv /\ Ordered /\ Held /\ Accounted /\ Balanced /\ Closing

LEMMA InitPlaces == Init => PlacesInv
<1> SUFFICES ASSUME Init PROVE PlacesInv
  OBVIOUS
<1>1. IInv
  BY InitIInv
<1>2. /\ items = <<>> /\ accepted = 0 /\ unfinished = 0 /\ threads = 0
      /\ closed = FALSE /\ dropped = FALSE /\ shutdownFlag = FALSE
      /\ future = [j \in Jobs |-> "Pending"]
      /\ wpc = [w \in Workers |-> "absent"] /\ job = [w \in Workers |-> 0]
      /\ upc = [u \in Users |-> "idle"] /\ drained = [u \in Users |-> 0]
      /\ waits = [u \in Users |-> FALSE]
  BY DEF Init, QueueInit
<1>3. Len(items) = 0 /\ Gone = 0
  <2>1. items = <<>> /\ accepted = 0
    BY <1>2
  <2>2. Len(items) = 0
    BY <2>1
  <2>3. 0 - 0 = 0
    OBVIOUS
  <2>4. Gone = 0 - 0
    BY <2>1, <2>2 DEF Gone
  <2> QED
    BY <2>2, <2>3, <2>4
<1>4. Ordered
  BY <1>2, <1>3 DEF Ordered
<1>5. Held
  BY <1>2, <1>3 DEF Held, Busy
<1>6. Accounted
  BY <1>2, <1>3 DEF Accounted
<1>7. Active = {} /\ Cancelling = {}
  BY <1>2 DEF Active, Cancelling, Busy
<1>8. Balanced
  BY <1>2, <1>3, <1>7, FS_EmptySet DEF Balanced
<1>9. \A w \in Workers : w > threads
  BY <1>2, ThreadPoolAssumption DEF Workers
<1>10. Closing
  BY <1>2, <1>9 DEF Closing
<1> QED
  BY <1>1, <1>4, <1>5, <1>6, <1>8, <1>10 DEF PlacesInv

(* The jobs in the queue are the last ones, whatever is put and taken.       *)
LEMMA QueueMoves ==
  ASSUME items \in Seq(Jobs), accepted \in Nat, Ordered
  PROVE  /\ Len(items) \in Nat /\ Gone \in Nat
         /\ Enqueue => /\ Ordered' /\ Gone' = Gone /\ Len(items') = Len(items) + 1
         /\ Dequeue => /\ Ordered' /\ Gone' = Gone + 1 /\ Len(items') = Len(items) - 1
                       /\ Len(items) > 0 /\ Head(items) = Gone + 1
<1>1. Len(items) \in Nat /\ Gone \in Nat
  BY DEF Ordered, Gone
<1>2. ASSUME Enqueue
      PROVE  Ordered' /\ Gone' = Gone /\ Len(items') = Len(items) + 1
  <2>1. items' = Append(items, accepted + 1) /\ accepted' = accepted + 1
    BY <1>2 DEF Enqueue
  <2>2. /\ Len(items') = Len(items) + 1
        /\ \A i \in 1 .. Len(items) : items'[i] = items[i]
        /\ items'[Len(items) + 1] = accepted + 1
    BY <2>1
  <2>3. Gone' = Gone
    BY <1>1, <2>1, <2>2 DEF Gone
  <2>4. Gone + (Len(items) + 1) = accepted + 1
    BY <1>1 DEF Gone
  <2>5. \A i \in 1 .. Len(items) + 1 : items'[i] = Gone + i
    BY <1>1, <2>2, <2>4 DEF Ordered
  <2> QED
    BY <1>1, <2>1, <2>2, <2>3, <2>5 DEF Ordered
<1>3. ASSUME Dequeue
      PROVE  /\ Ordered' /\ Gone' = Gone + 1 /\ Len(items') = Len(items) - 1
             /\ Len(items) > 0 /\ Head(items) = Gone + 1
  <2>1. items' = Tail(items) /\ accepted' = accepted /\ items # <<>>
    BY <1>3 DEF Dequeue
  <2>2. /\ Len(items') = Len(items) - 1 /\ Len(items) > 0
        /\ \A i \in 1 .. Len(items') : items'[i] = items[i + 1]
        /\ Head(items) = items[1]
    BY <2>1
  <2>3. Gone' = Gone + 1
    BY <1>1, <2>1, <2>2 DEF Gone
  <2>4. Head(items) = Gone + 1
    BY <1>1, <2>2 DEF Ordered
  <2>5. \A i \in 1 .. Len(items') : items'[i] = Gone + 1 + i
    <3> TAKE i \in 1 .. Len(items')
    <3>1. i + 1 \in 1 .. Len(items) /\ items'[i] = items[i + 1]
      BY <1>1, <2>2
    <3>2. items[i + 1] = Gone + (i + 1)
      BY <3>1 DEF Ordered
    <3> QED
      BY <1>1, <3>1, <3>2
  <2> QED
    BY <1>1, <2>1, <2>2, <2>3, <2>4, <2>5 DEF Ordered
<1> QED
  BY <1>1, <1>2, <1>3

(* A user that goes from one place to another, with no job in hand.          *)
LEMMA MovingKeepsPlaces ==
  ASSUME PlacesInv, NEW u \in Users, NEW place, upc' = [upc EXCEPT ![u] = place],
         upc[u] # "cancel", place # "cancel",
         UNCHANGED <<items, accepted, unfinished, future, wpc, job, drained>>
  PROVE  Ordered' /\ Held' /\ Accounted' /\ Balanced'
<1>0. upc \in [Users -> UserPlaces]
  BY DEF PlacesInv, IInv, Typed
<1>1. \A v \in Users : upc'[v] = "cancel" <=> upc[v] = "cancel"
  BY <1>0
<1>2. Gone' = Gone /\ Active' = Active /\ Cancelling' = Cancelling
  BY <1>1 DEF Gone, Active, Cancelling
<1>3. Ordered'
  BY <1>2 DEF PlacesInv, Ordered
<1>4. Held'
  BY <1>1, <1>2 DEF PlacesInv, Held
<1>5. Accounted'
  BY <1>2 DEF PlacesInv, Accounted
<1>6. Balanced'
  BY <1>2 DEF PlacesInv, Balanced
<1> QED
  BY <1>3, <1>4, <1>5, <1>6

LEMMA NextPlaces == PlacesInv /\ [Next]_vars => PlacesInv'
<1> SUFFICES ASSUME PlacesInv, [Next]_vars PROVE PlacesInv'
  OBVIOUS
<1> USE ThreadPoolAssumption DEF Goto, Finish, Advance, Workers
<1>0. IInv /\ Ordered /\ Held /\ Accounted /\ Balanced /\ Closing
  BY DEF PlacesInv
<1>i. IInv'
  BY <1>0, NextIInv
<1>f. /\ items \in Seq(Jobs) /\ accepted \in Nat /\ threads \in 0 .. MaxWorkers
      /\ future \in [Jobs -> States]
      /\ wpc \in [Workers -> WorkerPlaces] /\ job \in [Workers -> 0 .. MaxPuts]
      /\ upc \in [Users -> UserPlaces] /\ drained \in [Users -> 0 .. MaxPuts]
  BY <1>0 DEF IInv, Typed
<1>q. /\ Len(items) \in Nat /\ Gone \in Nat
      /\ Enqueue => /\ Ordered' /\ Gone' = Gone /\ Len(items') = Len(items) + 1
      /\ Dequeue => /\ Ordered' /\ Gone' = Gone + 1 /\ Len(items') = Len(items) - 1
                    /\ Len(items) > 0 /\ Head(items) = Gone + 1
  BY <1>0, <1>f, QueueMoves
<1>n. /\ IsFiniteSet(Active) /\ Cardinality(Active) \in Nat
      /\ IsFiniteSet(Cancelling) /\ Cardinality(Cancelling) \in Nat
  <2>1. IsFiniteSet(Workers)
    BY FS_Interval
  <2>2. IsFiniteSet(Active) /\ IsFiniteSet(Cancelling)
    BY <2>1, FS_Subset DEF Active, Cancelling
  <2> QED
    BY <2>2, FS_CardinalityType
<1>b. unfinished = Len(items) + Cardinality(Active) + Cardinality(Cancelling)
  BY <1>0 DEF Balanced
<1>1. CASE UNCHANGED vars
  <2>1. UNCHANGED <<items, accepted, unfinished, threads, future, wpc, job, upc, drained,
                    waits, closed, dropped, shutdownFlag>>
    BY <1>1 DEF vars, queueVars, users, workers
  <2>2. Ordered' /\ Held' /\ Accounted'
    BY <1>0, <2>1 DEF Ordered, Held, Accounted, Gone
  <2>3. Balanced' /\ Closing'
    BY <1>0, <2>1 DEF Balanced, Active, Cancelling, Closing
  <2> QED
    BY <1>i, <2>2, <2>3 DEF PlacesInv
<1>2. ASSUME NEW u \in Users, Submit(u) PROVE PlacesInv'
  <2>1. /\ Enqueue /\ unfinished' = unfinished + 1 /\ upc' = [upc EXCEPT ![u] = "adjust"]
        /\ upc[u] = "idle" /\ ~shutdownFlag /\ accepted' = accepted + 1 /\ ~closed
        /\ UNCHANGED <<shutdownFlag, closed, dropped, threads, future, wpc, job, waits, drained>>
    BY <1>2 DEF Submit, Enqueue, workers
  <2>2. \A v \in Users : (upc'[v] = "cancel" <=> upc[v] = "cancel")
                         /\ (v # u => upc'[v] = upc[v])
    BY <1>f, <2>1
  <2>3. Ordered' /\ Gone' = Gone /\ Len(items') = Len(items) + 1
    BY <1>q, <2>1
  <2>4. Held'
    BY <1>0, <2>1, <2>2, <2>3 DEF Held
  <2>5. Accounted'
    BY <1>0, <2>1, <2>3 DEF Accounted
  <2>6. Active' = Active /\ Cancelling' = Cancelling
    BY <2>1, <2>2 DEF Active, Cancelling
  <2>7. Balanced'
    BY <1>b, <1>n, <1>q, <2>1, <2>3, <2>6 DEF Balanced
  <2>8. \A w \in Workers : wpc[w] # "exited"
    BY <1>0, <2>1 DEF Closing
  <2>9. Closing'
    BY <1>0, <1>f, <2>1, <2>2, <2>8 DEF Closing
  <2> QED
    BY <1>i, <2>3, <2>4, <2>5, <2>7, <2>9 DEF PlacesInv
<1>3. ASSUME NEW u \in Users, AdjustThreadCount(u) PROVE PlacesInv'
  <2>1. /\ upc[u] = "adjust" /\ upc' = [upc EXCEPT ![u] = "idle"]
        /\ UNCHANGED <<items, accepted, unfinished, future, job, drained,
                       shutdownFlag, closed, dropped, waits>>
    BY <1>3 DEF AdjustThreadCount, SubmitReturns, queueVars
  <2>2. \A v \in Users : (upc'[v] = "cancel" <=> upc[v] = "cancel")
                         /\ (v # u => upc'[v] = upc[v]) /\ upc'[u] = "idle"
    BY <1>f, <2>1
  <2>3. CASE threads < MaxWorkers
    <3>1. wpc' = [wpc EXCEPT ![threads + 1] = "get"] /\ threads' = threads + 1
      BY <1>3, <2>3 DEF AdjustThreadCount
    <3>2. threads + 1 \in Workers
      BY <1>f, <2>3
    <3>3. wpc[threads + 1] = "absent"
      BY <1>0, <1>f, <3>2 DEF Closing
    <3>4. /\ \A w \in Workers : w # threads + 1 => wpc'[w] = wpc[w]
          /\ wpc'[threads + 1] = "get"
      BY <1>f, <3>1, <3>2
    <3>5. Gone' = Gone /\ Cancelling' = Cancelling /\ Active' = Active
      BY <2>1, <2>2, <3>3, <3>4 DEF Gone, Cancelling, Active, Busy
    <3>6. Ordered'
      BY <1>0, <2>1, <3>5 DEF Ordered
    <3>7. \A w \in Workers : wpc'[w] \in Busy <=> wpc[w] \in Busy
      BY <3>3, <3>4 DEF Busy
    <3>8. Held'
      BY <1>0, <2>1, <2>2, <3>5, <3>7 DEF Held
    <3>9. \A w \in Workers : /\ wpc'[w] = "run" <=> wpc[w] = "run"
                             /\ wpc'[w] = "acknowledge" <=> wpc[w] = "acknowledge"
                             /\ wpc'[w] = "exited" <=> wpc[w] = "exited"
      BY <3>3, <3>4
    <3>10. Accounted'
      BY <1>0, <2>1, <3>5, <3>9 DEF Accounted
    <3>11. Balanced'
      BY <1>0, <2>1, <3>5 DEF Balanced
    <3>12. \A w \in Workers : wpc'[w] = "absent" <=> w > threads'
      BY <1>0, <1>f, <3>1, <3>4 DEF Closing
    <3>13. Closing'
      BY <1>0, <2>1, <2>2, <3>9, <3>12 DEF Closing
    <3> QED
      BY <1>i, <3>6, <3>8, <3>10, <3>11, <3>13 DEF PlacesInv
  <2>4. CASE ~(threads < MaxWorkers)
    <3>1. UNCHANGED <<wpc, threads>>
      BY <1>3, <2>4 DEF AdjustThreadCount
    <3>2. Closing'
      BY <1>0, <2>1, <2>2, <3>1 DEF Closing
    <3>3. Ordered' /\ Held' /\ Accounted' /\ Balanced'
      BY <2>1, <3>1, MovingKeepsPlaces
    <3> QED
      BY <1>i, <3>2, <3>3 DEF PlacesInv
  <2> QED
    BY <2>3, <2>4
<1>4. ASSUME NEW u \in Users, StartFails(u) \/ DrainEnds(u) \/ DrainFails(u) \/ JoinWorkers(u)
      PROVE  PlacesInv'
  <2>1. /\ upc[u] # "cancel"
        /\ UNCHANGED <<items, accepted, unfinished, threads, future, wpc, job, drained, waits,
                       shutdownFlag, closed, dropped>>
    BY <1>4 DEF StartFails, DrainEnds, DrainFails, JoinWorkers, queueVars, workers
  <2>2. PICK place \in {"idle", "close"} :
          upc' = [upc EXCEPT ![u] = place] /\ (place = "close" => upc[u] = "drain")
    BY <1>4 DEF StartFails, DrainEnds, DrainFails, JoinWorkers
  <2>3. Ordered' /\ Held' /\ Accounted' /\ Balanced'
    BY <2>1, <2>2, MovingKeepsPlaces
  <2>4. \A v \in Users : upc'[v] = IF v = u THEN place ELSE upc[v]
    BY <1>f, <2>2
  <2>5. Closing'
    BY <1>0, <2>1, <2>2, <2>4 DEF Closing
  <2> QED
    BY <1>i, <2>3, <2>5 DEF PlacesInv
<1>5. ASSUME NEW u \in Users, Shutdown(u) PROVE PlacesInv'
  <2>1. /\ upc[u] = "idle" /\ shutdownFlag' = TRUE
        /\ UNCHANGED <<items, accepted, unfinished, threads, future, wpc, job, drained,
                       closed, dropped>>
        /\ \E wait, c \in BOOLEAN :
             /\ waits' = [waits EXCEPT ![u] = wait]
             /\ upc' = [upc EXCEPT ![u] = IF c THEN "drain" ELSE "close"]
    BY <1>5 DEF Shutdown, queueVars, workers
  <2>2. PICK place \in {"drain", "close"} : upc' = [upc EXCEPT ![u] = place]
    BY <2>1
  <2>3. Ordered' /\ Held' /\ Accounted' /\ Balanced'
    BY <2>1, <2>2, MovingKeepsPlaces
  <2>4. waits' \in [Users -> BOOLEAN]
    BY <1>0, <2>1 DEF Closing
  <2>5. Closing'
    BY <1>0, <2>1, <2>4 DEF Closing
  <2> QED
    BY <1>i, <2>3, <2>5 DEF PlacesInv
<1>6. ASSUME NEW u \in Users, CloseQueue(u) PROVE PlacesInv'
  <2>1. /\ upc[u] = "close" /\ closed' = TRUE
        /\ UNCHANGED <<items, accepted, unfinished, threads, future, wpc, job, drained, waits,
                       dropped, shutdownFlag>>
    BY <1>6 DEF CloseQueue, Close, workers
  <2>2. PICK place \in {"join", "idle"} : upc' = [upc EXCEPT ![u] = place]
    BY <1>6 DEF CloseQueue
  <2>3. Ordered' /\ Held' /\ Accounted' /\ Balanced'
    BY <2>1, <2>2, MovingKeepsPlaces
  <2>4. shutdownFlag
    BY <1>0, <2>1 DEF Closing
  <2>5. Closing'
    BY <1>0, <2>1, <2>4 DEF Closing
  <2> QED
    BY <1>i, <2>3, <2>5 DEF PlacesInv
<1>7. ASSUME NEW u \in Users, Drain(u) PROVE PlacesInv'
  <2>1. /\ Dequeue /\ upc[u] = "drain" /\ upc' = [upc EXCEPT ![u] = "cancel"]
        /\ drained' = [drained EXCEPT ![u] = Head(items)]
        /\ UNCHANGED <<accepted, unfinished, threads, future, wpc, job, waits,
                       closed, dropped, shutdownFlag>>
    BY <1>7 DEF Drain, Dequeue, workers
  <2>2. /\ Ordered' /\ Gone' = Gone + 1 /\ Len(items') = Len(items) - 1
        /\ Len(items) > 0 /\ Head(items) = Gone + 1
    BY <1>q, <2>1
  <2>3. \A v \in Users : /\ upc'[v] = IF v = u THEN "cancel" ELSE upc[v]
                         /\ drained'[v] = IF v = u THEN Gone + 1 ELSE drained[v]
    BY <1>f, <2>1, <2>2
  <2>4. \A w \in Workers : job[w] \in Nat /\ job[w] <= Gone
    BY <1>0, <1>f DEF Held
  <2>5. \A v \in Users : drained[v] \in Nat /\ drained[v] <= Gone
    BY <1>0, <1>f DEF Held
  <2>6. Held'
    <3>1. \A w \in Workers : job'[w] <= Gone' /\ (job'[w] # 0 <=> wpc'[w] \in Busy)
      BY <1>0, <1>q, <2>1, <2>2, <2>4 DEF Held
    <3>2. \A v \in Users : drained'[v] <= Gone' /\ (drained'[v] # 0 <=> upc'[v] = "cancel")
      BY <1>0, <1>q, <2>2, <2>3, <2>5 DEF Held
    <3>3. \A v, w \in Workers : job'[v] = job'[w] /\ job'[v] # 0 => v = w
      BY <1>0, <2>1 DEF Held
    <3>4. \A v, x \in Users : drained'[v] = drained'[x] /\ drained'[v] # 0 => v = x
      BY <1>0, <1>q, <2>3, <2>5 DEF Held
    <3>5. \A w \in Workers, v \in Users : job'[w] = drained'[v] => job'[w] = 0
      BY <1>0, <1>q, <2>1, <2>3, <2>4 DEF Held
    <3> QED
      BY <3>1, <3>2, <3>3, <3>4, <3>5 DEF Held
  <2>7. Accounted'
    <3>1. \A j \in 1 .. Gone' : j \in 1 .. Gone \/ j = Gone + 1
      BY <1>q, <2>2
    <3>2. \A v \in Users : drained[v] # 0 => v # u
      BY <1>0, <2>1 DEF Held
    <3>3. \A j \in 1 .. Gone' : future'[j] = "Pending" =>
            (\E w \in Workers : job'[w] = j) \/ (\E v \in Users : drained'[v] = j)
      BY <1>0, <2>1, <2>3, <3>1, <3>2 DEF Accounted
    <3> QED
      BY <1>0, <2>1, <3>3 DEF Accounted
  <2>8. Balanced'
    <3>1. Active' = Active /\ Cancelling' = Cancelling \cup {u} /\ u \notin Cancelling
      BY <2>1, <2>3 DEF Active, Cancelling
    <3>2. Cardinality(Cancelling') = Cardinality(Cancelling) + 1
      BY <1>n, <3>1, FS_AddElement
    <3> QED
      BY <1>b, <1>n, <1>q, <2>1, <2>2, <3>1, <3>2 DEF Balanced
  <2>9. items # <<>>
    BY <2>1 DEF Dequeue
  <2>10. Closing'
    BY <1>0, <2>1, <2>3, <2>9 DEF Closing
  <2> QED
    BY <1>i, <2>2, <2>6, <2>7, <2>8, <2>10 DEF PlacesInv
<1>8. ASSUME NEW u \in Users, DrainCancel(u) PROVE PlacesInv'
  <2>1. /\ upc[u] = "cancel" /\ upc' = [upc EXCEPT ![u] = "drain"]
        /\ drained' = [drained EXCEPT ![u] = 0]
        /\ future' = [future EXCEPT ![drained[u]] = AfterCancel(@)]
        /\ unfinished' = unfinished - 1
        /\ UNCHANGED <<items, accepted, threads, wpc, job, waits, closed, dropped, shutdownFlag>>
    BY <1>8 DEF DrainCancel, queueVars, workers
  <2>2. \A v \in Users : /\ upc'[v] = IF v = u THEN "drain" ELSE upc[v]
                         /\ drained'[v] = IF v = u THEN 0 ELSE drained[v]
    BY <1>f, <2>1
  <2>3. drained[u] \in Jobs /\ drained[u] # 0
    BY <1>0, <2>1 DEF IInv, Typed, Held
  <2>4. /\ future'[drained[u]] # "Pending"
        /\ \A j \in Jobs : (future'[j] = "Running" <=> future[j] = "Running")
                           /\ (future[j] \in Done => future'[j] \in Done)
                           /\ (j # drained[u] => future'[j] = future[j])
    BY <1>f, <2>1, <2>3 DEF AfterCancel, Done
  <2>5. Gone' = Gone /\ Ordered'
    BY <1>0, <2>1 DEF Gone, Ordered
  <2>6. Held'
    BY <1>0, <1>q, <2>1, <2>2, <2>5 DEF Held
  <2>7. Accounted'
    <3>1. \A j \in 1 .. Gone : j \in Jobs
      BY <1>0, <1>q DEF IInv, Typed, Ordered, Gone, Jobs
    <3>2. \A j \in 1 .. Gone : future'[j] = "Pending" =>
            j # drained[u] /\ future[j] = "Pending"
      BY <2>4, <3>1
    <3>3. \A w \in Workers : wpc[w] = "acknowledge" => job[w] \in Jobs
      BY <1>0 DEF IInv, Typed, Busy
    <3>4. \A j \in 1 .. Gone : future'[j] = "Pending" =>
            (\E w \in Workers : job'[w] = j) \/ (\E v \in Users : drained'[v] = j)
      BY <1>0, <2>1, <2>2, <3>2 DEF Accounted
    <3> QED
      BY <1>0, <2>1, <2>4, <2>5, <3>3, <3>4 DEF Accounted
  <2>8. Balanced'
    <3>1. Active' = Active /\ Cancelling' = Cancelling \ {u} /\ u \in Cancelling
      BY <2>1, <2>2 DEF Active, Cancelling
    <3>2. Cardinality(Cancelling') = Cardinality(Cancelling) - 1
      BY <1>n, <3>1, FS_RemoveElement
    <3> QED
      BY <1>b, <1>n, <1>q, <2>1, <3>1, <3>2 DEF Balanced
  <2>9. Closing'
    BY <1>0, <2>1, <2>2 DEF Closing
  <2> QED
    BY <1>i, <2>5, <2>6, <2>7, <2>8, <2>9 DEF PlacesInv
<1>9. ASSUME NEW u \in Users, CancelFuture(u) PROVE PlacesInv'
  <2>1. /\ UNCHANGED <<items, accepted, unfinished, threads, wpc, job, upc, drained, waits,
                       closed, dropped, shutdownFlag>>
        /\ \E j \in given : future' = [future EXCEPT ![j] = AfterCancel(@)]
    BY <1>9 DEF CancelFuture, queueVars, users, workers
  <2>2. \A j \in Jobs : /\ (future'[j] = "Running" <=> future[j] = "Running")
                        /\ (future[j] \in Done => future'[j] \in Done)
                        /\ (future'[j] = "Pending" => future[j] = "Pending")
    BY <1>f, <2>1 DEF AfterCancel, Done
  <2>3. Gone' = Gone /\ Ordered' /\ Held'
    BY <1>0, <2>1 DEF Gone, Ordered, Held
  <2>4. \A j \in 1 .. Gone : j \in Jobs
    BY <1>0, <1>q DEF IInv, Typed, Ordered, Gone, Jobs
  <2>5. \A w \in Workers : wpc[w] = "acknowledge" => job[w] \in Jobs
    BY <1>0 DEF IInv, Typed, Busy
  <2>6. Accounted'
    BY <1>0, <2>1, <2>2, <2>3, <2>4, <2>5 DEF Accounted
  <2>7. Balanced' /\ Closing'
    BY <1>0, <2>1 DEF Balanced, Active, Cancelling, Closing
  <2> QED
    BY <1>i, <2>3, <2>6, <2>7 DEF PlacesInv
<1>10. ASSUME NEW w \in Workers, TakeJob(w) PROVE PlacesInv'
  <2>1. /\ Dequeue /\ wpc[w] = "get" /\ wpc' = [wpc EXCEPT ![w] = "claim"]
        /\ job' = [job EXCEPT ![w] = Head(items)]
        /\ UNCHANGED <<accepted, unfinished, threads, future, upc, drained, waits,
                       closed, dropped, shutdownFlag>>
    BY <1>10 DEF TakeJob, Dequeue, users
  <2>2. /\ Ordered' /\ Gone' = Gone + 1 /\ Len(items') = Len(items) - 1
        /\ Len(items) > 0 /\ Head(items) = Gone + 1
    BY <1>q, <2>1
  <2>3. \A v \in Workers : /\ wpc'[v] = IF v = w THEN "claim" ELSE wpc[v]
                           /\ job'[v] = IF v = w THEN Gone + 1 ELSE job[v]
    BY <1>f, <2>1, <2>2
  <2>4. \A v \in Workers : job[v] \in Nat /\ job[v] <= Gone
    BY <1>0, <1>f DEF Held
  <2>5. \A u \in Users : drained[u] \in Nat /\ drained[u] <= Gone
    BY <1>0, <1>f DEF Held
  <2>6. Held'
    <3>1. \A v \in Workers : job'[v] <= Gone' /\ (job'[v] # 0 <=> wpc'[v] \in Busy)
      BY <1>0, <1>q, <2>2, <2>3, <2>4 DEF Held, Busy
    <3>2. \A u \in Users : drained'[u] <= Gone' /\ (drained'[u] # 0 <=> upc'[u] = "cancel")
      BY <1>0, <1>q, <2>1, <2>2, <2>5 DEF Held
    <3>3. \A v, x \in Workers : job'[v] = job'[x] /\ job'[v] # 0 => v = x
      BY <1>0, <1>q, <2>3, <2>4 DEF Held
    <3>4. \A u, v \in Users : drained'[u] = drained'[v] /\ drained'[u] # 0 => u = v
      BY <1>0, <2>1 DEF Held
    <3>5. \A v \in Workers, u \in Users : job'[v] = drained'[u] => job'[v] = 0
      BY <1>0, <1>q, <2>1, <2>3, <2>5 DEF Held
    <3> QED
      BY <3>1, <3>2, <3>3, <3>4, <3>5 DEF Held
  <2>7. Accounted'
    <3>1. \A j \in 1 .. Gone' : j \in 1 .. Gone \/ j = Gone + 1
      BY <1>q, <2>2
    <3>2. \A v \in Workers : job[v] # 0 => v # w
      BY <1>0, <2>1 DEF Held, Busy
    <3>3. \A j \in 1 .. Gone' : future'[j] = "Pending" =>
            (\E v \in Workers : job'[v] = j) \/ (\E u \in Users : drained'[u] = j)
      BY <1>0, <2>1, <2>3, <3>1, <3>2 DEF Accounted
    <3>4. \A v \in Workers : /\ wpc'[v] \in {"run", "acknowledge"} <=>
                                  wpc[v] \in {"run", "acknowledge"}
                             /\ wpc'[v] \in {"run", "acknowledge"} =>
                                  wpc'[v] = wpc[v] /\ job'[v] = job[v]
      BY <2>1, <2>3
    <3> QED
      BY <1>0, <2>1, <3>3, <3>4 DEF Accounted
  <2>8. Balanced'
    <3>1. Cancelling' = Cancelling /\ Active' = Active \cup {w} /\ w \notin Active
      BY <2>1, <2>3 DEF Active, Cancelling, Busy
    <3>2. Cardinality(Active') = Cardinality(Active) + 1
      BY <1>n, <3>1, FS_AddElement
    <3> QED
      BY <1>b, <1>n, <1>q, <2>1, <2>2, <3>1, <3>2 DEF Balanced
  <2>9. items # <<>>
    BY <2>1 DEF Dequeue
  <2>10. Closing'
    BY <1>0, <2>1, <2>3, <2>9 DEF Closing
  <2> QED
    BY <1>i, <2>2, <2>6, <2>7, <2>8, <2>10 DEF PlacesInv
<1>11. ASSUME NEW w \in Workers, Retires(w) PROVE PlacesInv'
  <2>1. /\ wpc[w] = "get" /\ wpc' = [wpc EXCEPT ![w] = "exited"] /\ closed /\ items = <<>>
        /\ UNCHANGED <<items, accepted, unfinished, threads, future, job, upc, drained, waits,
                       closed, dropped, shutdownFlag>>
    BY <1>11 DEF Retires, queueVars, users
  <2>2. \A v \in Workers : wpc'[v] = IF v = w THEN "exited" ELSE wpc[v]
    BY <1>f, <2>1
  <2>3. Gone' = Gone /\ Ordered'
    BY <1>0, <2>1 DEF Gone, Ordered
  <2>4. \A v \in Workers : wpc'[v] \in Busy <=> wpc[v] \in Busy
    BY <2>1, <2>2 DEF Busy
  <2>5. Held'
    BY <1>0, <2>1, <2>3, <2>4 DEF Held
  <2>6. Accounted'
    BY <1>0, <2>1, <2>2, <2>3 DEF Accounted
  <2>7. Balanced'
    BY <1>0, <2>1, <2>4 DEF Balanced, Active, Cancelling
  <2>8. Closing'
    BY <1>0, <2>1, <2>2 DEF Closing
  <2> QED
    BY <1>i, <2>3, <2>5, <2>6, <2>7, <2>8 DEF PlacesInv
<1>12. ASSUME NEW w \in Workers, Claim(w) \/ Run(w) PROVE PlacesInv'
  <2>1. /\ wpc[w] \in {"claim", "run"}
        /\ UNCHANGED <<items, accepted, unfinished, threads, job, upc, drained, waits,
                       closed, dropped, shutdownFlag>>
    BY <1>12 DEF Claim, Run, queueVars, users
  <2>2. PICK place \in {"run", "acknowledge"} : wpc' = [wpc EXCEPT ![w] = place]
    BY <1>12 DEF Claim, Run
  <2>3. \A v \in Workers : wpc'[v] = IF v = w THEN place ELSE wpc[v]
    BY <1>f, <2>2
  <2>4. job[w] \in Jobs /\ job[w] # 0
    BY <1>0, <2>1 DEF IInv, Typed, Held, Busy
  <2>5. \A v \in Workers : wpc'[v] \in Busy <=> wpc[v] \in Busy
    BY <2>1, <2>3 DEF Busy
  <2>6. Gone' = Gone /\ Ordered'
    BY <1>0, <2>1 DEF Gone, Ordered
  <2>7. Held'
    BY <1>0, <2>1, <2>5, <2>6 DEF Held
  <2>8. \A j \in Jobs : j # job[w] => future'[j] = future[j]
    BY <1>f, <1>12, <2>4 DEF Claim, Run
  <2>9. \A v \in Workers : job[v] = job[w] => v = w
    BY <1>0, <2>4 DEF Held
  <2>10. /\ wpc'[w] = "run" => future'[job[w]] = "Running"
         /\ wpc'[w] = "acknowledge" => future'[job[w]] \in Done
    <3>1. CASE Run(w)
      <4>1. wpc'[w] = "acknowledge" /\ future'[job[w]] \in Outcomes
        BY <1>f, <2>4, <3>1 DEF Run, Outcomes
      <4> QED
        BY <4>1 DEF Outcomes, Done
    <3>2. CASE Claim(w)
      <4>1. wpc[w] = "claim" /\ future[job[w]] # "Running"
        BY <1>0, <2>4, <2>9, <3>2 DEF Claim, Accounted
      <4>2. CASE future[job[w]] = "Pending"
        BY <1>f, <2>4, <3>2, <4>2 DEF Claim, AfterSetRunning
      <4>3. CASE future[job[w]] # "Pending"
        <5>1. wpc'[w] = "acknowledge" /\ future'[job[w]] = future[job[w]]
          BY <1>f, <2>4, <3>2, <4>3 DEF Claim, AfterSetRunning
        <5>2. future[job[w]] \in Done
          BY <1>f, <2>4, <4>1, <4>3 DEF States, Done
        <5> QED
          BY <5>1, <5>2
      <4> QED
        BY <4>2, <4>3
    <3> QED
      BY <1>12, <3>1, <3>2
  <2>11. Accounted'
    <3>1. \A j \in 1 .. Gone : j \in Jobs
      BY <1>0, <1>q DEF IInv, Typed, Ordered, Gone, Jobs
    <3>2. \A j \in 1 .. Gone' : future'[j] = "Pending" =>
            (\E v \in Workers : job'[v] = j) \/ (\E u \in Users : drained'[u] = j)
      BY <1>0, <2>1, <2>6, <2>8, <3>1 DEF Accounted
    <3>3. \A j \in Jobs : future'[j] = "Running" <=>
            \E v \in Workers : job'[v] = j /\ wpc'[v] = "run"
      <4> TAKE j \in Jobs
      <4>1. CASE j = job[w]
        BY <2>1, <2>3, <2>9, <2>10, <4>1 DEF Done
      <4>2. CASE j # job[w]
        BY <1>0, <2>1, <2>3, <2>8, <4>2 DEF Accounted
      <4> QED
        BY <4>1, <4>2
    <3>4. \A v \in Workers : wpc'[v] = "acknowledge" => future'[job'[v]] \in Done
      <4> SUFFICES ASSUME NEW v \in Workers, wpc'[v] = "acknowledge", v # w
                   PROVE  future'[job[v]] \in Done
        BY <2>1, <2>10
      <4>1. wpc[v] = "acknowledge" /\ job[v] \in Jobs /\ job[v] # job[w]
        BY <1>0, <2>3, <2>9 DEF IInv, Typed, Busy
      <4> QED
        BY <1>0, <2>8, <4>1 DEF Accounted
    <3> QED
      BY <3>2, <3>3, <3>4 DEF Accounted
  <2>12. Balanced'
    BY <1>0, <2>1, <2>5 DEF Balanced, Active, Cancelling
  <2>13. Closing'
    BY <1>0, <2>1, <2>3 DEF Closing
  <2> QED
    BY <1>i, <2>6, <2>7, <2>11, <2>12, <2>13 DEF PlacesInv
<1>13. ASSUME NEW w \in Workers, Acknowledge(w) PROVE PlacesInv'
  <2>1. /\ wpc[w] = "acknowledge" /\ wpc' = [wpc EXCEPT ![w] = "get"]
        /\ job' = [job EXCEPT ![w] = 0] /\ unfinished' = unfinished - 1
        /\ UNCHANGED <<items, accepted, threads, future, upc, drained, waits,
                       closed, dropped, shutdownFlag>>
    BY <1>13 DEF Acknowledge, queueVars, users
  <2>2. \A v \in Workers : /\ wpc'[v] = IF v = w THEN "get" ELSE wpc[v]
                           /\ job'[v] = IF v = w THEN 0 ELSE job[v]
    BY <1>f, <2>1
  <2>3. Gone' = Gone /\ Ordered'
    BY <1>0, <2>1 DEF Gone, Ordered
  <2>4. Held'
    BY <1>0, <1>q, <2>1, <2>2, <2>3 DEF Held, Busy
  <2>5. future[job[w]] # "Pending"
    BY <1>0, <2>1 DEF Accounted, Done
  <2>6. \A v \in Workers : wpc'[v] \in {"run", "acknowledge"} => v # w
    BY <2>2
  <2>7. Accounted'
    <3>1. \A j \in 1 .. Gone' : future'[j] = "Pending" =>
            (\E v \in Workers : job'[v] = j) \/ (\E u \in Users : drained'[u] = j)
      BY <1>0, <2>1, <2>2, <2>3, <2>5 DEF Accounted
    <3>2. \A j \in Jobs : future'[j] = "Running" <=>
            \E v \in Workers : job'[v] = j /\ wpc'[v] = "run"
      BY <1>0, <2>1, <2>2 DEF Accounted
    <3> QED
      BY <1>0, <2>1, <2>2, <3>1, <3>2 DEF Accounted
  <2>8. Balanced'
    <3>1. Cancelling' = Cancelling /\ Active' = Active \ {w} /\ w \in Active
      BY <2>1, <2>2 DEF Active, Cancelling, Busy
    <3>2. Cardinality(Active') = Cardinality(Active) - 1
      BY <1>n, <3>1, FS_RemoveElement
    <3> QED
      BY <1>b, <1>n, <1>q, <2>1, <3>1, <3>2 DEF Balanced
  <2>9. Closing'
    BY <1>0, <2>1, <2>2 DEF Closing
  <2> QED
    BY <1>i, <2>3, <2>4, <2>7, <2>8, <2>9 DEF PlacesInv
<1>14. ASSUME NEW u \in Users, SubmitRefused(u) PROVE PlacesInv'
  BY <1>1, <1>14 DEF SubmitRefused
<1> QED
  BY <1>1, <1>2, <1>3, <1>4, <1>5, <1>6, <1>7, <1>8, <1>9, <1>10, <1>11, <1>12, <1>13, <1>14
  DEF Next, InCall, Work

(* The types, with the workers that submit has started.                      *)
THEOREM PoolTyping == Spec => []TypeOK
<1>1. PlacesInv => TypeOK
  <2> SUFFICES ASSUME PlacesInv PROVE TypeOK
    OBVIOUS
  <2>1. IInv /\ Closing /\ Balanced
    BY DEF PlacesInv
  <2>2. unfinished \in Nat
    <3>1. IsFiniteSet(Workers)
      BY ThreadPoolAssumption, FS_Interval DEF Workers
    <3>2. Cardinality(Active) \in Nat /\ Cardinality(Cancelling) \in Nat
      BY <3>1, ThreadPoolAssumption, FS_Subset, FS_CardinalityType DEF Active, Cancelling
    <3>3. Len(items) \in Nat
      BY <2>1 DEF IInv, Typed
    <3> QED
      BY <2>1, <3>2, <3>3 DEF Balanced
  <2> QED
    BY <2>1, <2>2 DEF IInv, Typed, Closing, TypeOK
<1> QED
  BY <1>1, InitPlaces, NextPlaces, PTL DEF Spec

(* submit, get and the drain of shutdown hand a job over without losing or   *)
(* doubling it, and unfinished_tasks counts the jobs that are somewhere.     *)
THEOREM PoolEveryJobHasOnePlace == Spec => []EveryJobHasOnePlace
<1>1. PlacesInv => EveryJobHasOnePlace
  <2> SUFFICES ASSUME PlacesInv PROVE EveryJobHasOnePlace
    OBVIOUS
  <2>0. IInv /\ Ordered /\ Held /\ Accounted /\ Balanced
    BY DEF PlacesInv
  <2>1. unfinished = Len(items) + Cardinality({w \in Workers : wpc[w] \in Busy})
                                + Cardinality({u \in Users : upc[u] = "cancel"})
    BY <2>0 DEF Balanced, Active, Cancelling
  <2>f. /\ Len(items) \in Nat /\ Gone \in Nat /\ accepted \in Nat
        /\ accepted = Gone + Len(items) /\ accepted <= MaxPuts /\ MaxPuts \in Nat
    BY <2>0, ThreadPoolAssumption, QueueMoves DEF IInv, Typed, Ordered, Gone
  <2> SUFFICES ASSUME NEW j \in 1 .. accepted
               PROVE
       /\ Cardinality(Queued(j)) + Cardinality(TakenBy(j)) + Cardinality(DrainedBy(j)) <= 1
       /\ future[j] = "Pending" => Queued(j) # {} \/ TakenBy(j) # {} \/ DrainedBy(j) # {}
       /\ future[j] = "Running" <=> \E w \in TakenBy(j) : wpc[w] = "run"
    BY <2>1 DEF EveryJobHasOnePlace
  <2>j. j \in Jobs /\ j # 0 /\ j \in Nat
    BY <2>f DEF Jobs
  <2>2. CASE j > Gone
    <3>1. Queued(j) = {j - Gone}
      BY <2>0, <2>f, <2>2 DEF Queued, Ordered
    <3>2. TakenBy(j) = {} /\ DrainedBy(j) = {}
      BY <2>0, <2>f, <2>2 DEF TakenBy, DrainedBy, Held, IInv, Typed
    <3>3. Cardinality(Queued(j)) = 1 /\ Cardinality(TakenBy(j)) = 0 /\ Cardinality(DrainedBy(j)) = 0
      BY <3>1, <3>2, FS_Singleton, FS_EmptySet
    <3>4. future[j] # "Running"
      BY <2>0, <2>j, <3>2 DEF Accounted, TakenBy
    <3> QED
      BY <3>1, <3>2, <3>3, <3>4
  <2>3. CASE j <= Gone
    <3>1. Queued(j) = {}
      BY <2>0, <2>f, <2>3 DEF Queued, Ordered
    <3>2. Cardinality(TakenBy(j)) + Cardinality(DrainedBy(j)) <= 1
      <4>1. CASE \E w \in Workers : job[w] = j
        <5>1. PICK w \in Workers : job[w] = j
          BY <4>1
        <5>2. TakenBy(j) = {w} /\ DrainedBy(j) = {}
          BY <2>0, <2>j, <5>1 DEF TakenBy, DrainedBy, Held
        <5>3. Cardinality(TakenBy(j)) = 1 /\ Cardinality(DrainedBy(j)) = 0
          BY <5>2, FS_Singleton, FS_EmptySet
        <5> QED
          BY <5>3
      <4>2. CASE ~\E w \in Workers : job[w] = j
        <5>1. TakenBy(j) = {}
          BY <4>2 DEF TakenBy
        <5>2. CASE DrainedBy(j) = {}
          <6>1. Cardinality(TakenBy(j)) = 0 /\ Cardinality(DrainedBy(j)) = 0
            BY <5>1, <5>2, FS_EmptySet
          <6> QED
            BY <6>1
        <5>3. CASE DrainedBy(j) # {}
          <6>1. PICK u \in Users : drained[u] = j
            BY <5>3 DEF DrainedBy
          <6>2. DrainedBy(j) = {u}
            BY <2>0, <2>j, <6>1 DEF DrainedBy, Held
          <6>3. Cardinality(TakenBy(j)) = 0 /\ Cardinality(DrainedBy(j)) = 1
            BY <5>1, <6>2, FS_Singleton, FS_EmptySet
          <6> QED
            BY <6>3
        <5> QED
          BY <5>2, <5>3
      <4> QED
        BY <4>1, <4>2
    <3>3. Cardinality(Queued(j)) = 0
      BY <3>1, FS_EmptySet
    <3>4. IsFiniteSet(TakenBy(j)) /\ IsFiniteSet(DrainedBy(j))
      <4>1. IsFiniteSet(Workers)
        BY ThreadPoolAssumption, FS_Interval DEF Workers
      <4> QED
        BY <4>1, ThreadPoolAssumption, FS_Subset DEF TakenBy, DrainedBy
    <3>5. Cardinality(TakenBy(j)) \in Nat /\ Cardinality(DrainedBy(j)) \in Nat
      BY <3>4, FS_CardinalityType
    <3>6. future[j] = "Pending" => TakenBy(j) # {} \/ DrainedBy(j) # {}
      BY <2>0, <2>f, <2>3 DEF Accounted, TakenBy, DrainedBy
    <3>7. future[j] = "Running" <=> \E w \in TakenBy(j) : wpc[w] = "run"
      BY <2>0, <2>j DEF Accounted, TakenBy
    <3> QED
      BY <3>2, <3>3, <3>5, <3>6, <3>7
  <2> QED
    BY <2>f, <2>2, <2>3
<1> QED
  BY <1>1, InitPlaces, NextPlaces, PTL DEF Spec

(* shutdown: what was submitted before it is done when a waiting shutdown    *)
(* returns, unless another shutdown is about to cancel it, and nothing is    *)
(* submitted after the queue has been closed.                                *)
THEOREM PoolShutdownCompletes == Spec => ShutdownCompletes
<1>1. PlacesInv /\ [Next]_vars => [closed => accepted' = accepted]_vars
  <2> SUFFICES ASSUME PlacesInv, Next, closed PROVE accepted' = accepted
    OBVIOUS
  <2>1. \A u \in Users : ~Submit(u)
    BY DEF PlacesInv, Closing, Submit
  <2> QED
    BY <2>1
    DEF Next, InCall, Work, SubmitRefused, Shutdown, CancelFuture, AdjustThreadCount,
        StartFails, Drain, DrainCancel, DrainEnds, DrainFails, CloseQueue, JoinWorkers,
        TakeJob, Retires, Claim, Run, Acknowledge, Dequeue, Close, vars, queueVars
<1>2. PlacesInv /\ [Next]_vars =>
        [\A u \in Users :
           (upc[u] = "join" /\ upc'[u] = "idle" /\ threads > 0) =>
             \A j \in 1 .. accepted : future[j] \in Done \/ DrainedBy(j) # {}]_vars
  <2> SUFFICES ASSUME PlacesInv, Next, NEW u \in Users,
                      upc[u] = "join", upc'[u] = "idle", threads > 0,
                      NEW j \in 1 .. accepted, DrainedBy(j) = {}
               PROVE  future[j] \in Done
    OBVIOUS
  <2>0. IInv /\ Ordered /\ Held /\ Accounted /\ Closing
    BY DEF PlacesInv
  <2>f. /\ Len(items) \in Nat /\ Gone \in Nat /\ accepted \in 0 .. MaxPuts
        /\ threads \in 0 .. MaxWorkers /\ MaxWorkers \in Nat /\ MaxPuts \in Nat
        /\ upc \in [Users -> UserPlaces] /\ future \in [Jobs -> States]
    BY <2>0, ThreadPoolAssumption, QueueMoves DEF IInv, Typed
  <2>1. JoinWorkers(u)
    <3>1. ASSUME NEW v \in Users,
                 Submit(v) \/ SubmitRefused(v) \/ Shutdown(v) \/ CancelFuture(v)
          PROVE  upc'[u] # "idle"
      <4>1. UNCHANGED upc \/ (upc[v] = "idle" /\ \E place : upc' = [upc EXCEPT ![v] = place])
        BY <3>1 DEF Submit, SubmitRefused, Shutdown, CancelFuture, vars, users, Goto
      <4> QED
        BY <2>f, <4>1
    <3>2. ASSUME NEW v \in Users, InCall(v), ~JoinWorkers(v) PROVE upc'[u] # "idle"
      <4>1. upc[v] # "join" /\ \E place : upc' = [upc EXCEPT ![v] = place]
        BY <3>2
        DEF InCall, AdjustThreadCount, SubmitReturns, StartFails, Drain, DrainCancel,
            DrainEnds, DrainFails, CloseQueue, Goto, Finish
      <4> QED
        BY <2>f, <4>1
    <3>3. ASSUME NEW w \in Workers, Work(w) PROVE upc'[u] # "idle"
      BY <3>3 DEF Work, TakeJob, Retires, Claim, Run, Acknowledge, users
    <3>4. PICK v \in Users : JoinWorkers(v)
      BY <3>1, <3>2, <3>3 DEF Next
    <3>5. v = u
      BY <2>f, <3>4 DEF JoinWorkers, Finish, Goto
    <3> QED
      BY <3>4, <3>5
  <2>2. \A w \in Workers : wpc[w] \in {"exited", "absent"}
    BY <2>0, <2>1, <2>f DEF JoinWorkers, Closing, Workers
  <2>3. items = <<>>
    <3>1. 1 \in Workers /\ wpc[1] = "exited"
      BY <2>1, <2>f DEF JoinWorkers, Workers
    <3> QED
      BY <2>0, <3>1 DEF Closing
  <2>4. Gone = accepted
    <3>1. Len(items) = 0
      BY <2>3
    <3> QED
      BY <2>f, <3>1 DEF Gone
  <2>5. \A w \in Workers : job[w] = 0
    BY <2>0, <2>2 DEF Held, Busy
  <2>6. j \in Jobs /\ j # 0
    BY <2>f DEF Jobs
  <2>7. future[j] # "Pending"
    BY <2>0, <2>4, <2>5, <2>6 DEF Accounted, DrainedBy
  <2>8. future[j] # "Running"
    BY <2>0, <2>5, <2>6 DEF Accounted
  <2> QED
    BY <2>f, <2>6, <2>7, <2>8 DEF States, Done
<1> QED
  BY <1>1, <1>2, InitPlaces, NextPlaces, PTL DEF Spec, ShutdownCompletes
=============================================================================
