---------------------------- MODULE FutureStates ----------------------------
(***************************************************************************)
(* The states of paw.concur.thread.Future and what its methods make of     *)
(* them.  Module Future adds the threads that wait; module ThreadPool uses *)
(* the states for every future it hands out.                               *)
(***************************************************************************)
States == {"Pending", "Running", "Cancelled", "Finished", "Exception"}

(* Future.done *)
Done == {"Cancelled", "Finished", "Exception"}

(* setResult and setException are allowed. *)
Open == States \ Done

(* Future.cancel, which returns whether the new state is Cancelled. *)
AfterCancel(s) == IF s = "Pending" THEN "Cancelled" ELSE s

(* The state in which setRunningOrNotifyCancel leaves a future that is       *)
(* pending or cancelled: running exactly if the task is to be run.           *)
AfterSetRunning(s) == IF s = "Pending" THEN "Running" ELSE s
=============================================================================
