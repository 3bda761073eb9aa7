------------------------------ MODULE Lifetimes ------------------------------
(***************************************************************************)
(* What lives as long as somebody refers to it: a Thread that some clients *)
(* share, and the object behind the handles of some threads.  The initial  *)
(* state chooses the subject; the other is left alone.                     *)
(***************************************************************************)
EXTENDS Thread

CONSTANTS Holders, MaxStrong, MaxWeak

VARIABLES
  subject, strong, weak, alive, block, strongs, weaks, selfWeak, rpc, seen, raced

handleVars == <<strong, weak, alive, block, strongs, weaks, selfWeak, rpc, seen, raced>>
allVars == <<subject, vars, handleVars>>

Ref == INSTANCE RefCount WITH Threads <- Holders, pc <- rpc

ASSUME LifetimesAssumption == Ref!RefCountAssumption

FirstHolder == CHOOSE h \in Holders : TRUE

(* Whoever is not the subject has one initial state.                         *)
LifetimesInit ==
  /\ subject \in {"thread", "handles"}
  /\ Init
  /\ Ref!Init /\ (subject # "handles" => selfWeak = 0 /\ strongs[FirstHolder] = 1)

LifetimesNext ==
  /\ UNCHANGED subject
  /\ \/ /\ subject = "thread" /\ Next
        /\ UNCHANGED handleVars
     \/ /\ subject = "handles" /\ Ref!Next
        /\ UNCHANGED vars

LifetimesSpec ==
  /\ LifetimesInit /\ [][LifetimesNext]_allVars
  /\ WF_vars(WorkerRuns)
  /\ \A c \in Clients : WF_vars(Running(c))

-----------------------------------------------------------------------------
(* The type invariants: ThreadState.refs is the number of its owners, and    *)
(* the two counts of a control block are those of its handles.               *)
TypesAndCounts == TypeOK /\ Ref!TypeOK

(* PyRefCount, PyWeakRef: a strong handle keeps the object alive, an upgrade *)
(* never brings it back, and the block outlives every handle.                *)
HandlesKeepAlive == Ref!StrongKeepsAlive /\ Ref!BlockOutlivesHandles

(* release: the last handle takes object and block with it.                  *)
NothingLeaks == Ref!NothingLeaks

(* The documented promise that any threads may release any handles.          *)
BlockOutlivesRacingHandles == Ref!BlockOutlivesRacingHandles
=============================================================================
