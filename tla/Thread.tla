------------------------------- MODULE Thread -------------------------------
(***************************************************************************)
(* paw.concur.thread.Thread over _ThreadHandle and the ThreadState of      *)
(* -thread.inl: one Python thread, from its creation to the release of its *)
(* native state.  The clients share the Thread object that was created for *)
(* it and may hold wrappers obtained from Thread.actives.                  *)
(*                                                                         *)
(* The code between taking and dropping ThreadState.mutex (or the mutex of *)
(* the registry) is one action; what start does to ThreadState.worker, and *)
(* what join reads of it, happens outside the mutex and is its own action. *)
(***************************************************************************)
EXTENDS Naturals, FiniteSets

CONSTANTS Clients

ASSUME ThreadAssumption == IsFiniteSet(Clients)

VARIABLES
  object,      \* the Thread object exists
  phase,       \* its _phase
  wraps,       \* clients that hold a wrapper from Thread.actives
  refs,        \* ThreadState.refs
  freed,       \* the ThreadState has been deleted
  started, running, finished, joined,  \* the flags of ThreadState
  ident,       \* ThreadState.ident is set
  registered,  \* ThreadState.registered
  native,      \* ThreadState.worker
  worker,      \* what the OS thread is about to do
  pc,          \* where each client is
  via,         \* what its call goes through
  patience,    \* what the timeout of its join still allows
  result,      \* how its last call ended
  launches     \* history: OS threads created

flags == <<started, running, finished, joined>>
owners == <<object, wraps, refs, freed, registered>>
calls == <<pc, via, patience, result>>
vars == <<object, phase, wraps, refs, freed, flags, ident, registered, native,
          worker, calls, launches>>

Phases == {"Initial", "Started", "Stopped"}
Starting == {"spawn", "store", "await", "await_parked"}
Joining == {"join", "join_parked", "native"}
Locations == {"idle", "destroy"} \cup Starting \cup Joining
Patience == {"none", "ahead", "past", "endless"}
Results == {"none", "ok", "timeout", "RuntimeError", "ValueError"}
Counting == {"begin", "register", "note_ident", "target", "note_finished",
             "unregister", "release"}
Stages == {"absent", "leaving", "exited"} \cup Counting

Init ==
  /\ object = TRUE
  /\ phase = "Initial"
  /\ wraps = {}
  /\ refs = 1
  /\ freed = FALSE
  /\ started = FALSE /\ running = FALSE /\ finished = FALSE /\ joined = FALSE
  /\ ident = FALSE
  /\ registered = FALSE
  /\ native = "empty"
  /\ worker = "absent"
  /\ pc = [c \in Clients |-> "idle"]
  /\ via = [c \in Clients |-> "object"]
  /\ patience = [c \in Clients |-> "endless"]
  /\ result = [c \in Clients |-> "none"]
  /\ launches = 0

At(place) == {c \in Clients : pc[c] = place}

Goto(c, place) == pc' = [pc EXCEPT ![c] = place]

(* The call of c ends with r. *)
Finish(c, r) ==
  /\ Goto(c, "idle")
  /\ result' = [result EXCEPT ![c] = r]
  /\ via' = [via EXCEPT ![c] = "object"]
  /\ patience' = [patience EXCEPT ![c] = "endless"]

(* cv.notify_all *)
WakeAll ==
  pc' = [c \in Clients |->
           CASE pc[c] = "await_parked" -> "await"
             [] pc[c] = "join_parked" -> "join"
             [] OTHER -> pc[c]]

-----------------------------------------------------------------------------
(* Wrong variants of the actions below, each a mistake the code could have   *)
(* made: the properties of this module tell them from the real ones.         *)

(* start goes by the phase of the Thread object alone. *)
StartUnchecked(c) ==
  /\ object /\ pc[c] = "idle"
  /\ IF phase # "Initial"
       THEN Finish(c, "RuntimeError") /\ UNCHANGED flags
       ELSE /\ started' = TRUE /\ running' = TRUE
            /\ Goto(c, "spawn")
            /\ UNCHANGED <<finished, joined, via, patience, result>>
  /\ UNCHANGED <<owners, phase, ident, native, worker, launches>>

(* The OS thread is not counted among the owners of its state. *)
SpawnUncounted(c) ==
  /\ pc[c] = "spawn"
  /\ worker' = "begin"
  /\ launches' = launches + 1
  /\ Goto(c, "store")
  /\ UNCHANGED <<owners, phase, flags, ident, native, via, patience, result>>

(* The OS thread does not tell start that it has an ident. *)
RegisterSilently ==
  /\ worker = "register"
  /\ registered' = TRUE
  /\ refs' = refs + 1
  /\ worker' = "target"
  /\ UNCHANGED <<object, wraps, freed, phase, flags, ident, native, calls, launches>>

(* The registry drops its reference while the thread stays listed. *)
UnregisterListed ==
  /\ worker = "unregister"
  /\ refs' = refs - 1
  /\ worker' = "release"
  /\ UNCHANGED <<object, wraps, freed, registered, phase, flags, ident, native,
                 calls, launches>>

-----------------------------------------------------------------------------
(* Thread.start.  Two clients may both find the phase Initial: the flag      *)
(* started, read under the mutex, lets one of them through.                  *)
Start(c) ==
  /\ object /\ pc[c] = "idle"
  /\ IF phase # "Initial" \/ started
       THEN Finish(c, "RuntimeError") /\ UNCHANGED flags
       ELSE /\ started' = TRUE /\ running' = TRUE
            /\ Goto(c, "spawn")
            /\ UNCHANGED <<finished, joined, via, patience, result>>
  /\ UNCHANGED <<owners, phase, ident, native, worker, launches>>

(* The OS thread is created, with a reference of its own to the state... *)
Spawn(c) ==
  /\ pc[c] = "spawn"
  /\ refs' = refs + 1
  /\ worker' = "begin"
  /\ launches' = launches + 1
  /\ Goto(c, "store")
  /\ UNCHANGED <<object, wraps, freed, registered, phase, flags, ident, native,
                 via, patience, result>>

(* ...or cannot be, and start takes everything back. *)
SpawnFails(c) ==
  /\ pc[c] = "spawn"
  /\ started' = FALSE /\ running' = FALSE /\ finished' = FALSE
  /\ Finish(c, "RuntimeError")
  /\ UNCHANGED <<owners, phase, joined, ident, native, worker, launches>>

(* st->worker = std::thread(...) *)
Store(c) ==
  /\ pc[c] = "store"
  /\ native' = "joinable"
  /\ Goto(c, "await")
  /\ UNCHANGED <<owners, phase, flags, ident, worker, via, patience, result, launches>>

(* start waits for the OS thread to publish its ident. *)
Await(c) ==
  /\ pc[c] = "await"
  /\ IF ident \/ ~running
       THEN Finish(c, "ok") /\ phase' = "Started"
       ELSE Goto(c, "await_parked") /\ UNCHANGED <<phase, via, patience, result>>
  /\ UNCHANGED <<owners, flags, ident, native, worker, launches>>

(* The entry of the OS thread. *)
Identify ==
  /\ worker = "begin"
  /\ ident' = TRUE
  /\ worker' = "register"
  /\ UNCHANGED <<owners, phase, flags, native, calls, launches>>

Register ==
  /\ worker = "register"
  /\ registered' = TRUE
  /\ refs' = refs + 1
  /\ worker' = "note_ident"
  /\ UNCHANGED <<object, wraps, freed, phase, flags, ident, native, calls, launches>>

(* target returns or raises. *)
RunTarget ==
  /\ worker = "target"
  /\ running' = FALSE /\ finished' = TRUE
  /\ worker' = "note_finished"
  /\ UNCHANGED <<owners, phase, started, joined, ident, native, calls, launches>>

NotifyAll ==
  /\ \/ worker = "note_ident" /\ worker' = "target"
     \/ worker = "note_finished" /\ worker' = "unregister"
  /\ WakeAll
  /\ UNCHANGED <<owners, phase, flags, ident, native, via, patience, result, launches>>

Unregister ==
  /\ worker = "unregister"
  /\ registered' = FALSE
  /\ refs' = refs - 1
  /\ worker' = "release"
  /\ UNCHANGED <<object, wraps, freed, phase, flags, ident, native, calls, launches>>

(* The OS thread drops its reference; as the last owner it deletes the state *)
(* and detaches itself.                                                      *)
ReleaseOwn ==
  /\ worker = "release"
  /\ refs' = refs - 1
  /\ freed' = (refs = 1)
  /\ native' = IF refs = 1 /\ native = "joinable" THEN "detached" ELSE native
  /\ worker' = "leaving"
  /\ UNCHANGED <<object, wraps, registered, phase, flags, ident, calls, launches>>

Exit ==
  /\ worker = "leaving"
  /\ worker' = "exited"
  /\ UNCHANGED <<owners, phase, flags, ident, native, calls, launches>>

(* Thread.join through the Thread object or a wrapper, whose phase is        *)
(* Started from the beginning.                                               *)
CallJoin(c) ==
  /\ pc[c] = "idle"
  /\ \E v \in {"object", "wrapper"} :
       /\ IF v = "object" THEN object ELSE c \in wraps
       /\ IF v = "object" /\ phase = "Initial"
            THEN Finish(c, "RuntimeError")
            ELSE /\ via' = [via EXCEPT ![c] = v]
                 /\ \E p \in Patience : patience' = [patience EXCEPT ![c] = p]
                 /\ Goto(c, "join")
                 /\ UNCHANGED result
  /\ UNCHANGED <<owners, phase, flags, ident, native, worker, launches>>

(* A negative timeout is refused. *)
CallJoinNegative(c) ==
  /\ pc[c] = "idle"
  /\ (object /\ phase # "Initial") \/ c \in wraps
  /\ Finish(c, "ValueError")
  /\ UNCHANGED <<owners, phase, flags, ident, native, worker, launches>>

(* A wrapper gets its own phase, the Thread object the shared one. *)
Stop(c) == phase' = IF via[c] = "object" THEN "Stopped" ELSE phase

(* The first joiner of a finished thread goes on to std::thread::join, which *)
(* it skips if start has not stored the std::thread yet.                     *)
JoinDone(c) ==
  /\ pc[c] = "join" /\ finished
  /\ joined' = TRUE
  /\ IF joined
       THEN Finish(c, "ok") /\ Stop(c)
       ELSE Goto(c, "native") /\ UNCHANGED <<phase, via, patience, result>>
  /\ UNCHANGED <<owners, started, running, finished, ident, native, worker, launches>>

JoinNative(c) ==
  /\ pc[c] = "native"
  /\ \/ native # "joinable" /\ UNCHANGED native
     \/ native = "joinable" /\ worker = "exited" /\ native' = "joined"
  /\ Finish(c, "ok") /\ Stop(c)
  /\ UNCHANGED <<owners, flags, ident, worker, launches>>

JoinGivesUp(c) ==
  /\ pc[c] = "join" /\ ~finished
  /\ patience[c] \in {"none", "past"}
  /\ Finish(c, "timeout")
  /\ UNCHANGED <<owners, phase, flags, ident, native, worker, launches>>

JoinWaits(c) ==
  /\ pc[c] = "join" /\ ~finished
  /\ patience[c] \in {"ahead", "endless"}
  /\ Goto(c, "join_parked")
  /\ UNCHANGED <<owners, phase, flags, ident, native, worker, via, patience, result,
                 launches>>

Expire(c) ==
  /\ pc[c] \in Joining /\ patience[c] = "ahead"
  /\ patience' = [patience EXCEPT ![c] = "past"]
  /\ Goto(c, IF pc[c] = "join_parked" THEN "join" ELSE pc[c])
  /\ UNCHANGED <<owners, phase, flags, ident, native, worker, via, result, launches>>

SpuriousWake(c) ==
  /\ \/ pc[c] = "await_parked" /\ Goto(c, "await")
     \/ pc[c] = "join_parked" /\ Goto(c, "join")
  /\ UNCHANGED <<owners, phase, flags, ident, native, worker, via, patience, result,
                 launches>>

(* Thread.actives, which lists the registered threads. *)
Actives(c) ==
  /\ pc[c] = "idle" /\ c \notin wraps
  /\ registered
  /\ wraps' = wraps \cup {c}
  /\ refs' = refs + 1
  /\ UNCHANGED <<object, freed, registered, phase, flags, ident, native, worker, calls,
                 launches>>

(* The destructor of a handle; the last owner deletes the state, and joins   *)
(* the OS thread if nobody has.                                              *)
DropReference(c) ==
  /\ refs' = refs - 1
  /\ freed' = (refs = 1)
  /\ Goto(c, IF refs = 1 /\ native = "joinable" THEN "destroy" ELSE "idle")
  /\ UNCHANGED <<registered, phase, flags, ident, native, worker, via, patience, result,
                 launches>>

(* The Thread object goes when no call is using it. *)
DropObject(c) ==
  /\ pc[c] = "idle" /\ object
  /\ \A d \in Clients :
       /\ pc[d] \notin Starting
       /\ pc[d] \in Joining => via[d] = "wrapper"
  /\ object' = FALSE
  /\ UNCHANGED wraps
  /\ DropReference(c)

DropWrapper(c) ==
  /\ pc[c] = "idle" /\ c \in wraps
  /\ wraps' = wraps \ {c}
  /\ UNCHANGED object
  /\ DropReference(c)

DestroyJoins(c) ==
  /\ pc[c] = "destroy"
  /\ worker = "exited"
  /\ native' = "joined"
  /\ Goto(c, "idle")
  /\ UNCHANGED <<owners, phase, flags, ident, worker, via, patience, result, launches>>

(* The steps of the OS thread outside target. *)
WorkerRuns == Identify \/ Register \/ NotifyAll \/ Unregister \/ ReleaseOwn \/ Exit

(* The steps of a client that is inside a call and not parked. *)
Running(c) ==
  \/ Spawn(c) \/ SpawnFails(c) \/ Store(c) \/ Await(c)
  \/ JoinDone(c) \/ JoinNative(c) \/ JoinGivesUp(c) \/ JoinWaits(c)
  \/ DestroyJoins(c)

Next ==
  \/ WorkerRuns \/ RunTarget
  \/ \E c \in Clients :
       \/ Start(c) \/ Running(c) \/ CallJoin(c) \/ CallJoinNegative(c)
       \/ Expire(c) \/ SpuriousWake(c)
       \/ Actives(c) \/ DropObject(c) \/ DropWrapper(c)

(* Threads that are not parked run; target need not end. *)
Spec ==
  /\ Init /\ [][Next]_vars
  /\ WF_vars(WorkerRuns)
  /\ \A c \in Clients : WF_vars(Running(c))

-----------------------------------------------------------------------------
(* ThreadState.refs: the count is the number of owners: the Thread object,   *)
(* the wrappers, the registry and the OS thread.                             *)
RefsCounted ==
  refs = (IF object THEN 1 ELSE 0) + Cardinality(wraps)
         + (IF registered THEN 1 ELSE 0) + (IF worker \in Counting THEN 1 ELSE 0)

(* Every variable holds a value of its type, the references are counted and  *)
(* the flags agree with what the OS thread has done.                         *)
TypeOK ==
  /\ object \in BOOLEAN /\ freed \in BOOLEAN
  /\ phase \in Phases
  /\ wraps \subseteq Clients
  /\ refs \in Nat
  /\ started \in BOOLEAN /\ running \in BOOLEAN
  /\ finished \in BOOLEAN /\ joined \in BOOLEAN
  /\ ident \in BOOLEAN /\ registered \in BOOLEAN
  /\ native \in {"empty", "joinable", "joined", "detached"}
  /\ worker \in Stages
  /\ pc \in [Clients -> Locations]
  /\ via \in [Clients -> {"object", "wrapper"}]
  /\ patience \in [Clients -> Patience]
  /\ result \in [Clients -> Results]
  /\ launches \in Nat
  /\ RefsCounted
  /\ worker # "absent" => started /\ running = ~finished

(* release_thread: the state is deleted once nobody can reach it: no call is *)
(* in progress on it and the OS thread is past its last access.              *)
FreedOnlyWhenUnused ==
  /\ freed => /\ At("idle") \cup At("destroy") = Clients
              /\ worker \notin Counting
              /\ ~object /\ wraps = {} /\ ~registered
  /\ Cardinality(At("destroy")) <= 1

(* start: whoever calls it, however often, at most one OS thread is created, *)
(* and a start that failed can be repeated; std::thread::join is called by   *)
(* one joiner, on a thread that is still joinable.                           *)
OneNativeThread ==
  /\ launches <= 1
  /\ (started /\ worker = "absent") => At("spawn") # {}
  /\ Cardinality(At("native")) <= 1
  /\ At("native") # {} => native \in {"empty", "joinable"}

(* start returns although target may run for ever, and so does every join of *)
(* a thread that is finished, and the destructor.                            *)
CallsReturn ==
  \A c \in Clients :
    (pc[c] \in Starting \/ (pc[c] \in Joining \cup {"destroy"} /\ finished))
      ~> (pc[c] = "idle")
=============================================================================
