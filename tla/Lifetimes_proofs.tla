-------------------------- MODULE Lifetimes_proofs --------------------------
(***************************************************************************)
(* Proofs about what lives as long as somebody refers to it, for any       *)
(* clients of a Thread and any holders of handles: the references of a     *)
(* ThreadState and of a control block are counted, neither is released     *)
(* under a user, neither is left behind, and one OS thread is created and  *)
(* joined natively once.                                                   *)
(***************************************************************************)
EXTENDS Lifetimes, FiniteSetTheorems, TLAPS

(*************************************************************************)
(* Thread                                                                *)
(*************************************************************************)

(* Neither FreedOnlyWhenUnused nor OneNativeThread is inductive.  A client   *)
(* in start is alone there and keeps the Thread object, one in join keeps    *)
(* what it goes through; the flags tell how far the OS thread is; and only   *)
(* the one that set `joined' is ever in std::thread::join.                   *)
Listed == {"note_ident", "target", "note_finished", "unregister"}
Ended == {"note_finished", "unregister", "release", "leaving", "exited"}

StartsAlone ==
  /\ \A c \in Clients : pc[c] \in Starting => object /\ started
  /\ \A c, d \in Clients : pc[c] \in Starting /\ pc[d] \in Starting => c = d
  /\ \A c \in Clients : pc[c] = "spawn" => worker = "absent" /\ running
  /\ worker = "absent" => (started => \E c \in Clients : pc[c] = "spawn")
  /\ ~started => worker = "absent"

FlagsFollowTheThread ==
  /\ launches = IF worker = "absent" THEN 0 ELSE 1
  /\ registered <=> worker \in Listed
  /\ finished <=> worker \in Ended
  /\ freed <=> refs = 0

JoinsOnce ==
  /\ \A c \in Clients : pc[c] \in Joining => IF via[c] = "object" THEN object ELSE c \in wraps
  /\ \A c \in Clients : pc[c] = "native" => joined
  /\ \A c, d \in Clients : pc[c] = "native" /\ pc[d] = "native" => c = d
  /\ \A c \in Clients : pc[c] = "destroy" => freed
  /\ \A c, d \in Clients : pc[c] = "destroy" /\ pc[d] = "destroy" => c = d
  /\ native \in {"joined", "detached"} =>
       freed \/ (joined /\ \A c \in Clients : pc[c] # "native")

ThreadInv == TypeOK /\ StartsAlone /\ FlagsFollowTheThread /\ JoinsOnce

(* The conjuncts of TypeOK: what the references count, the other variables   *)
(* one by one, and what the flags say of the OS thread.                      *)
References == RefsCounted /\ refs \in Nat /\ wraps \subseteq Clients

ThreadTypes ==
  /\ object \in BOOLEAN /\ freed \in BOOLEAN
  /\ phase \in Phases
  /\ started \in BOOLEAN /\ running \in BOOLEAN
  /\ finished \in BOOLEAN /\ joined \in BOOLEAN
  /\ ident \in BOOLEAN /\ registered \in BOOLEAN
  /\ native \in {"empty", "joinable", "joined", "detached"}
  /\ worker \in Stages
  /\ pc \in [Clients -> Locations]
  /\ via \in [Clients -> {"object", "wrapper"}]
  /\ patience \in [Clients -> Patience]
  /\ result \in [Clients -> Results]
  /\ launches \in Nat

FlagsRun == worker # "absent" => started /\ running = ~finished

(* The clients that hold a wrapper are finitely many.                        *)
LEMMA WrapsFinite ==
  ASSUME wraps \subseteq Clients
  PROVE  IsFiniteSet(wraps) /\ Cardinality(wraps) \in Nat /\ (Cardinality(wraps) = 0 <=> wraps = {})
BY ThreadAssumption, FS_Subset, FS_CardinalityType, FS_EmptySet

(* Every reference that is added or dropped is that of an owner that comes   *)
(* or goes.                                                                  *)
LEMMA ThreadKeepsReferences ==
  ThreadInv /\ [Next]_vars => References'
<1> SUFFICES ASSUME ThreadInv, [Next]_vars PROVE References'
  OBVIOUS
<1> USE WrapsFinite DEF owners, flags, calls, References, ThreadInv, TypeOK, RefsCounted, Stages, Counting,
           FlagsFollowTheThread, Listed
<1>1. CASE UNCHANGED vars
  BY <1>1 DEF vars
<1>2. ASSUME NEW c \in Clients, Start(c) PROVE References'
  BY <1>2 DEF Start, Finish, Goto
<1>3. ASSUME NEW c \in Clients, Spawn(c) PROVE References'
  BY <1>3 DEF Spawn, Goto, StartsAlone
<1>4. ASSUME NEW c \in Clients, SpawnFails(c) PROVE References'
  BY <1>4 DEF SpawnFails, Finish, Goto
<1>5. ASSUME NEW c \in Clients, Store(c) PROVE References'
  BY <1>5 DEF Store, Goto
<1>6. ASSUME NEW c \in Clients, Await(c) PROVE References'
  BY <1>6 DEF Await, Finish, Goto
<1>7. ASSUME NEW c \in Clients, CallJoin(c) PROVE References'
  BY <1>7 DEF CallJoin, Finish, Goto
<1>8. ASSUME NEW c \in Clients, CallJoinNegative(c) PROVE References'
  BY <1>8 DEF CallJoinNegative, Finish, Goto
<1>9. ASSUME NEW c \in Clients, JoinDone(c) PROVE References'
  BY <1>9 DEF JoinDone, Finish, Goto, Stop
<1>10. ASSUME NEW c \in Clients, JoinNative(c) PROVE References'
  BY <1>10 DEF JoinNative, Finish, Goto, Stop
<1>11. ASSUME NEW c \in Clients, JoinGivesUp(c) PROVE References'
  BY <1>11 DEF JoinGivesUp, Finish, Goto
<1>12. ASSUME NEW c \in Clients, JoinWaits(c) PROVE References'
  BY <1>12 DEF JoinWaits, Goto
<1>13. ASSUME NEW c \in Clients, Expire(c) PROVE References'
  BY <1>13 DEF Expire, Goto
<1>14. ASSUME NEW c \in Clients, SpuriousWake(c) PROVE References'
  BY <1>14 DEF SpuriousWake, Goto
<1>15. ASSUME NEW c \in Clients, Actives(c) PROVE References'
  <2>1. Cardinality(wraps') = Cardinality(wraps) + 1
    BY <1>15, FS_AddElement DEF Actives
  <2> QED
    BY <1>15, <2>1 DEF Actives
<1>16. ASSUME NEW c \in Clients, DropObject(c) PROVE References'
  BY <1>16 DEF DropObject, DropReference, Goto
<1>17. ASSUME NEW c \in Clients, DropWrapper(c) PROVE References'
  <2>1. Cardinality(wraps') = Cardinality(wraps) - 1 /\ Cardinality(wraps') \in Nat
    BY <1>17, FS_RemoveElement, FS_CardinalityType DEF DropWrapper
  <2> QED
    BY <1>17, <2>1 DEF DropWrapper, DropReference
<1>18. ASSUME NEW c \in Clients, DestroyJoins(c) PROVE References'
  BY <1>18 DEF DestroyJoins, Goto
<1>19. CASE Identify
  BY <1>19 DEF Identify
<1>20. CASE Register
  BY <1>20 DEF Register
<1>21. CASE RunTarget
  BY <1>21 DEF RunTarget
<1>22. CASE NotifyAll
  BY <1>22 DEF NotifyAll, WakeAll
<1>23. CASE Unregister
  BY <1>23 DEF Unregister
<1>24. CASE ReleaseOwn
  <2>1. /\ worker = "release" /\ worker' = "leaving" /\ refs' = refs - 1
        /\ UNCHANGED <<object, wraps, registered>>
    BY <1>24 DEF ReleaseOwn
  <2> QED
    BY <2>1
<1>25. CASE Exit
  BY <1>25 DEF Exit
<1> QED
  BY <1>1, <1>2, <1>3, <1>4, <1>5, <1>6, <1>7, <1>8, <1>9, <1>10, <1>11,
     <1>12, <1>13, <1>14, <1>15, <1>16, <1>17, <1>18, <1>19, <1>20, <1>21,
     <1>22, <1>23, <1>24, <1>25
  DEF Next, WorkerRuns, Running

(* A state that has an owner has not been deleted.                           *)
LEMMA OwnersKeepState ==
  ASSUME ThreadInv
  PROVE  /\ refs \in Nat /\ (freed <=> refs = 0)
         /\ object \/ registered \/ worker \in Counting \/ wraps # {} => refs > 0
         /\ registered /\ worker \in Counting => refs > 1
BY WrapsFinite DEF ThreadInv, TypeOK, RefsCounted, FlagsFollowTheThread

(* Every step of a client or of the OS thread keeps each variable in its     *)
(* type.                                                                     *)
LEMMA ThreadKeepsTypes ==
  ThreadInv /\ [Next]_vars => ThreadTypes'
<1> SUFFICES ASSUME ThreadInv, [Next]_vars PROVE ThreadTypes'
  OBVIOUS
<1> USE DEF owners, flags, calls, ThreadInv, TypeOK, ThreadTypes,
           Phases, Starting, Joining, Locations, Patience, Results, Counting, Stages
<1>1. CASE UNCHANGED vars
  BY <1>1 DEF vars
<1>2. ASSUME NEW c \in Clients, Start(c) PROVE ThreadTypes'
  <2>1. CASE phase # "Initial" \/ started
    BY <1>2, <2>1 DEF Start, Finish, Goto
  <2>2. CASE ~(phase # "Initial" \/ started)
    BY <1>2, <2>2 DEF Start, Goto
  <2> QED
    BY <2>1, <2>2
<1>3. ASSUME NEW c \in Clients, Spawn(c) PROVE ThreadTypes'
  BY <1>3 DEF Spawn, Goto, StartsAlone
<1>4. ASSUME NEW c \in Clients, SpawnFails(c) PROVE ThreadTypes'
  BY <1>4 DEF SpawnFails, Finish, Goto
<1>5. ASSUME NEW c \in Clients, Store(c) PROVE ThreadTypes'
  BY <1>5 DEF Store, Goto
<1>6. ASSUME NEW c \in Clients, Await(c) PROVE ThreadTypes'
  BY <1>6 DEF Await, Finish, Goto
<1>7. ASSUME NEW c \in Clients, CallJoin(c) PROVE ThreadTypes'
  BY <1>7 DEF CallJoin, Finish, Goto
<1>8. ASSUME NEW c \in Clients, CallJoinNegative(c) PROVE ThreadTypes'
  BY <1>8 DEF CallJoinNegative, Finish, Goto
<1>9. ASSUME NEW c \in Clients, JoinDone(c) PROVE ThreadTypes'
  BY <1>9 DEF JoinDone, Finish, Goto, Stop
<1>10. ASSUME NEW c \in Clients, JoinNative(c) PROVE ThreadTypes'
  BY <1>10 DEF JoinNative, Finish, Goto, Stop
<1>11. ASSUME NEW c \in Clients, JoinGivesUp(c) PROVE ThreadTypes'
  BY <1>11 DEF JoinGivesUp, Finish, Goto
<1>12. ASSUME NEW c \in Clients, JoinWaits(c) PROVE ThreadTypes'
  BY <1>12 DEF JoinWaits, Goto
<1>13. ASSUME NEW c \in Clients, Expire(c) PROVE ThreadTypes'
  BY <1>13 DEF Expire, Goto
<1>14. ASSUME NEW c \in Clients, SpuriousWake(c) PROVE ThreadTypes'
  BY <1>14 DEF SpuriousWake, Goto
<1>15. ASSUME NEW c \in Clients, Actives(c) PROVE ThreadTypes'
  BY <1>15 DEF Actives
<1>16. ASSUME NEW c \in Clients, DropObject(c) PROVE ThreadTypes'
  BY <1>16 DEF DropObject, DropReference, Goto
<1>17. ASSUME NEW c \in Clients, DropWrapper(c) PROVE ThreadTypes'
  BY <1>17 DEF DropWrapper, DropReference, Goto
<1>18. ASSUME NEW c \in Clients, DestroyJoins(c) PROVE ThreadTypes'
  BY <1>18 DEF DestroyJoins, Goto
<1>19. CASE Identify
  BY <1>19 DEF Identify
<1>20. CASE Register
  BY <1>20 DEF Register
<1>21. CASE RunTarget
  BY <1>21 DEF RunTarget
<1>22. CASE NotifyAll
  BY <1>22 DEF NotifyAll, WakeAll
<1>23. CASE Unregister
  BY <1>23 DEF Unregister
<1>24. CASE ReleaseOwn
  BY <1>24 DEF ReleaseOwn
<1>25. CASE Exit
  BY <1>25 DEF Exit
<1> QED
  BY <1>1, <1>2, <1>3, <1>4, <1>5, <1>6, <1>7, <1>8, <1>9, <1>10, <1>11,
     <1>12, <1>13, <1>14, <1>15, <1>16, <1>17, <1>18, <1>19, <1>20, <1>21,
     <1>22, <1>23, <1>24, <1>25
  DEF Next, WorkerRuns, Running

(* The flag `started' lets one client into start, and it is given back only  *)
(* by the client that could not create the OS thread.                        *)
LEMMA ThreadStartsAlone ==
  ThreadInv /\ [Next]_vars => StartsAlone'
<1> SUFFICES ASSUME ThreadInv, [Next]_vars PROVE StartsAlone'
  OBVIOUS
<1> USE DEF owners, flags, calls, ThreadInv, TypeOK, StartsAlone,
           Starting, Joining, Stages, Counting
<1>1. CASE UNCHANGED vars
  BY <1>1 DEF vars
<1>2. ASSUME NEW c \in Clients, Start(c) PROVE StartsAlone'
  BY <1>2 DEF Start, Finish, Goto
<1>3. ASSUME NEW c \in Clients, Spawn(c) PROVE StartsAlone'
  BY <1>3 DEF Spawn, Goto
<1>4. ASSUME NEW c \in Clients, SpawnFails(c) PROVE StartsAlone'
  BY <1>4 DEF SpawnFails, Finish, Goto
<1>5. ASSUME NEW c \in Clients, Store(c) PROVE StartsAlone'
  BY <1>5 DEF Store, Goto
<1>6. ASSUME NEW c \in Clients, Await(c) PROVE StartsAlone'
  BY <1>6 DEF Await, Finish, Goto
<1>7. ASSUME NEW c \in Clients, CallJoin(c) PROVE StartsAlone'
  BY <1>7 DEF CallJoin, Finish, Goto
<1>8. ASSUME NEW c \in Clients, CallJoinNegative(c) PROVE StartsAlone'
  BY <1>8 DEF CallJoinNegative, Finish, Goto
<1>9. ASSUME NEW c \in Clients, JoinDone(c) PROVE StartsAlone'
  BY <1>9 DEF JoinDone, Finish, Goto, Stop
<1>10. ASSUME NEW c \in Clients, JoinNative(c) PROVE StartsAlone'
  BY <1>10 DEF JoinNative, Finish, Goto, Stop
<1>11. ASSUME NEW c \in Clients, JoinGivesUp(c) PROVE StartsAlone'
  BY <1>11 DEF JoinGivesUp, Finish, Goto
<1>12. ASSUME NEW c \in Clients, JoinWaits(c) PROVE StartsAlone'
  BY <1>12 DEF JoinWaits, Goto
<1>13. ASSUME NEW c \in Clients, Expire(c) PROVE StartsAlone'
  BY <1>13 DEF Expire, Goto
<1>14. ASSUME NEW c \in Clients, SpuriousWake(c) PROVE StartsAlone'
  BY <1>14 DEF SpuriousWake, Goto
<1>15. ASSUME NEW c \in Clients, Actives(c) PROVE StartsAlone'
  BY <1>15 DEF Actives
<1>16. ASSUME NEW c \in Clients, DropObject(c) PROVE StartsAlone'
  BY <1>16 DEF DropObject, DropReference, Goto
<1>17. ASSUME NEW c \in Clients, DropWrapper(c) PROVE StartsAlone'
  BY <1>17 DEF DropWrapper, DropReference, Goto
<1>18. ASSUME NEW c \in Clients, DestroyJoins(c) PROVE StartsAlone'
  BY <1>18 DEF DestroyJoins, Goto
<1>19. CASE Identify
  BY <1>19 DEF Identify
<1>20. CASE Register
  BY <1>20 DEF Register
<1>21. CASE RunTarget
  BY <1>21 DEF RunTarget
<1>22. CASE NotifyAll
  BY <1>22 DEF NotifyAll, WakeAll
<1>23. CASE Unregister
  BY <1>23 DEF Unregister
<1>24. CASE ReleaseOwn
  BY <1>24 DEF ReleaseOwn
<1>25. CASE Exit
  BY <1>25 DEF Exit
<1> QED
  BY <1>1, <1>2, <1>3, <1>4, <1>5, <1>6, <1>7, <1>8, <1>9, <1>10, <1>11,
     <1>12, <1>13, <1>14, <1>15, <1>16, <1>17, <1>18, <1>19, <1>20, <1>21,
     <1>22, <1>23, <1>24, <1>25
  DEF Next, WorkerRuns, Running

(* The flags say how far the OS thread is, and the state is deleted with its *)
(* last reference.                                                           *)
LEMMA ThreadFlagsFollow ==
  ThreadInv /\ [Next]_vars => (FlagsFollowTheThread /\ FlagsRun)'
<1> SUFFICES ASSUME ThreadInv, [Next]_vars PROVE (FlagsFollowTheThread /\ FlagsRun)'
  OBVIOUS
<1>a. /\ refs \in Nat /\ (freed <=> refs = 0) /\ freed \in BOOLEAN
      /\ object \/ registered \/ worker \in Counting \/ wraps # {} => refs > 0
      /\ registered /\ worker \in Counting => refs > 1
  BY OwnersKeepState DEF ThreadInv, TypeOK
<1> USE <1>a DEF owners, flags, calls, ThreadInv, TypeOK, StartsAlone, FlagsFollowTheThread,
           FlagsRun, Listed, Ended, Stages, Counting
<1>1. CASE UNCHANGED vars
  BY <1>1 DEF vars
<1>2. ASSUME NEW c \in Clients, Start(c) PROVE (FlagsFollowTheThread /\ FlagsRun)'
  BY <1>2 DEF Start, Finish, Goto
<1>3. ASSUME NEW c \in Clients, Spawn(c) PROVE (FlagsFollowTheThread /\ FlagsRun)'
  <2>1. worker = "absent" /\ started /\ running /\ object
    BY <1>3 DEF Spawn, Starting
  <2>2. launches = 0 /\ ~finished /\ ~registered /\ refs > 0
    BY <2>1
  <2>3. /\ worker' = "begin" /\ refs' = refs + 1 /\ launches' = launches + 1
        /\ UNCHANGED <<freed, registered, started, running, finished>>
    BY <1>3 DEF Spawn
  <2>4. launches' = 1 /\ (freed' <=> refs' = 0)
    BY <2>2, <2>3
  <2> QED
    BY <2>1, <2>2, <2>3, <2>4
<1>4. ASSUME NEW c \in Clients, SpawnFails(c) PROVE (FlagsFollowTheThread /\ FlagsRun)'
  BY <1>4 DEF SpawnFails, Finish, Goto
<1>5. ASSUME NEW c \in Clients, Store(c) PROVE (FlagsFollowTheThread /\ FlagsRun)'
  BY <1>5 DEF Store, Goto
<1>6. ASSUME NEW c \in Clients, Await(c) PROVE (FlagsFollowTheThread /\ FlagsRun)'
  BY <1>6 DEF Await, Finish, Goto
<1>7. ASSUME NEW c \in Clients, CallJoin(c) PROVE (FlagsFollowTheThread /\ FlagsRun)'
  BY <1>7 DEF CallJoin, Finish, Goto
<1>8. ASSUME NEW c \in Clients, CallJoinNegative(c) PROVE (FlagsFollowTheThread /\ FlagsRun)'
  BY <1>8 DEF CallJoinNegative, Finish, Goto
<1>9. ASSUME NEW c \in Clients, JoinDone(c) PROVE (FlagsFollowTheThread /\ FlagsRun)'
  BY <1>9 DEF JoinDone, Finish, Goto, Stop
<1>10. ASSUME NEW c \in Clients, JoinNative(c) PROVE (FlagsFollowTheThread /\ FlagsRun)'
  BY <1>10 DEF JoinNative, Finish, Goto, Stop
<1>11. ASSUME NEW c \in Clients, JoinGivesUp(c) PROVE (FlagsFollowTheThread /\ FlagsRun)'
  BY <1>11 DEF JoinGivesUp, Finish, Goto
<1>12. ASSUME NEW c \in Clients, JoinWaits(c) PROVE (FlagsFollowTheThread /\ FlagsRun)'
  BY <1>12 DEF JoinWaits, Goto
<1>13. ASSUME NEW c \in Clients, Expire(c) PROVE (FlagsFollowTheThread /\ FlagsRun)'
  BY <1>13 DEF Expire, Goto
<1>14. ASSUME NEW c \in Clients, SpuriousWake(c) PROVE (FlagsFollowTheThread /\ FlagsRun)'
  BY <1>14 DEF SpuriousWake, Goto
<1>15. ASSUME NEW c \in Clients, Actives(c) PROVE (FlagsFollowTheThread /\ FlagsRun)'
  BY <1>15 DEF Actives
<1>16. ASSUME NEW c \in Clients, DropObject(c) PROVE (FlagsFollowTheThread /\ FlagsRun)'
  <2>1. refs > 0 /\ refs' = refs - 1 /\ (freed' <=> refs = 1)
    BY <1>16 DEF DropObject, DropReference
  <2>2. freed' <=> refs' = 0
    BY <2>1
  <2>3. UNCHANGED <<launches, registered, started, running, finished, worker>>
    BY <1>16 DEF DropObject, DropReference
  <2> QED
    BY <2>2, <2>3
<1>17. ASSUME NEW c \in Clients, DropWrapper(c) PROVE (FlagsFollowTheThread /\ FlagsRun)'
  <2>1. refs > 0 /\ refs' = refs - 1 /\ (freed' <=> refs = 1)
    BY <1>17 DEF DropWrapper, DropReference
  <2>2. freed' <=> refs' = 0
    BY <2>1
  <2>3. UNCHANGED <<launches, registered, started, running, finished, worker>>
    BY <1>17 DEF DropWrapper, DropReference
  <2> QED
    BY <2>2, <2>3
<1>18. ASSUME NEW c \in Clients, DestroyJoins(c) PROVE (FlagsFollowTheThread /\ FlagsRun)'
  BY <1>18 DEF DestroyJoins, Goto
<1>19. CASE Identify
  BY <1>19 DEF Identify
<1>20. CASE Register
  BY <1>20 DEF Register
<1>21. CASE RunTarget
  BY <1>21 DEF RunTarget
<1>22. CASE NotifyAll
  BY <1>22 DEF NotifyAll, WakeAll
<1>23. CASE Unregister
  <2>1. /\ worker = "unregister" /\ worker' = "release" /\ ~registered'
        /\ refs' = refs - 1 /\ UNCHANGED <<freed, launches, started, running, finished>>
    BY <1>23 DEF Unregister
  <2>2. refs > 1
    BY <2>1
  <2>3. freed' <=> refs' = 0
    BY <2>1, <2>2
  <2> QED
    BY <2>1, <2>3
<1>24. CASE ReleaseOwn
  <2>1. refs > 0 /\ refs' = refs - 1 /\ (freed' <=> refs = 1)
    BY <1>24 DEF ReleaseOwn
  <2>2. freed' <=> refs' = 0
    BY <2>1
  <2>3. /\ worker = "release" /\ worker' = "leaving"
        /\ UNCHANGED <<launches, registered, started, running, finished>>
    BY <1>24 DEF ReleaseOwn
  <2> QED
    BY <2>2, <2>3
<1>25. CASE Exit
  BY <1>25 DEF Exit
<1> QED
  BY <1>1, <1>2, <1>3, <1>4, <1>5, <1>6, <1>7, <1>8, <1>9, <1>10, <1>11,
     <1>12, <1>13, <1>14, <1>15, <1>16, <1>17, <1>18, <1>19, <1>20, <1>21,
     <1>22, <1>23, <1>24, <1>25
  DEF Next, WorkerRuns, Running

(* The flag `joined' lets one client on to std::thread::join, and the last   *)
(* owner one client into the destructor.                                     *)
LEMMA ThreadJoinsOnce ==
  ThreadInv /\ [Next]_vars => JoinsOnce'
<1> SUFFICES ASSUME ThreadInv, [Next]_vars PROVE JoinsOnce'
  OBVIOUS
<1>a. /\ refs \in Nat /\ (freed <=> refs = 0) /\ freed \in BOOLEAN
      /\ object \/ registered \/ worker \in Counting \/ wraps # {} => refs > 0
      /\ registered /\ worker \in Counting => refs > 1
  BY OwnersKeepState DEF ThreadInv, TypeOK
<1> USE <1>a DEF owners, flags, calls, ThreadInv, TypeOK, StartsAlone, FlagsFollowTheThread,
           JoinsOnce, Starting, Joining, Locations, Listed, Stages, Counting
<1>1. CASE UNCHANGED vars
  BY <1>1 DEF vars
<1>2. ASSUME NEW c \in Clients, Start(c) PROVE JoinsOnce'
  BY <1>2 DEF Start, Finish, Goto
<1>3. ASSUME NEW c \in Clients, Spawn(c) PROVE JoinsOnce'
  BY <1>3 DEF Spawn, Goto
<1>4. ASSUME NEW c \in Clients, SpawnFails(c) PROVE JoinsOnce'
  BY <1>4 DEF SpawnFails, Finish, Goto
<1>5. ASSUME NEW c \in Clients, Store(c) PROVE JoinsOnce'
  BY <1>5 DEF Store, Goto
<1>6. ASSUME NEW c \in Clients, Await(c) PROVE JoinsOnce'
  BY <1>6 DEF Await, Finish, Goto
<1>7. ASSUME NEW c \in Clients, CallJoin(c) PROVE JoinsOnce'
  BY <1>7 DEF CallJoin, Finish, Goto
<1>8. ASSUME NEW c \in Clients, CallJoinNegative(c) PROVE JoinsOnce'
  BY <1>8 DEF CallJoinNegative, Finish, Goto
<1>9. ASSUME NEW c \in Clients, JoinDone(c) PROVE JoinsOnce'
  BY <1>9 DEF JoinDone, Finish, Goto, Stop
<1>10. ASSUME NEW c \in Clients, JoinNative(c) PROVE JoinsOnce'
  BY <1>10 DEF JoinNative, Finish, Goto, Stop
<1>11. ASSUME NEW c \in Clients, JoinGivesUp(c) PROVE JoinsOnce'
  BY <1>11 DEF JoinGivesUp, Finish, Goto
<1>12. ASSUME NEW c \in Clients, JoinWaits(c) PROVE JoinsOnce'
  BY <1>12 DEF JoinWaits, Goto
<1>13. ASSUME NEW c \in Clients, Expire(c) PROVE JoinsOnce'
  BY <1>13 DEF Expire, Goto
<1>14. ASSUME NEW c \in Clients, SpuriousWake(c) PROVE JoinsOnce'
  BY <1>14 DEF SpuriousWake, Goto
<1>15. ASSUME NEW c \in Clients, Actives(c) PROVE JoinsOnce'
  BY <1>15 DEF Actives
<1>16. ASSUME NEW c \in Clients, DropObject(c) PROVE JoinsOnce'
  <2>1. /\ refs > 0 /\ ~freed /\ freed' = (refs = 1) /\ pc[c] = "idle"
        /\ UNCHANGED <<via, joined, native>>
    BY <1>16 DEF DropObject, DropReference
  <2>2. pc' = [pc EXCEPT ![c] = IF refs = 1 /\ native = "joinable" THEN "destroy" ELSE "idle"]
    BY <1>16 DEF DropObject, DropReference, Goto
  <2>3. \A d \in Clients : pc'[d] = "destroy" => refs = 1 /\ d = c
    BY <2>1, <2>2
  <2>4. \A d \in Clients : pc'[d] \in Joining =>
          IF via'[d] = "object" THEN object' ELSE d \in wraps'
    BY <1>16, <2>1, <2>2 DEF DropObject
  <2> QED
    BY <2>1, <2>2, <2>3, <2>4
<1>17. ASSUME NEW c \in Clients, DropWrapper(c) PROVE JoinsOnce'
  <2>1. /\ refs > 0 /\ ~freed /\ freed' = (refs = 1) /\ pc[c] = "idle"
        /\ UNCHANGED <<via, joined, native>>
    BY <1>17 DEF DropWrapper, DropReference
  <2>2. pc' = [pc EXCEPT ![c] = IF refs = 1 /\ native = "joinable" THEN "destroy" ELSE "idle"]
    BY <1>17 DEF DropWrapper, DropReference, Goto
  <2>3. \A d \in Clients : pc'[d] = "destroy" => refs = 1 /\ d = c
    BY <2>1, <2>2
  <2>4. \A d \in Clients : pc'[d] \in Joining =>
          IF via'[d] = "object" THEN object' ELSE d \in wraps'
    BY <1>17, <2>1, <2>2 DEF DropWrapper
  <2> QED
    BY <2>1, <2>2, <2>3, <2>4
<1>18. ASSUME NEW c \in Clients, DestroyJoins(c) PROVE JoinsOnce'
  BY <1>18 DEF DestroyJoins, Goto
<1>19. CASE Identify
  BY <1>19 DEF Identify
<1>20. CASE Register
  BY <1>20 DEF Register
<1>21. CASE RunTarget
  BY <1>21 DEF RunTarget
<1>22. CASE NotifyAll
  BY <1>22 DEF NotifyAll, WakeAll
<1>23. CASE Unregister
  BY <1>23 DEF Unregister
<1>24. CASE ReleaseOwn
  <2>1. refs > 0 /\ ~freed /\ freed' = (refs = 1)
    BY <1>24 DEF ReleaseOwn
  <2>2. /\ native' = IF refs = 1 /\ native = "joinable" THEN "detached" ELSE native
        /\ UNCHANGED <<object, wraps, pc, via, joined>>
    BY <1>24 DEF ReleaseOwn
  <2> QED
    BY <2>1, <2>2
<1>25. CASE Exit
  BY <1>25 DEF Exit
<1> QED
  BY <1>1, <1>2, <1>3, <1>4, <1>5, <1>6, <1>7, <1>8, <1>9, <1>10, <1>11,
     <1>12, <1>13, <1>14, <1>15, <1>16, <1>17, <1>18, <1>19, <1>20, <1>21,
     <1>22, <1>23, <1>24, <1>25
  DEF Next, WorkerRuns, Running

(* The invariant of Thread holds at first and is kept.                       *)
LEMMA ThreadStart == Init => ThreadInv
<1> SUFFICES ASSUME Init PROVE ThreadInv
  OBVIOUS
<1>1. refs \in Nat /\ RefsCounted
  BY FS_EmptySet DEF Init, RefsCounted, Counting
<1>2. TypeOK
  BY <1>1
  DEF Init, TypeOK, Phases, Locations, Starting, Joining, Patience, Results, Stages, Counting
<1>3. StartsAlone /\ FlagsFollowTheThread /\ JoinsOnce
  BY DEF Init, StartsAlone, FlagsFollowTheThread, JoinsOnce, Starting, Joining, Listed, Ended
<1> QED
  BY <1>2, <1>3 DEF ThreadInv

LEMMA ThreadStep == ThreadInv /\ [Next]_vars => ThreadInv'
<1> SUFFICES ASSUME ThreadInv, [Next]_vars PROVE ThreadInv'
  OBVIOUS
<1>1. TypeOK'
  BY ThreadKeepsTypes, ThreadKeepsReferences, ThreadFlagsFollow
  DEF TypeOK, ThreadTypes, References, FlagsRun
<1> QED
  BY <1>1, ThreadStartsAlone, ThreadFlagsFollow, ThreadJoinsOnce DEF ThreadInv

(* A set with no two members has at most one.                                *)
LEMMA AtMostOne ==
  ASSUME NEW S, IsFiniteSet(S), \A x, y \in S : x = y
  PROVE  Cardinality(S) <= 1
<1>1. CASE S = {}
  BY <1>1, FS_EmptySet
<1>2. CASE S # {}
  <2>1. PICK x \in S : TRUE
    BY <1>2
  <2>2. S = {x}
    BY <2>1
  <2> QED
    BY <2>2, FS_Singleton
<1> QED
  BY <1>1, <1>2

LEMMA ThreadInvImplies == ThreadInv => FreedOnlyWhenUnused /\ OneNativeThread
<1> SUFFICES ASSUME ThreadInv PROVE FreedOnlyWhenUnused /\ OneNativeThread
  OBVIOUS
<1>1. ASSUME NEW place PROVE IsFiniteSet(At(place))
  BY ThreadAssumption, FS_Subset DEF At
<1>2. Cardinality(At("destroy")) <= 1 /\ Cardinality(At("native")) <= 1
  BY <1>1, AtMostOne DEF At, ThreadInv, JoinsOnce
<1>3. freed => /\ ~object /\ wraps = {} /\ ~registered /\ worker \notin Counting
  BY OwnersKeepState
<1>4. freed => At("idle") \cup At("destroy") = Clients
  BY <1>3 DEF At, ThreadInv, TypeOK, StartsAlone, JoinsOnce, Locations
<1>5. At("native") # {} => native \in {"empty", "joinable"}
  <2> SUFFICES ASSUME NEW c \in Clients, pc[c] = "native"
               PROVE  native \in {"empty", "joinable"}
    BY DEF At
  <2>1. ~freed
    BY <1>3 DEF ThreadInv, JoinsOnce, Joining
  <2> QED
    BY <2>1 DEF ThreadInv, JoinsOnce, TypeOK
<1>6. launches <= 1
  BY DEF ThreadInv, FlagsFollowTheThread
<1>7. (started /\ worker = "absent") => At("spawn") # {}
  BY DEF ThreadInv, StartsAlone, At
<1> QED
  BY <1>2, <1>3, <1>4, <1>5, <1>6, <1>7 DEF FreedOnlyWhenUnused, OneNativeThread

LEMMA ThreadInvariance == Spec => []ThreadInv
BY ThreadStart, ThreadStep, PTL DEF Spec

(* ThreadState.refs is the number of owners whatever clients and the OS      *)
(* thread do, and its flags say what the OS thread has done.                 *)
THEOREM ThreadTyping == Spec => []TypeOK
<1>1. ThreadInv => TypeOK
  BY DEF ThreadInv
<1> QED
  BY <1>1, ThreadInvariance, PTL

(* release_thread: the state is deleted by one owner, when no call is in     *)
(* progress on it and the OS thread is past its last access.                 *)
THEOREM ThreadFreedOnlyWhenUnused == Spec => []FreedOnlyWhenUnused
BY ThreadInvImplies, ThreadInvariance, PTL

(* start and join: however many clients call them, one OS thread is created  *)
(* and std::thread::join is called once, on a thread that can be joined.     *)
THEOREM ThreadOneNativeThread == Spec => []OneNativeThread
BY ThreadInvImplies, ThreadInvariance, PTL

(*************************************************************************)
(* PyRefCount and PyWeakRef: handles and their number                    *)
(*************************************************************************)

(* The instance speaks of the same finite sets and cardinalities.            *)
LEMMA SameFiniteSets ==
  /\ \A S : Ref!IsFiniteSet(S) <=> IsFiniteSet(S)
  /\ \A S : Ref!Cardinality(S) = Cardinality(S)
<1>1. \A S : Ref!IsFiniteSet(S) <=> IsFiniteSet(S)
  BY DEF Ref!IsFiniteSet, IsFiniteSet
<1>2. \A S : Ref!Cardinality(S) = Cardinality(S)
  BY DEF Ref!Cardinality, Cardinality
<1> QED
  BY <1>1, <1>2

LEMMA HandlesBounds ==
  IsFiniteSet(Holders) /\ MaxStrong \in Nat \ {0} /\ MaxWeak \in Nat
BY LifetimesAssumption, SameFiniteSets DEF Ref!RefCountAssumption

(* The handles of a bounded function are finitely many, and none at all      *)
(* exactly if nobody holds one.                                              *)
LEMMA TotalIsFinite ==
  ASSUME NEW N \in Nat, NEW f \in [Holders -> 0 .. N]
  PROVE  /\ IsFiniteSet(Ref!HandlesOf(f))
         /\ Ref!Total(f) = Cardinality(Ref!HandlesOf(f))
         /\ Ref!Total(f) \in Nat
         /\ Ref!Total(f) = 0 <=> \A t \in Holders : f[t] = 0
<1>1. IsFiniteSet(Holders \X (1 .. N))
  <2>1. IsFiniteSet(1 .. N)
    BY FS_Interval
  <2> QED
    BY <2>1, HandlesBounds, FS_Product
<1>2. Ref!HandlesOf(f) \subseteq Holders \X (1 .. N)
  BY DEF Ref!HandlesOf
<1>3. IsFiniteSet(Ref!HandlesOf(f)) /\ Ref!Total(f) = Cardinality(Ref!HandlesOf(f))
  BY <1>1, <1>2, FS_Subset, SameFiniteSets DEF Ref!Total
<1>4. ASSUME NEW t \in Holders, f[t] # 0 PROVE Ref!HandlesOf(f) # {}
  <2>1. <<t, 1>> \in Ref!HandlesOf(f)
    BY <1>4 DEF Ref!HandlesOf
  <2> QED
    BY <2>1
<1>5. ASSUME \A t \in Holders : f[t] = 0 PROVE Ref!HandlesOf(f) = {}
  BY <1>5 DEF Ref!HandlesOf
<1> QED
  BY <1>3, <1>4, <1>5, FS_CardinalityType, FS_EmptySet

(* One handle more is one more.                                              *)
LEMMA TotalAdds ==
  ASSUME NEW N \in Nat, NEW f \in [Holders -> 0 .. N], NEW t \in Holders, f[t] < N
  PROVE  Ref!Total([f EXCEPT ![t] = @ + 1]) = Ref!Total(f) + 1
<1> DEFINE g == [f EXCEPT ![t] = @ + 1]
<1>1. g \in [Holders -> 0 .. N]
  OBVIOUS
<1>2. <<t, f[t] + 1>> \notin Ref!HandlesOf(f)
  BY DEF Ref!HandlesOf
<1>3. Ref!HandlesOf(g) = Ref!HandlesOf(f) \cup {<<t, f[t] + 1>>}
  <2>1. ASSUME NEW p \in Ref!HandlesOf(g) PROVE p \in Ref!HandlesOf(f) \cup {<<t, f[t] + 1>>}
    <3>1. PICK u \in Holders : \E k \in 1 .. g[u] : p = <<u, k>>
      BY <2>1, <1>1 DEF Ref!HandlesOf
    <3>2. PICK k \in 1 .. g[u] : p = <<u, k>>
      BY <3>1
    <3>3. k \in 1 .. f[u] \/ (u = t /\ k = f[t] + 1)
      BY <3>2
    <3> QED
      BY <3>2, <3>3 DEF Ref!HandlesOf
  <2>2. ASSUME NEW p \in Ref!HandlesOf(f) PROVE p \in Ref!HandlesOf(g)
    <3>1. PICK u \in Holders : \E k \in 1 .. f[u] : p = <<u, k>>
      BY <2>2 DEF Ref!HandlesOf
    <3>2. PICK k \in 1 .. f[u] : p = <<u, k>>
      BY <3>1
    <3>3. k \in 1 .. g[u]
      BY <3>2
    <3> QED
      BY <1>1, <3>2, <3>3 DEF Ref!HandlesOf
  <2>3. <<t, f[t] + 1>> \in Ref!HandlesOf(g)
    <3>1. f[t] + 1 \in 1 .. g[t]
      OBVIOUS
    <3> QED
      BY <1>1, <3>1 DEF Ref!HandlesOf
  <2> QED
    BY <2>1, <2>2, <2>3
<1>4. Cardinality(Ref!HandlesOf(g)) = Cardinality(Ref!HandlesOf(f)) + 1
  BY <1>2, <1>3, TotalIsFinite, FS_AddElement
<1> QED
  BY <1>1, <1>4, TotalIsFinite

(* One handle less is one less.                                              *)
LEMMA TotalDrops ==
  ASSUME NEW N \in Nat, NEW f \in [Holders -> 0 .. N], NEW t \in Holders, f[t] > 0
  PROVE  /\ Ref!Total([f EXCEPT ![t] = @ - 1]) = Ref!Total(f) - 1
         /\ Ref!Total(f) > 0
<1> DEFINE g == [f EXCEPT ![t] = @ - 1]
<1>1. g \in [Holders -> 0 .. N] /\ g[t] < N
  OBVIOUS
<1>2. [g EXCEPT ![t] = @ + 1] = f
  <2>1. f[t] \in Nat /\ f[t] - 1 + 1 = f[t]
    OBVIOUS
  <2>2. \A u \in Holders : [g EXCEPT ![t] = @ + 1][u] = f[u]
    BY <2>1
  <2> QED
    BY <2>2
<1>3. Ref!Total(f) = Ref!Total(g) + 1
  BY <1>1, <1>2, TotalAdds
<1>4. Ref!Total(g) \in Nat
  BY <1>1, TotalIsFinite
<1> QED
  BY <1>3, <1>4

(* The invariants of RefCount are not inductive.  The counts are those of    *)
(* the handles, and of the temporary weak reference of release().            *)
Places == {"destroy", "self", "self_dead", "unsentinel"}
Sentinels == {t \in Holders : rpc[t] \in Places}

Counted ==
  /\ strong = Ref!Total(strongs)
  /\ weak = Ref!Total(weaks) + selfWeak + Cardinality(Sentinels)

(* One thread is in release() with the last strong reference; it destroys    *)
(* the object, then the object's weak reference to itself goes.  An upgrade  *)
(* has a weak handle to start from and room for the strong one.              *)
OneRelease ==
  /\ strong > 0 => alive /\ \A t \in Holders : rpc[t] \notin Ref!Releasing
  /\ \A t, u \in Holders :
       rpc[t] \in Ref!Releasing /\ rpc[u] \in Ref!Releasing => t = u
  /\ \A t \in Holders :
       /\ rpc[t] # "self_dead"
       /\ rpc[t] = "self" => selfWeak = 1
       /\ rpc[t] \in {"self", "unsentinel", "delete_if_dead"} => ~alive
       /\ rpc[t] \in {"unsentinel", "delete_if_dead"} => selfWeak = 0
       /\ rpc[t] = "upgrade" => weaks[t] > 0 /\ strongs[t] < MaxStrong
  /\ strong = 0 /\ (\A t \in Holders : rpc[t] \notin Ref!Releasing) => ~alive /\ selfWeak = 0

(* A block that nothing refers to is deleted, or somebody is about to do it. *)
Deletes ==
  /\ block = "deleted" => strong = 0 /\ weak = 0
  /\ (block = "allocated" /\ strong = 0 /\ weak = 0) =>
       \E t \in Holders : rpc[t] \in Ref!Releasing \cup {"weak_dead"}

(* Unless the last strong and the last weak handle were dropped at the same  *)
(* time, it is one thread alone, and afterwards everybody is out.            *)
DeletesAlone ==
  /\ block # "misused"
  /\ block = "deleted" => ~alive /\ \A t \in Holders : rpc[t] = "idle"
  /\ strong = 0 => \A t \in Holders : rpc[t] = "weak_dead" =>
       /\ weak = 0
       /\ \A u \in Holders : rpc[u] = "weak_dead" => u = t

HandlesTypes ==
  /\ strong \in Nat /\ weak \in Nat
  /\ alive \in BOOLEAN
  /\ block \in {"allocated", "deleted", "misused"}
  /\ strongs \in [Holders -> 0 .. MaxStrong]
  /\ weaks \in [Holders -> 0 .. MaxWeak]
  /\ selfWeak \in {0, 1}
  /\ rpc \in [Holders -> Ref!Locations]
  /\ seen \in [Holders -> Nat]

(* What one thread's step keeps, and with it what the history adds.          *)
BlockInv == HandlesTypes /\ Counted /\ OneRelease /\ Deletes
HandlesInv ==
  /\ BlockInv
  /\ raced \in BOOLEAN /\ (Ref!Race => raced)
  /\ ~raced => DeletesAlone

LEMMA HandlesInvTypes == HandlesInv => Ref!TypeOK
BY SameFiniteSets
DEF HandlesInv, BlockInv, HandlesTypes, Counted, Sentinels, Places, Ref!TypeOK

(* What is held is counted.                                                  *)
LEMMA HeldIsCounted ==
  ASSUME HandlesTypes, Counted
  PROVE  /\ IsFiniteSet(Sentinels) /\ Cardinality(Sentinels) \in Nat
         /\ Ref!Total(strongs) \in Nat /\ Ref!Total(weaks) \in Nat
         /\ \A t \in Holders : strongs[t] > 0 => strong > 0
         /\ \A t \in Holders : weaks[t] > 0 => weak > 0
         /\ \A t \in Sentinels : weak > 0 /\ (selfWeak = 1 => weak > 1)
<1>1. IsFiniteSet(Sentinels)
  BY HandlesBounds, FS_Subset DEF Sentinels
<1>2. Cardinality(Sentinels) \in Nat
  BY <1>1, FS_CardinalityType
<1>3. /\ Ref!Total(strongs) \in Nat
      /\ Ref!Total(strongs) = 0 <=> \A t \in Holders : strongs[t] = 0
  BY HandlesBounds, TotalIsFinite DEF HandlesTypes
<1>4. /\ Ref!Total(weaks) \in Nat
      /\ Ref!Total(weaks) = 0 <=> \A t \in Holders : weaks[t] = 0
  BY HandlesBounds, TotalIsFinite DEF HandlesTypes
<1>5. \A t \in Sentinels : Cardinality(Sentinels) # 0
  BY <1>1, FS_EmptySet
<1>6. \A t \in Holders : strongs[t] > 0 => strong > 0
  BY <1>3 DEF Counted
<1>7. selfWeak \in {0, 1}
  BY DEF HandlesTypes
<1>8. \A t \in Holders : weaks[t] > 0 => weak > 0
  BY <1>2, <1>4, <1>7 DEF Counted
<1>9. \A t \in Sentinels : weak > 0 /\ (selfWeak = 1 => weak > 1)
  BY <1>2, <1>4, <1>5, <1>7 DEF Counted
<1> QED
  BY <1>1, <1>2, <1>3, <1>4, <1>6, <1>8, <1>9

LEMMA HandlesKeepTypes ==
  ASSUME BlockInv, block # "misused", NEW t \in Holders, Ref!Step(t)
  PROVE  HandlesTypes'
<1> USE HandlesBounds DEF HandlesTypes, Ref!Locations, Ref!Releasing
<1> HandlesTypes /\ Counted /\ OneRelease
  BY DEF BlockInv
<1>1. ASSUME NEW u \in Holders, Ref!CopyStrong(t, u) PROVE HandlesTypes'
  <2>1. strongs[u] < MaxStrong
    BY <1>1 DEF Ref!CopyStrong, Ref!One
  <2> QED
    BY <1>1, <2>1 DEF Ref!CopyStrong, Ref!Touch
<1>2. ASSUME NEW u \in Holders, Ref!CopyWeak(t, u) PROVE HandlesTypes'
  BY <1>2 DEF Ref!CopyWeak, Ref!Touch
<1>3. ASSUME Ref!DropStrong(t) PROVE HandlesTypes'
  BY <1>3, HeldIsCounted DEF Ref!DropStrong, Ref!AfterLastStrong, Ref!Goto, Ref!Touch
<1>4. ASSUME Ref!DropWeak(t) PROVE HandlesTypes'
  BY <1>4, HeldIsCounted DEF Ref!DropWeak, Ref!Goto, Ref!Touch
<1>5. ASSUME Ref!ReadStrong(t) PROVE HandlesTypes'
  BY <1>5 DEF Ref!ReadStrong, Ref!counts, Ref!handles, Ref!Goto, Ref!Touch
<1>6. ASSUME Ref!AddSentinel(t) PROVE HandlesTypes'
  BY <1>6 DEF Ref!AddSentinel, Ref!handles, Ref!Goto, Ref!Touch
<1>7. ASSUME Ref!Destroy(t) PROVE HandlesTypes'
  BY <1>7 DEF Ref!Destroy, Ref!counts, Ref!handles, Ref!Goto, Ref!Touch
<1>8. ASSUME Ref!DropSelf(t) PROVE HandlesTypes'
  <2>1. weak > 0
    BY <1>8, HeldIsCounted DEF Ref!DropSelf, Sentinels, Places
  <2> QED
    BY <1>8, <2>1 DEF Ref!DropSelf, Ref!Goto, Ref!Touch
<1>9. ASSUME Ref!DropSentinel(t) PROVE HandlesTypes'
  <2>1. weak > 0
    BY <1>9, HeldIsCounted DEF Ref!DropSentinel, Sentinels, Places
  <2> QED
    BY <1>9, <2>1 DEF Ref!DropSentinel, Ref!AfterDestroy, Ref!handles, Ref!Goto, Ref!Touch
<1>10. ASSUME Ref!DeleteIfDead(t) PROVE HandlesTypes'
  BY <1>10 DEF Ref!DeleteIfDead, Ref!counts, Ref!handles, Ref!Goto
<1>11. ASSUME Ref!Upgrade(t) PROVE HandlesTypes'
  <2>1. rpc[t] = "upgrade" /\ strongs[t] < MaxStrong
    BY <1>11 DEF Ref!Upgrade, OneRelease
  <2>2. CASE Ref!Upgrades(t)
    BY <1>11, <2>1, <2>2 DEF Ref!Upgrade, Ref!Goto, Ref!Touch
  <2>3. CASE ~Ref!Upgrades(t)
    BY <1>11, <2>3 DEF Ref!Upgrade, Ref!Goto, Ref!Touch
  <2> QED
    BY <2>2, <2>3
<1> QED
  BY <1>1, <1>2, <1>3, <1>4, <1>5, <1>6, <1>7, <1>8, <1>9, <1>10, <1>11 DEF Ref!Step

(* A step changes a count as it changes the handles.                         *)
LEMMA HandlesStayCounted ==
  ASSUME BlockInv, block # "misused", NEW t \in Holders, Ref!Step(t)
  PROVE  Counted'
<1> USE HandlesBounds
<1>0. HandlesTypes /\ Counted /\ OneRelease
  BY DEF BlockInv
<1>s. strong = Ref!Total(strongs)
  BY <1>0 DEF Counted
<1>w. weak = Ref!Total(weaks) + selfWeak + Cardinality(Sentinels)
  BY <1>0 DEF Counted
<1>f. /\ strongs \in [Holders -> 0 .. MaxStrong] /\ weaks \in [Holders -> 0 .. MaxWeak]
      /\ MaxStrong \in Nat /\ selfWeak \in {0, 1} /\ rpc \in [Holders -> Ref!Locations]
  BY <1>0 DEF HandlesTypes
<1>n. /\ Ref!Total(strongs) \in Nat /\ Ref!Total(weaks) \in Nat
      /\ IsFiniteSet(Sentinels) /\ Cardinality(Sentinels) \in Nat
  BY <1>0, HeldIsCounted
<1>1. ASSUME NEW u \in Holders, Ref!CopyStrong(t, u) PROVE Counted'
  <2>1. strongs[u] < MaxStrong
    BY <1>f, <1>1 DEF Ref!CopyStrong, Ref!One
  <2>2. Ref!Total(strongs') = Ref!Total(strongs) + 1
    BY <1>f, <1>1, <2>1, TotalAdds DEF Ref!CopyStrong
  <2>3. strong' = strong + 1 /\ UNCHANGED <<weak, weaks, selfWeak, Sentinels>>
    BY <1>1 DEF Ref!CopyStrong, Sentinels
  <2> QED
    BY <1>s, <1>w, <2>2, <2>3 DEF Counted, Ref!Total, Ref!HandlesOf
<1>2. ASSUME NEW u \in Holders, Ref!CopyWeak(t, u) PROVE Counted'
  <2>1. Ref!Total(weaks') = Ref!Total(weaks) + 1
    BY <1>f, <1>2, TotalAdds DEF Ref!CopyWeak
  <2>2. weak' = weak + 1 /\ UNCHANGED <<strong, strongs, selfWeak, Sentinels>>
    BY <1>2 DEF Ref!CopyWeak, Sentinels
  <2> QED
    BY <1>f, <1>n, <1>s, <1>w, <2>1, <2>2 DEF Counted, Ref!Total, Ref!HandlesOf
<1>3. ASSUME Ref!DropStrong(t) PROVE Counted'
  <2>1. Ref!Total(strongs') = Ref!Total(strongs) - 1
    BY <1>f, <1>3, TotalDrops DEF Ref!DropStrong
  <2>2. strong' = strong - 1 /\ UNCHANGED <<weak, weaks, selfWeak>>
    BY <1>3 DEF Ref!DropStrong
  <2>3. UNCHANGED Sentinels
    BY <1>f, <1>3
    DEF Ref!DropStrong, Ref!AfterLastStrong, Ref!Goto, Sentinels, Places
  <2> QED
    BY <1>s, <1>w, <2>1, <2>2, <2>3 DEF Counted
<1>4. ASSUME Ref!DropWeak(t) PROVE Counted'
  <2>1. Ref!Total(weaks') = Ref!Total(weaks) - 1
    BY <1>f, <1>4, TotalDrops DEF Ref!DropWeak
  <2>2. weak' = weak - 1 /\ UNCHANGED <<strong, strongs, selfWeak>>
    BY <1>4 DEF Ref!DropWeak
  <2>3. UNCHANGED Sentinels
    BY <1>f, <1>4 DEF Ref!DropWeak, Ref!Goto, Sentinels, Places
  <2> QED
    BY <1>f, <1>n, <1>s, <1>w, <2>1, <2>2, <2>3 DEF Counted
<1>5. ASSUME Ref!ReadStrong(t) PROVE Counted'
  <2>1. UNCHANGED <<strong, weak, strongs, weaks, selfWeak>>
    BY <1>5 DEF Ref!ReadStrong, Ref!counts, Ref!handles
  <2>2. UNCHANGED Sentinels
    BY <1>f, <1>5 DEF Ref!ReadStrong, Ref!Goto, Sentinels, Places
  <2> QED
    BY <1>s, <1>w, <2>1, <2>2 DEF Counted
<1>6. ASSUME Ref!AddSentinel(t) PROVE Counted'
  <2>1. weak' = weak + 1 /\ UNCHANGED <<strong, strongs, weaks, selfWeak>>
    BY <1>6 DEF Ref!AddSentinel, Ref!handles
  <2>2. t \notin Sentinels /\ Sentinels' = Sentinels \cup {t}
    BY <1>f, <1>6 DEF Ref!AddSentinel, Ref!Goto, Sentinels, Places
  <2>3. Cardinality(Sentinels') = Cardinality(Sentinels) + 1
    BY <1>n, <2>2, FS_AddElement
  <2> QED
    BY <1>f, <1>n, <1>s, <1>w, <2>1, <2>3 DEF Counted
<1>7. ASSUME Ref!Destroy(t) PROVE Counted'
  <2>1. UNCHANGED <<strong, weak, strongs, weaks, selfWeak>>
    BY <1>7 DEF Ref!Destroy, Ref!counts, Ref!handles
  <2>2. UNCHANGED Sentinels
    BY <1>f, <1>7 DEF Ref!Destroy, Ref!Goto, Sentinels, Places
  <2> QED
    BY <1>s, <1>w, <2>1, <2>2 DEF Counted
<1>8. ASSUME Ref!DropSelf(t) PROVE Counted'
  <2>1. weak' = weak - 1 /\ selfWeak' = 0 /\ UNCHANGED <<strong, strongs, weaks>>
    BY <1>8 DEF Ref!DropSelf
  <2>2. UNCHANGED Sentinels
    BY <1>f, <1>8 DEF Ref!DropSelf, Ref!Goto, Sentinels, Places
  <2>3. selfWeak = 1
    BY <1>0, <1>8 DEF Ref!DropSelf, OneRelease
  <2> QED
    BY <1>n, <1>s, <1>w, <2>1, <2>2, <2>3 DEF Counted
<1>9. ASSUME Ref!DropSentinel(t) PROVE Counted'
  <2>1. weak' = weak - 1 /\ UNCHANGED <<strong, strongs, weaks, selfWeak>>
    BY <1>9 DEF Ref!DropSentinel, Ref!handles
  <2>2. t \in Sentinels /\ Sentinels' = Sentinels \ {t}
    BY <1>f, <1>9
    DEF Ref!DropSentinel, Ref!AfterDestroy, Ref!Goto, Sentinels, Places
  <2>3. Cardinality(Sentinels') = Cardinality(Sentinels) - 1
    BY <1>n, <2>2, FS_RemoveElement
  <2> QED
    BY <1>f, <1>n, <1>s, <1>w, <2>1, <2>3 DEF Counted
<1>10. ASSUME Ref!DeleteIfDead(t) PROVE Counted'
  <2>1. UNCHANGED <<strong, weak, strongs, weaks, selfWeak>>
    BY <1>10 DEF Ref!DeleteIfDead, Ref!counts, Ref!handles
  <2>2. UNCHANGED Sentinels
    BY <1>0, <1>f, <1>10 DEF Ref!DeleteIfDead, Ref!Goto, OneRelease, Sentinels, Places
  <2> QED
    BY <1>s, <1>w, <2>1, <2>2 DEF Counted
<1>11. ASSUME Ref!Upgrade(t) PROVE Counted'
  <2>1. rpc[t] = "upgrade" /\ strongs[t] < MaxStrong
    BY <1>0, <1>11 DEF Ref!Upgrade, OneRelease
  <2>2. UNCHANGED <<weak, weaks, selfWeak>>
    BY <1>11 DEF Ref!Upgrade
  <2>3. UNCHANGED Sentinels
    BY <1>f, <1>11, <2>1 DEF Ref!Upgrade, Ref!Goto, Sentinels, Places
  <2>4. CASE Ref!Upgrades(t)
    <3>1. strong' = strong + 1 /\ strongs' = [strongs EXCEPT ![t] = @ + 1]
      BY <1>11, <2>4 DEF Ref!Upgrade
    <3>2. Ref!Total(strongs') = Ref!Total(strongs) + 1
      BY <1>f, <2>1, <3>1, TotalAdds
    <3> QED
      BY <1>s, <1>w, <2>2, <2>3, <3>1, <3>2 DEF Counted
  <2>5. CASE ~Ref!Upgrades(t)
    <3>1. UNCHANGED <<strong, strongs>>
      BY <1>11, <2>5 DEF Ref!Upgrade
    <3> QED
      BY <1>s, <1>w, <2>2, <2>3, <3>1 DEF Counted
  <2> QED
    BY <2>4, <2>5
<1> QED
  BY <1>1, <1>2, <1>3, <1>4, <1>5, <1>6, <1>7, <1>8, <1>9, <1>10, <1>11 DEF Ref!Step

(* One thread at a time destroys the object, after the last strong handle.   *)
LEMMA ReleasesStaySingle ==
  ASSUME BlockInv, block # "misused", NEW t \in Holders, Ref!Step(t)
  PROVE  OneRelease'
<1> USE DEF Ref!Releasing, Ref!Goto
<1>0. HandlesTypes /\ Counted /\ OneRelease
  BY DEF BlockInv
<1>f. /\ strong \in Nat /\ weak \in Nat
      /\ alive \in BOOLEAN
      /\ strongs \in [Holders -> 0 .. MaxStrong] /\ weaks \in [Holders -> 0 .. MaxWeak]
      /\ MaxStrong \in Nat /\ MaxWeak \in Nat
      /\ selfWeak \in {0, 1} /\ rpc \in [Holders -> Ref!Locations]
  BY <1>0, HandlesBounds DEF HandlesTypes
<1>h. /\ \A u \in Holders : strongs[u] > 0 => strong > 0
      /\ \A u \in Sentinels : selfWeak = 1 => weak > 1
  BY <1>0, HeldIsCounted
<1>1. ASSUME NEW u \in Holders, Ref!CopyStrong(t, u) PROVE OneRelease'
  <2>1. strong' = strong + 1 /\ strong > 0 /\ UNCHANGED <<alive, weaks, selfWeak, rpc>>
    BY <1>h, <1>1 DEF Ref!CopyStrong
  <2>2. strongs' = [strongs EXCEPT ![u] = @ + 1]
    BY <1>1 DEF Ref!CopyStrong
  <2>3. rpc[u] = "upgrade" => strongs[u] + 1 < MaxStrong
    BY <1>1 DEF Ref!CopyStrong, Ref!One
  <2>4. \A v \in Holders : rpc'[v] = "upgrade" => weaks'[v] > 0 /\ strongs'[v] < MaxStrong
    BY <1>0, <1>f, <2>1, <2>2, <2>3 DEF OneRelease
  <2> QED
    BY <1>0, <1>f, <2>1, <2>4 DEF OneRelease
<1>2. ASSUME NEW u \in Holders, Ref!CopyWeak(t, u) PROVE OneRelease'
  <2>1. UNCHANGED <<strong, strongs, alive, selfWeak, rpc>>
    BY <1>2 DEF Ref!CopyWeak
  <2>2. weaks' = [weaks EXCEPT ![u] = @ + 1]
    BY <1>2 DEF Ref!CopyWeak
  <2>3. \A v \in Holders : weaks[v] > 0 => weaks'[v] > 0
    BY <1>f, <2>2
  <2> QED
    BY <1>0, <2>1, <2>3 DEF OneRelease
<1>3. ASSUME Ref!DropStrong(t) PROVE OneRelease'
  <2>1. /\ rpc[t] = "idle" /\ strong' = strong - 1 /\ strong > 0
        /\ UNCHANGED <<alive, weaks, selfWeak>>
        /\ rpc' = [rpc EXCEPT ![t] = IF strong = 1 THEN "sentinel" ELSE "idle"]
    BY <1>h, <1>3 DEF Ref!DropStrong, Ref!AfterLastStrong
  <2>2. \A v \in Holders : strongs'[v] <= strongs[v]
    BY <1>f, <1>3 DEF Ref!DropStrong
  <2>3. \A v \in Holders : rpc[v] \notin Ref!Releasing
    BY <1>0, <2>1 DEF OneRelease
  <2>4. \A v \in Holders : rpc'[v] \in Ref!Releasing => v = t /\ rpc'[v] = "sentinel" /\ strong' = 0
    BY <1>f, <2>1, <2>3
  <2>5. \A v \in Holders : rpc'[v] = "upgrade" => weaks'[v] > 0 /\ strongs'[v] < MaxStrong
    <3> SUFFICES ASSUME NEW v \in Holders, rpc'[v] = "upgrade"
                 PROVE  weaks'[v] > 0 /\ strongs'[v] < MaxStrong
      OBVIOUS
    <3>1. v # t /\ rpc[v] = "upgrade"
      BY <1>f, <2>1
    <3>2. weaks[v] > 0 /\ strongs'[v] = strongs[v] /\ strongs[v] < MaxStrong
      BY <1>0, <1>f, <1>3, <3>1 DEF OneRelease, Ref!DropStrong
    <3> QED
      BY <2>1, <3>2
  <2>6. \A v \in Holders : rpc'[v] # "self_dead"
    BY <1>0, <1>f, <2>1 DEF OneRelease
  <2>7. strong' = 0 => rpc'[t] \in Ref!Releasing
    BY <1>f, <2>1
  <2>8. strong' > 0 => alive'
    BY <1>0, <1>f, <2>1 DEF OneRelease
  <2> QED
    BY <2>4, <2>5, <2>6, <2>7, <2>8 DEF OneRelease
<1>4. ASSUME Ref!DropWeak(t) PROVE OneRelease'
  <2>1. /\ rpc[t] = "idle" /\ UNCHANGED <<strong, strongs, alive, selfWeak>>
        /\ rpc' = [rpc EXCEPT ![t] = IF weak = 1 THEN "weak_dead" ELSE "idle"]
    BY <1>4 DEF Ref!DropWeak
  <2>2. \A v \in Holders : v # t => rpc'[v] = rpc[v] /\ weaks'[v] = weaks[v]
    BY <1>f, <1>4, <2>1 DEF Ref!DropWeak
  <2>3. rpc'[t] \in {"idle", "weak_dead"}
    BY <1>f, <2>1
  <2> QED
    BY <1>0, <2>1, <2>2, <2>3 DEF OneRelease
<1>5. ASSUME Ref!ReadStrong(t) PROVE OneRelease'
  <2>1. /\ rpc[t] = "idle" /\ UNCHANGED <<strong, strongs, weaks, alive, selfWeak>>
        /\ rpc' = [rpc EXCEPT ![t] = IF strong > 0 THEN "upgrade" ELSE "idle"]
        /\ weaks[t] > 0 /\ strongs[t] < MaxStrong
    BY <1>5 DEF Ref!ReadStrong, Ref!counts, Ref!handles
  <2>2. \A v \in Holders : v # t => rpc'[v] = rpc[v]
    BY <1>f, <2>1
  <2>3. rpc'[t] \in {"idle", "upgrade"}
    BY <1>f, <2>1
  <2> QED
    BY <1>0, <2>1, <2>2, <2>3 DEF OneRelease
<1>6. ASSUME Ref!AddSentinel(t) PROVE OneRelease'
  <2>1. /\ rpc[t] = "sentinel" /\ UNCHANGED <<strong, strongs, weaks, alive, selfWeak>>
        /\ rpc' = [rpc EXCEPT ![t] = "destroy"]
    BY <1>6 DEF Ref!AddSentinel, Ref!handles
  <2>2. (\A v \in Holders : v # t => rpc'[v] = rpc[v]) /\ rpc'[t] = "destroy"
    BY <1>f, <2>1
  <2> QED
    BY <1>0, <2>1, <2>2 DEF OneRelease
<1>7. ASSUME Ref!Destroy(t) PROVE OneRelease'
  <2>1. /\ rpc[t] = "destroy" /\ alive' = FALSE
        /\ UNCHANGED <<strong, strongs, weaks, selfWeak>>
        /\ rpc' = [rpc EXCEPT ![t] = IF selfWeak > 0 THEN "self" ELSE "unsentinel"]
    BY <1>7 DEF Ref!Destroy, Ref!counts, Ref!handles
  <2>2. \A v \in Holders : v # t => rpc'[v] = rpc[v]
    BY <1>f, <2>1
  <2>3. rpc'[t] = IF selfWeak > 0 THEN "self" ELSE "unsentinel"
    BY <1>f, <2>1
  <2>4. ~(strong > 0)
    BY <1>0, <2>1 DEF OneRelease
  <2> QED
    BY <1>0, <1>f, <2>1, <2>2, <2>3, <2>4 DEF OneRelease
<1>8. ASSUME Ref!DropSelf(t) PROVE OneRelease'
  <2>1. /\ rpc[t] = "self" /\ selfWeak' = 0
        /\ UNCHANGED <<strong, strongs, weaks, alive>>
        /\ rpc' = [rpc EXCEPT ![t] = IF weak = 1 THEN "self_dead" ELSE "unsentinel"]
    BY <1>8 DEF Ref!DropSelf
  <2>2. selfWeak = 1 /\ ~alive /\ t \in Sentinels
    BY <1>0, <2>1 DEF OneRelease, Sentinels, Places
  <2>3. rpc'[t] = "unsentinel"
    BY <1>f, <1>h, <2>1, <2>2
  <2>4. \A v \in Holders : v # t => rpc'[v] = rpc[v] /\ rpc[v] \notin Ref!Releasing
    BY <1>0, <1>f, <2>1 DEF OneRelease
  <2> QED
    BY <1>0, <2>1, <2>2, <2>3, <2>4 DEF OneRelease
<1>9. ASSUME Ref!DropSentinel(t) PROVE OneRelease'
  <2>1. /\ rpc[t] = "unsentinel" /\ UNCHANGED <<strong, strongs, weaks, alive, selfWeak>>
        /\ rpc' = [rpc EXCEPT ![t] = "delete_if_dead"]
    BY <1>9 DEF Ref!DropSentinel, Ref!AfterDestroy, Ref!handles
  <2>2. (\A v \in Holders : v # t => rpc'[v] = rpc[v]) /\ rpc'[t] = "delete_if_dead"
    BY <1>f, <2>1
  <2> QED
    BY <1>0, <2>1, <2>2 DEF OneRelease
<1>10. ASSUME Ref!DeleteIfDead(t) PROVE OneRelease'
  <2>1. /\ rpc[t] \in {"delete_if_dead", "weak_dead"}
        /\ UNCHANGED <<strong, strongs, weaks, alive, selfWeak>>
        /\ rpc' = [rpc EXCEPT ![t] = "idle"]
    BY <1>0, <1>10 DEF Ref!DeleteIfDead, OneRelease, Ref!counts, Ref!handles
  <2>2. (\A v \in Holders : v # t => rpc'[v] = rpc[v]) /\ rpc'[t] = "idle"
    BY <1>f, <2>1
  <2> QED
    BY <1>0, <2>1, <2>2 DEF OneRelease
<1>11. ASSUME Ref!Upgrade(t) PROVE OneRelease'
  <2>1. rpc[t] = "upgrade" /\ weaks[t] > 0 /\ strongs[t] < MaxStrong
    BY <1>0, <1>11 DEF Ref!Upgrade, OneRelease
  <2>2. UNCHANGED <<weaks, alive, selfWeak>>
    BY <1>11 DEF Ref!Upgrade
  <2>3. CASE Ref!Upgrades(t)
    <3>1. /\ strong' = strong + 1 /\ strong > 0
          /\ rpc' = [rpc EXCEPT ![t] = "idle"]
          /\ strongs' = [strongs EXCEPT ![t] = @ + 1]
      BY <1>11, <2>3 DEF Ref!Upgrade, Ref!Upgrades
    <3>2. \A v \in Holders : v # t => rpc'[v] = rpc[v] /\ strongs'[v] = strongs[v]
      BY <1>f, <3>1
    <3>3. rpc'[t] = "idle" /\ strong' > 0
      BY <1>f, <3>1
    <3> QED
      BY <1>0, <2>2, <3>1, <3>2, <3>3 DEF OneRelease
  <2>4. CASE ~Ref!Upgrades(t)
    <3>1. /\ UNCHANGED <<strong, strongs>>
          /\ rpc' = [rpc EXCEPT ![t] = IF strong > 0 THEN "upgrade" ELSE "idle"]
      BY <1>11, <2>4 DEF Ref!Upgrade
    <3>2. \A v \in Holders : v # t => rpc'[v] = rpc[v]
      BY <1>f, <3>1
    <3>3. rpc'[t] \in {"idle", "upgrade"}
      BY <1>f, <3>1
    <3> QED
      BY <1>0, <2>1, <2>2, <3>1, <3>2, <3>3 DEF OneRelease
  <2> QED
    BY <2>3, <2>4
<1> QED
  BY <1>1, <1>2, <1>3, <1>4, <1>5, <1>6, <1>7, <1>8, <1>9, <1>10, <1>11 DEF Ref!Step

(* The first access to a deleted block is the end.                           *)
LEMMA BlockAccess ==
  ASSUME block # "misused", NEW t \in Holders, Ref!Step(t)
  PROVE  /\ block = "deleted" => block' = "misused"
         /\ block # "deleted" => block' \in {block, "deleted"}
         /\ block # "deleted" /\ ~Ref!DeleteIfDead(t) => block' = block
BY DEF Ref!Step, Ref!CopyStrong, Ref!CopyWeak, Ref!DropStrong, Ref!DropWeak,
       Ref!ReadStrong, Ref!AddSentinel, Ref!Destroy, Ref!DropSelf, Ref!DropSentinel,
       Ref!DeleteIfDead, Ref!Upgrade, Ref!Touch

(* A block without handles always has somebody to delete it.                 *)
LEMMA BlockIsDeleted ==
  ASSUME BlockInv, block # "misused", NEW t \in Holders, Ref!Step(t)
  PROVE  Deletes'
<1> USE DEF Ref!Releasing, Ref!Goto
<1>0. HandlesTypes /\ Counted /\ OneRelease
  BY DEF BlockInv
<1>f. strong \in Nat /\ weak \in Nat /\ rpc \in [Holders -> Ref!Locations]
  BY <1>0 DEF HandlesTypes
<1>h. /\ \A u \in Holders : strongs[u] > 0 => strong > 0
      /\ \A u \in Holders : weaks[u] > 0 => weak > 0
  BY <1>0, HeldIsCounted
<1>a. CASE block = "deleted"
  BY <1>a, BlockAccess DEF Deletes
<1>b. CASE block # "deleted" /\ Ref!DeleteIfDead(t)
  <2>1. block = "allocated" /\ UNCHANGED <<strong, weak>>
    BY <1>0, <1>b DEF Ref!DeleteIfDead, Ref!counts, HandlesTypes
  <2>2. block' = IF Ref!Dead THEN "deleted" ELSE block
    BY <1>b DEF Ref!DeleteIfDead
  <2> QED
    BY <2>1, <2>2 DEF Deletes, Ref!Dead
<1>c. ASSUME block # "deleted", ~Ref!DeleteIfDead(t) PROVE Deletes'
  <2> SUFFICES (strong' = 0 /\ weak' = 0) => rpc'[t] \in Ref!Releasing \cup {"weak_dead"}
    <3>1. block' # "deleted"
      BY <1>c, BlockAccess
    <3> QED
      BY <3>1 DEF Deletes
  <2> DEFINE Out == (strong' = 0 /\ weak' = 0) => rpc'[t] \in Ref!Releasing \cup {"weak_dead"}
  <2>1. ASSUME NEW u \in Holders, Ref!CopyStrong(t, u) \/ Ref!CopyWeak(t, u) PROVE Out
    <3>1. strong' = strong + 1 \/ weak' = weak + 1
      BY <2>1 DEF Ref!CopyStrong, Ref!CopyWeak
    <3> QED
      BY <1>f, <3>1
  <2>2. CASE Ref!DropStrong(t)
    <3>1. strong' = strong - 1 /\ rpc' = [rpc EXCEPT ![t] = IF strong = 1 THEN "sentinel" ELSE "idle"]
      BY <2>2 DEF Ref!DropStrong, Ref!AfterLastStrong
    <3>2. strong' = 0 => strong = 1
      BY <1>f, <3>1
    <3> QED
      BY <1>f, <3>1, <3>2
  <2>3. CASE Ref!DropWeak(t)
    <3>1. weak' = weak - 1 /\ rpc' = [rpc EXCEPT ![t] = IF weak = 1 THEN "weak_dead" ELSE "idle"]
      BY <2>3 DEF Ref!DropWeak
    <3>2. weak' = 0 => weak = 1
      BY <1>f, <3>1
    <3> QED
      BY <1>f, <3>1, <3>2
  <2>4. CASE Ref!ReadStrong(t)
    BY <1>f, <1>h, <2>4 DEF Ref!ReadStrong, Ref!counts
  <2>5. CASE Ref!AddSentinel(t)
    BY <1>f, <2>5 DEF Ref!AddSentinel
  <2>6. CASE Ref!Destroy(t)
    BY <1>f, <2>6 DEF Ref!Destroy
  <2>7. CASE Ref!DropSelf(t)
    <3>1. rpc' = [rpc EXCEPT ![t] = IF weak = 1 THEN "self_dead" ELSE "unsentinel"]
      BY <2>7 DEF Ref!DropSelf
    <3>2. rpc'[t] # "self_dead"
      BY ReleasesStaySingle DEF OneRelease
    <3> QED
      BY <1>f, <3>1, <3>2
  <2>8. CASE Ref!DropSentinel(t)
    BY <1>f, <2>8 DEF Ref!DropSentinel, Ref!AfterDestroy
  <2>9. CASE Ref!Upgrade(t)
    <3>1. weak > 0 /\ weak' = weak
      BY <1>0, <1>h, <2>9 DEF Ref!Upgrade, OneRelease
    <3> QED
      BY <1>f, <3>1
  <2> QED
    BY <1>c, <2>1, <2>2, <2>3, <2>4, <2>5, <2>6, <2>7, <2>8, <2>9 DEF Ref!Step
<1> QED
  BY <1>a, <1>b, <1>c

(* Without the race of the last two handles, one thread alone deletes it.    *)
LEMMA BlockIsDeletedAlone ==
  ASSUME BlockInv, DeletesAlone, ~Ref!Race, NEW t \in Holders, Ref!Step(t), ~Ref!Race'
  PROVE  DeletesAlone'
<1> USE DEF Ref!Releasing, Ref!Goto
<1>0. HandlesTypes /\ Counted /\ OneRelease /\ Deletes
  BY DEF BlockInv
<1>f. strong \in Nat /\ weak \in Nat /\ rpc \in [Holders -> Ref!Locations]
  BY <1>0 DEF HandlesTypes
<1>h. /\ \A u \in Holders : strongs[u] > 0 => strong > 0
      /\ \A u \in Holders : weaks[u] > 0 => weak > 0
  BY <1>0, HeldIsCounted
<1>r. /\ \A u, v \in Holders : ~(rpc[u] = "weak_dead" /\ rpc[v] \in Ref!Releasing)
      /\ \A u, v \in Holders : ~(rpc'[u] = "weak_dead" /\ rpc'[v] \in Ref!Releasing)
  BY DEF Ref!Race
<1>k. (strong = 0 /\ weak > 0) => \A u \in Holders : rpc[u] # "weak_dead"
  BY <1>f DEF DeletesAlone
<1>s. strongs \in [Holders -> 0 .. MaxStrong] /\ weaks \in [Holders -> 0 .. MaxWeak]
      /\ MaxStrong \in Nat /\ MaxWeak \in Nat
  BY <1>0, HandlesBounds DEF HandlesTypes
<1>i. rpc[t] = "idle" => strong > 0 \/ weak > 0
  <2> SUFFICES ASSUME rpc[t] = "idle" PROVE \E u \in Holders : strongs[u] > 0 \/ weaks[u] > 0
    BY <1>h
  <2>1. ~Ref!AddSentinel(t) /\ ~Ref!Destroy(t) /\ ~Ref!DropSelf(t)
    BY DEF Ref!AddSentinel, Ref!Destroy, Ref!DropSelf
  <2>2. ~Ref!DropSentinel(t) /\ ~Ref!DeleteIfDead(t) /\ ~Ref!Upgrade(t)
    BY DEF Ref!DropSentinel, Ref!DeleteIfDead, Ref!Upgrade
  <2>3. strongs[t] + weaks[t] > 0 => strongs[t] > 0 \/ weaks[t] > 0
    BY <1>s
  <2> QED
    BY <2>1, <2>2, <2>3
    DEF Ref!Step, Ref!CopyStrong, Ref!CopyWeak, Ref!DropStrong, Ref!DropWeak, Ref!ReadStrong
<1>1. block = "allocated"
  BY <1>0, <1>f, <1>i DEF DeletesAlone, Deletes, HandlesTypes
<1> DEFINE Alone == strong' = 0 => \A u \in Holders : rpc'[u] = "weak_dead" =>
                      weak' = 0 /\ \A v \in Holders : rpc'[v] = "weak_dead" => v = u
<1>2. CASE Ref!DeleteIfDead(t)
  <2>1. /\ rpc[t] \in {"delete_if_dead", "weak_dead"}
        /\ UNCHANGED <<strong, weak, alive>>
        /\ rpc' = [rpc EXCEPT ![t] = "idle"]
        /\ block' = IF Ref!Dead THEN "deleted" ELSE block
    BY <1>0, <1>1, <1>2 DEF Ref!DeleteIfDead, OneRelease, Ref!counts
  <2>2. (\A u \in Holders : u # t => rpc'[u] = rpc[u]) /\ rpc'[t] = "idle"
    BY <1>f, <2>1
  <2>3. Alone
    BY <2>1, <2>2 DEF DeletesAlone
  <2>4. ASSUME Ref!Dead PROVE ~alive' /\ \A u \in Holders : rpc'[u] = "idle"
    <3>1. strong = 0 /\ weak = 0
      BY <2>4 DEF Ref!Dead
    <3>2. \A u \in Holders : rpc[u] \in Ref!Releasing => u = t
      BY <1>0, <1>r, <2>1 DEF OneRelease
    <3>3. \A u \in Holders : rpc[u] = "weak_dead" => u = t
      BY <1>r, <2>1, <3>1 DEF DeletesAlone
    <3>4. \A u \in Holders : rpc[u] \notin {"upgrade", "self_dead"}
      BY <1>0, <1>f, <1>h, <3>1 DEF OneRelease
    <3>5. \A u \in Holders : u # t => rpc[u] = "idle"
      BY <1>f, <3>2, <3>3, <3>4 DEF Ref!Locations
    <3>6. ~alive
      <4>1. CASE rpc[t] = "delete_if_dead"
        BY <1>0, <4>1 DEF OneRelease
      <4>2. CASE rpc[t] = "weak_dead"
        <5>1. \A u \in Holders : rpc[u] \notin Ref!Releasing
          BY <1>r, <4>2
        <5> QED
          BY <1>0, <3>1, <5>1 DEF OneRelease
      <4> QED
        BY <2>1, <4>1, <4>2
    <3> QED
      BY <2>1, <2>2, <3>5, <3>6
  <2>5. block' # "misused" /\ (block' = "deleted" => Ref!Dead)
    BY <1>1, <2>1
  <2> QED
    BY <2>3, <2>4, <2>5 DEF DeletesAlone
<1>3. ASSUME ~Ref!DeleteIfDead(t) PROVE DeletesAlone'
  <2>1. block' = "allocated"
    BY <1>1, <1>3, BlockAccess
  <2> SUFFICES Alone
    BY <2>1 DEF DeletesAlone
  <2>2. ASSUME NEW u \in Holders, Ref!CopyStrong(t, u) \/ Ref!CopyWeak(t, u) PROVE Alone
    <3>1. strong' = 0 => strong = 0 /\ weak > 0 /\ UNCHANGED rpc
      BY <1>f, <1>i, <2>2 DEF Ref!CopyStrong, Ref!CopyWeak
    <3> QED
      BY <1>k, <3>1
  <2>3. CASE Ref!DropStrong(t)
    <3>1. strong' = strong - 1 /\ rpc' = [rpc EXCEPT ![t] = IF strong = 1 THEN "sentinel" ELSE "idle"]
      BY <2>3 DEF Ref!DropStrong, Ref!AfterLastStrong
    <3>2. strong' = 0 => rpc'[t] = "sentinel"
      BY <1>f, <3>1
    <3> QED
      BY <1>r, <3>2
  <2>4. CASE Ref!DropWeak(t)
    <3>1. /\ weak' = weak - 1 /\ strong' = strong
          /\ rpc' = [rpc EXCEPT ![t] = IF weak = 1 THEN "weak_dead" ELSE "idle"]
      BY <2>4 DEF Ref!DropWeak
    <3>2. weak > 0
      BY <1>h, <2>4 DEF Ref!DropWeak
    <3>3. strong' = 0 => \A u \in Holders : rpc'[u] = "weak_dead" => u = t /\ weak = 1
      BY <1>f, <1>k, <3>1, <3>2
    <3> QED
      BY <1>f, <3>1, <3>3
  <2>5. CASE Ref!ReadStrong(t) \/ Ref!Upgrade(t)
    <3>1. weak > 0
      BY <1>0, <1>h, <2>5 DEF Ref!ReadStrong, Ref!Upgrade, OneRelease
    <3>2. strong' = strong \/ strong' = strong + 1
      BY <2>5 DEF Ref!ReadStrong, Ref!Upgrade, Ref!counts
    <3>3. \A u \in Holders : rpc'[u] = "weak_dead" => rpc[u] = "weak_dead"
      BY <1>f, <2>5 DEF Ref!ReadStrong, Ref!Upgrade
    <3> QED
      BY <1>f, <1>k, <3>1, <3>2, <3>3
  <2>6. CASE Ref!AddSentinel(t) \/ Ref!Destroy(t) \/ Ref!DropSentinel(t)
    <3>1. rpc'[t] \in Ref!Releasing
      BY <1>f, <2>6 DEF Ref!AddSentinel, Ref!Destroy, Ref!DropSentinel, Ref!AfterDestroy
    <3> QED
      BY <1>r, <3>1
  <2>7. CASE Ref!DropSelf(t)
    <3>1. rpc'[t] \in {"self_dead", "unsentinel"}
      BY <1>f, <2>7 DEF Ref!DropSelf
    <3>2. rpc'[t] # "self_dead"
      BY <1>1, ReleasesStaySingle DEF OneRelease
    <3> QED
      BY <1>r, <3>1, <3>2
  <2> QED
    BY <1>3, <2>2, <2>3, <2>4, <2>5, <2>6, <2>7 DEF Ref!Step
<1> QED
  BY <1>2, <1>3

LEMMA HandlesStart == Ref!Init => HandlesInv
<1> SUFFICES ASSUME Ref!Init PROVE HandlesInv
  OBVIOUS
<1> USE HandlesBounds
<1>0. MaxStrong \in Nat \ {0} /\ MaxWeak \in Nat
  OBVIOUS
<1>1. PICK t \in Holders : strongs = [u \in Holders |-> Ref!One(u = t)]
  BY DEF Ref!Init
<1>2. strongs \in [Holders -> 0 .. MaxStrong] /\ strongs[t] = 1
  BY <1>0, <1>1 DEF Ref!One
<1>3. /\ strong = 1 /\ selfWeak \in {0, 1} /\ weak = selfWeak /\ alive = TRUE
      /\ block = "allocated" /\ raced = FALSE
      /\ weaks = [u \in Holders |-> 0] /\ seen = [u \in Holders |-> 0]
      /\ rpc = [u \in Holders |-> "idle"]
  BY DEF Ref!Init
<1>4. HandlesTypes
  BY <1>0, <1>2, <1>3 DEF HandlesTypes, Ref!Locations
<1>5. Ref!Total(strongs) = 1
  <2> DEFINE none == [u \in Holders |-> 0]
  <2>1. none \in [Holders -> 0 .. MaxStrong] /\ none[t] < MaxStrong
    BY <1>0
  <2>2. Ref!Total(none) = 0
    BY <1>0, <2>1, TotalIsFinite
  <2>3. strongs = [none EXCEPT ![t] = @ + 1]
    BY <1>1 DEF Ref!One
  <2>4. Ref!Total([none EXCEPT ![t] = @ + 1]) = Ref!Total(none) + 1
    BY <1>0, <2>1, TotalAdds
  <2> QED
    BY <2>2, <2>3, <2>4
<1>6. Ref!Total(weaks) = 0
  <2>1. weaks \in [Holders -> 0 .. MaxWeak] /\ \A u \in Holders : weaks[u] = 0
    BY <1>0, <1>3
  <2> QED
    BY <1>0, <2>1, TotalIsFinite
<1>7. Cardinality(Sentinels) = 0
  <2>1. Sentinels = {}
    BY <1>3 DEF Sentinels, Places
  <2> QED
    BY <2>1, FS_EmptySet
<1>8. Counted
  BY <1>3, <1>5, <1>6, <1>7 DEF Counted
<1>9. OneRelease /\ Deletes /\ DeletesAlone /\ ~Ref!Race
  BY <1>3 DEF OneRelease, Deletes, DeletesAlone, Ref!Race, Ref!Releasing
<1> QED
  BY <1>3, <1>4, <1>8, <1>9 DEF HandlesInv, BlockInv

LEMMA HandlesStep == HandlesInv /\ [Ref!Next]_handleVars => HandlesInv'
<1> SUFFICES ASSUME HandlesInv, [Ref!Next]_handleVars PROVE HandlesInv'
  OBVIOUS
<1>1. CASE Ref!Next
  <2>1. PICK t \in Holders : Ref!Step(t)
    BY <1>1 DEF Ref!Next
  <2>2. block # "misused" /\ raced' = (raced \/ Ref!Race')
    BY <1>1 DEF Ref!Next
  <2>3. BlockInv
    BY DEF HandlesInv
  <2>4. BlockInv'
    BY <2>1, <2>2, <2>3, HandlesKeepTypes, HandlesStayCounted, ReleasesStaySingle,
       BlockIsDeleted
    DEF BlockInv
  <2>5. raced' \in BOOLEAN /\ (Ref!Race' => raced')
    BY <2>2
  <2>6. ASSUME ~raced' PROVE DeletesAlone'
    <3>1. ~raced /\ ~Ref!Race'
      BY <2>2, <2>6
    <3>2. DeletesAlone /\ ~Ref!Race
      BY <3>1 DEF HandlesInv
    <3> QED
      BY <2>1, <2>3, <3>1, <3>2, BlockIsDeletedAlone
  <2> QED
    BY <2>4, <2>5, <2>6 DEF HandlesInv
<1>2. CASE UNCHANGED handleVars
  BY <1>2
  DEF handleVars, HandlesInv, BlockInv, HandlesTypes, Counted, Sentinels, OneRelease,
      Deletes, DeletesAlone, Ref!Race, Ref!Total, Ref!HandlesOf
<1> QED
  BY <1>1, <1>2

LEMMA HandlesInvImplies ==
  HandlesInv => Ref!StrongKeepsAlive /\ Ref!BlockOutlivesHandles /\ Ref!NothingLeaks
<1> SUFFICES ASSUME HandlesInv
             PROVE  Ref!StrongKeepsAlive /\ Ref!BlockOutlivesHandles /\ Ref!NothingLeaks
  OBVIOUS
<1>0. HandlesTypes /\ Counted /\ OneRelease /\ Deletes
  BY DEF HandlesInv, BlockInv
<1>1. /\ \A t \in Holders : strongs[t] > 0 => strong > 0
      /\ Cardinality(Sentinels) \in Nat
      /\ Ref!Total(strongs) \in Nat /\ Ref!Total(weaks) \in Nat
  BY <1>0, HeldIsCounted
<1>2. (\E t \in Holders : strongs[t] > 0) => alive
  BY <1>0, <1>1 DEF OneRelease
<1>3. Ref!StrongKeepsAlive
  <2> DEFINE S == {t \in Holders : rpc[t] \in Ref!Releasing \cup {"self_dead"}}
  <2>1. IsFiniteSet(S)
    BY HandlesBounds, FS_Subset
  <2>2. \A t, u \in S : t = u
    BY <1>0 DEF OneRelease
  <2>3. Cardinality(S) <= 1
    BY <2>1, <2>2, AtMostOne
  <2> QED
    BY <1>2, <2>3, SameFiniteSets DEF Ref!StrongKeepsAlive
<1>4. Ref!BlockOutlivesHandles
  <2> SUFFICES ASSUME ~raced PROVE Ref!BlockKept
    BY DEF Ref!BlockOutlivesHandles
  <2>1. DeletesAlone
    BY DEF HandlesInv
  <2>2. selfWeak \in {0, 1}
    BY <1>0 DEF HandlesTypes
  <2>3. (strong = 0 /\ weak = 0) => Ref!Total(strongs) = 0 /\ Ref!Total(weaks) = 0
    BY <1>0, <1>1, <2>2 DEF Counted
  <2> QED
    BY <1>0, <2>1, <2>3 DEF DeletesAlone, Deletes, Ref!BlockKept
<1>5. Ref!NothingLeaks
  <2> SUFFICES ASSUME Ref!Total(strongs) = 0, Ref!Total(weaks) = 0,
                      \A t \in Holders : rpc[t] = "idle"
               PROVE  ~alive /\ block # "allocated"
    BY DEF Ref!NothingLeaks
  <2>1. Sentinels = {} /\ Cardinality(Sentinels) = 0
    BY FS_EmptySet DEF Sentinels, Places
  <2>2. \A t \in Holders : rpc[t] \notin Ref!Releasing \cup {"weak_dead"}
    BY DEF Ref!Releasing
  <2>3. strong = 0
    BY <1>0 DEF Counted
  <2>4. ~alive /\ selfWeak = 0
    BY <1>0, <2>2, <2>3 DEF OneRelease
  <2>5. weak = 0
    BY <1>0, <2>1, <2>4 DEF Counted
  <2> QED
    BY <1>0, <2>2, <2>3, <2>4, <2>5 DEF Deletes
<1> QED
  BY <1>3, <1>4, <1>5

LEMMA SameHandleVars == UNCHANGED Ref!vars <=> UNCHANGED handleVars
BY DEF Ref!vars, Ref!counts, Ref!handles, handleVars

(* PyRefCount and PyWeakRef: a strong handle keeps the object, release()     *)
(* destroys it once, the block outlives whoever uses it unless the last      *)
(* strong and the last weak handle are dropped together, and neither is      *)
(* left behind.                                                              *)
THEOREM RefCountSafety ==
  Ref!Spec => [](/\ Ref!TypeOK /\ Ref!StrongKeepsAlive
                 /\ Ref!BlockOutlivesHandles /\ Ref!NothingLeaks)
<1>1. HandlesInv /\ [Ref!Next]_(Ref!vars) => HandlesInv'
  BY HandlesStep, SameHandleVars
<1> QED
  BY <1>1, HandlesStart, HandlesInvTypes, HandlesInvImplies, PTL DEF Ref!Spec

(*************************************************************************)
(* Both together                                                         *)
(*************************************************************************)

LifetimesInv == ThreadInv /\ HandlesInv

LEMMA LifetimesInvariance == LifetimesSpec => []LifetimesInv
<1>1. LifetimesInit => LifetimesInv
  BY ThreadStart, HandlesStart DEF LifetimesInit, LifetimesInv
<1>2. [LifetimesNext]_allVars => [Next]_vars /\ [Ref!Next]_handleVars
  BY DEF LifetimesNext, allVars
<1>3. LifetimesInv /\ [LifetimesNext]_allVars => LifetimesInv'
  BY <1>2, ThreadStep, HandlesStep DEF LifetimesInv
<1> QED
  BY <1>1, <1>3, PTL DEF LifetimesSpec

(* The references of a ThreadState are its owners, those of a control block  *)
(* its handles, for any number of either.                                    *)
THEOREM LifetimesTyping == LifetimesSpec => []TypesAndCounts
<1>1. LifetimesInv => TypesAndCounts
  BY HandlesInvTypes DEF LifetimesInv, ThreadInv, TypesAndCounts
<1> QED
  BY <1>1, LifetimesInvariance, PTL

(* release_thread: nobody uses a ThreadState when it is deleted.             *)
THEOREM LifetimesFreedOnlyWhenUnused == LifetimesSpec => []FreedOnlyWhenUnused
<1>1. LifetimesInv => FreedOnlyWhenUnused
  BY ThreadInvImplies DEF LifetimesInv
<1> QED
  BY <1>1, LifetimesInvariance, PTL

(* start and join: one OS thread, joined natively once.                      *)
THEOREM LifetimesOneNativeThread == LifetimesSpec => []OneNativeThread
<1>1. LifetimesInv => OneNativeThread
  BY ThreadInvImplies DEF LifetimesInv
<1> QED
  BY <1>1, LifetimesInvariance, PTL

(* A strong handle refers to a living object, a used block is not deleted.   *)
THEOREM LifetimesHandlesKeepAlive == LifetimesSpec => []HandlesKeepAlive
<1>1. LifetimesInv => HandlesKeepAlive
  BY HandlesInvImplies DEF LifetimesInv, HandlesKeepAlive
<1> QED
  BY <1>1, LifetimesInvariance, PTL

(* release: the last handle takes object and block with it.                  *)
THEOREM LifetimesNothingLeaks == LifetimesSpec => []NothingLeaks
<1>1. LifetimesInv => NothingLeaks
  BY HandlesInvImplies DEF LifetimesInv, NothingLeaks
<1> QED
  BY <1>1, LifetimesInvariance, PTL
=============================================================================
