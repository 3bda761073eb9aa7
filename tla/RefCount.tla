------------------------------ MODULE RefCount ------------------------------
(***************************************************************************)
(* PyRefCount and PyWeakRef of templates/core/refcount.h: the control      *)
(* block of one object, with its strong and its weak count, and the        *)
(* handles that threads copy, hand to one another, upgrade and drop.  An   *)
(* atomic operation on a count is one action, and so is the look at both   *)
(* counts that precedes the deletion of the block.                         *)
(*                                                                         *)
(* Once a deleted block is touched (misused) anything may happen; the      *)
(* model stops there.  MaxStrong and MaxWeak bound the handles a thread    *)
(* holds.  The object may own a weak reference to itself, the case the     *)
(* comment in release() describes.                                         *)
(***************************************************************************)
EXTENDS Naturals, FiniteSets

CONSTANTS Threads, MaxStrong, MaxWeak

RefCountAssumption ==
  /\ IsFiniteSet(Threads)
  /\ MaxStrong \in Nat \ {0} /\ MaxWeak \in Nat

VARIABLES
  strong,    \* strong_count
  weak,      \* weak_count
  alive,     \* the object has not been destroyed
  block,     \* the control block: "allocated", "deleted" or "misused"
  strongs,   \* how many PyRefCount each thread holds
  weaks,     \* how many PyWeakRef each thread holds
  selfWeak,  \* how many the object holds
  pc,        \* where each thread is
  seen,      \* the strong count that its upgrade has read
  raced      \* history: a thread dropped the last weak reference while another
             \* was in release() with the last strong one

counts == <<strong, weak>>
handles == <<strongs, weaks, selfWeak>>
vars == <<counts, alive, block, handles, pc, seen, raced>>

(* The places of release() after the last strong reference is gone, and of   *)
(* a thread that dropped a weak reference or is upgrading one.               *)
Releasing == {"sentinel", "destroy", "self", "unsentinel", "delete_if_dead"}
Locations == {"idle", "upgrade", "weak_dead", "self_dead"} \cup Releasing

One(b) == IF b THEN 1 ELSE 0

(* One thread has created the object. *)
Init ==
  /\ strong = 1
  /\ selfWeak \in {0, 1}
  /\ weak = selfWeak
  /\ alive = TRUE
  /\ block = "allocated"
  /\ \E t \in Threads : strongs = [u \in Threads |-> One(u = t)]
  /\ weaks = [t \in Threads |-> 0]
  /\ pc = [t \in Threads |-> "idle"]
  /\ seen = [t \in Threads |-> 0]
  /\ raced = FALSE

Goto(t, place) == pc' = [pc EXCEPT ![t] = place]

(* Every access to the block; one to a deleted block is the end. *)
Touch == block' = IF block = "deleted" THEN "misused" ELSE block

-----------------------------------------------------------------------------
(* Wrong variants of the definitions below, each a mistake the code could    *)
(* have made: the properties of this module tell them from the real ones.    *)

(* release without the temporary weak reference. *)
AfterLastStrongNoSentinel == "destroy"

(* An upgrade adds to whatever the count is by now. *)
UpgradesBlindly(t) == seen[t] > 0

(* The last weak reference deletes the block, whatever the strong count. *)
DeadWithoutLook == weak = 0

(* The strong side leaves the block to the weak references. *)
AfterDestroyForget == "idle"

-----------------------------------------------------------------------------
(* The copy of a handle by t, for itself or captured in a closure for u. *)
CopyStrong(t, u) ==
  /\ pc[t] = "idle"
  /\ strongs[t] > 0 /\ strongs[u] + One(pc[u] = "upgrade") < MaxStrong
  /\ strong' = strong + 1
  /\ strongs' = [strongs EXCEPT ![u] = @ + 1]
  /\ Touch
  /\ UNCHANGED <<weak, alive, weaks, selfWeak, pc, seen>>

(* makeWeakRef from a strong handle, or the copy of a weak one. *)
CopyWeak(t, u) ==
  /\ pc[t] = "idle"
  /\ strongs[t] + weaks[t] > 0 /\ weaks[u] < MaxWeak
  /\ weak' = weak + 1
  /\ weaks' = [weaks EXCEPT ![u] = @ + 1]
  /\ Touch
  /\ UNCHANGED <<strong, alive, strongs, selfWeak, pc, seen>>

(* What release() does when it has taken the strong count to zero: a weak    *)
(* reference of its own keeps the block while the object is destroyed.       *)
AfterLastStrong == "sentinel"

(* release(): the strong count goes down... *)
DropStrong(t) ==
  /\ pc[t] = "idle"
  /\ strongs[t] > 0
  /\ strongs' = [strongs EXCEPT ![t] = @ - 1]
  /\ strong' = strong - 1
  /\ Goto(t, IF strong = 1 THEN AfterLastStrong ELSE "idle")
  /\ Touch
  /\ UNCHANGED <<weak, alive, weaks, selfWeak, seen>>

AddSentinel(t) ==
  /\ pc[t] = "sentinel"
  /\ weak' = weak + 1
  /\ Goto(t, "destroy")
  /\ Touch
  /\ UNCHANGED <<strong, alive, handles, seen>>

(* ...the destructor of the object runs, and drops the weak reference that   *)
(* the object holds... *)
Destroy(t) ==
  /\ pc[t] = "destroy"
  /\ alive' = FALSE
  /\ Goto(t, IF selfWeak > 0 THEN "self" ELSE "unsentinel")
  /\ Touch
  /\ UNCHANGED <<counts, handles, seen>>

DropSelf(t) ==
  /\ pc[t] = "self"
  /\ selfWeak' = 0
  /\ weak' = weak - 1
  /\ Goto(t, IF weak = 1 THEN "self_dead" ELSE "unsentinel")
  /\ Touch
  /\ UNCHANGED <<strong, alive, strongs, weaks, seen>>

(* ...and the temporary reference goes. *)
AfterDestroy == "delete_if_dead"

DropSentinel(t) ==
  /\ pc[t] = "unsentinel"
  /\ weak' = weak - 1
  /\ Goto(t, AfterDestroy)
  /\ Touch
  /\ UNCHANGED <<strong, alive, handles, seen>>

(* The destructor of a weak handle. *)
DropWeak(t) ==
  /\ pc[t] = "idle"
  /\ weaks[t] > 0
  /\ weaks' = [weaks EXCEPT ![t] = @ - 1]
  /\ weak' = weak - 1
  /\ Goto(t, IF weak = 1 THEN "weak_dead" ELSE "idle")
  /\ Touch
  /\ UNCHANGED <<strong, alive, strongs, selfWeak, seen>>

(* _py_refcount_delete_block_if_dead *)
Dead == strong = 0 /\ weak = 0

DeleteIfDead(t) ==
  /\ pc[t] \in {"delete_if_dead", "weak_dead", "self_dead"}
  /\ Goto(t, IF pc[t] = "self_dead" THEN "unsentinel" ELSE "idle")
  /\ block' = IF block = "deleted" THEN "misused"
              ELSE IF Dead THEN "deleted" ELSE block
  /\ UNCHANGED <<counts, alive, handles, seen>>

(* PyWeakRef.value: the count is read, and added to if it has not changed;   *)
(* otherwise the compare-exchange has read it again.                         *)
ReadStrong(t) ==
  /\ pc[t] = "idle"
  /\ weaks[t] > 0 /\ strongs[t] < MaxStrong
  /\ seen' = [seen EXCEPT ![t] = strong]
  /\ Goto(t, IF strong > 0 THEN "upgrade" ELSE "idle")
  /\ Touch
  /\ UNCHANGED <<counts, alive, handles>>

(* The compare-exchange succeeds. *)
Upgrades(t) == seen[t] > 0 /\ seen[t] = strong

Upgrade(t) ==
  /\ pc[t] = "upgrade"
  /\ IF Upgrades(t)
       THEN /\ strong' = strong + 1
            /\ strongs' = [strongs EXCEPT ![t] = @ + 1]
            /\ Goto(t, "idle") /\ UNCHANGED seen
       ELSE /\ seen' = [seen EXCEPT ![t] = strong]
            /\ Goto(t, IF strong > 0 THEN "upgrade" ELSE "idle")
            /\ UNCHANGED <<strong, strongs>>
  /\ Touch
  /\ UNCHANGED <<weak, alive, weaks, selfWeak>>

Step(t) ==
  \/ \E u \in Threads : CopyStrong(t, u) \/ CopyWeak(t, u)
  \/ DropStrong(t) \/ DropWeak(t) \/ ReadStrong(t)
  \/ AddSentinel(t) \/ Destroy(t) \/ DropSelf(t) \/ DropSentinel(t)
  \/ DeleteIfDead(t) \/ Upgrade(t)

Race == \E t, u \in Threads : pc[t] = "weak_dead" /\ pc[u] \in Releasing

Next ==
  /\ block # "misused"
  /\ \E t \in Threads : Step(t)
  /\ raced' = (raced \/ Race')

Spec == Init /\ [][Next]_vars

-----------------------------------------------------------------------------
(* The handles of f, one by one: the k-th of each thread, and their number.  *)
HandlesOf(f) == UNION {{t} \X (1 .. f[t]) : t \in DOMAIN f}
Total(f) == Cardinality(HandlesOf(f))

(* Every variable holds a value of its type, and the counts are the numbers  *)
(* of the handles; the weak count has one more while release() destroys the  *)
(* object.                                                                   *)
TypeOK ==
  /\ strong \in Nat /\ weak \in Nat
  /\ alive \in BOOLEAN
  /\ block \in {"allocated", "deleted", "misused"}
  /\ strongs \in [Threads -> 0 .. MaxStrong]
  /\ weaks \in [Threads -> 0 .. MaxWeak]
  /\ selfWeak \in {0, 1}
  /\ pc \in [Threads -> Locations]
  /\ seen \in [Threads -> Nat]
  /\ raced \in BOOLEAN
  /\ block = "allocated" =>
       /\ strong = Total(strongs)
       /\ weak = Total(weaks) + selfWeak
                 + Cardinality({t \in Threads :
                                  pc[t] \in {"destroy", "self", "self_dead", "unsentinel"}})

(* A strong handle, also one that PyWeakRef.value made while the last one    *)
(* was being dropped, refers to an object that has not been destroyed, and   *)
(* one thread at a time is past the last strong reference.                   *)
StrongKeepsAlive ==
  /\ (\E t \in Threads : strongs[t] > 0) => alive
  /\ Cardinality({t \in Threads : pc[t] \in Releasing \cup {"self_dead"}}) <= 1

(* Nobody touches the control block after it has been deleted, the           *)
(* destructor of the object included, and it is deleted once.                *)
BlockKept ==
  /\ block # "misused"
  /\ block = "deleted" => /\ ~alive
                          /\ Total(strongs) = 0 /\ Total(weaks) = 0
                          /\ \A t \in Threads : pc[t] = "idle"

(* release() keeps the block as long as it needs it, whatever handles        *)
(* threads drop and upgrade meanwhile, and also while the destructor drops   *)
(* the weak reference of the object to itself: only the last strong and the  *)
(* last weak handle dropped at the same time can break that.                 *)
BlockOutlivesHandles == ~raced => BlockKept

(* What docs/concur-thread.md says of the atomic counts: handles may be      *)
(* released by several threads, the last strong and the last weak one too.   *)
BlockOutlivesRacingHandles == BlockKept

(* Nothing leaks: when the last handle is gone and every release is over,    *)
(* the object is destroyed and its block deleted.                            *)
NothingLeaks ==
  (/\ Total(strongs) = 0 /\ Total(weaks) = 0
   /\ \A t \in Threads : pc[t] = "idle") => ~alive /\ block # "allocated"
=============================================================================
