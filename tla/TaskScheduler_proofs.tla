------------------------ MODULE TaskScheduler_proofs ------------------------
(***************************************************************************)
(* Proofs about TaskScheduler, for any bounds: the types and the counts of *)
(* the gathers, and that every unfinished slot waits in exactly one place. *)
(*                                                                         *)
(* Most lemmas are about boards, the values that _finishSlot, _fireIo and  *)
(* _fireTimers map to one another, since a step of the scheduler is a      *)
(* chain of them.  What is kept along the chain are `Gathers', the counts, *)
(* and `AllPlaced', the one place of each slot; the theorems at the end    *)
(* read it in the state.  The chain is as long as a list, so that every    *)
(* recursive function is unfolded by Induction.                            *)
(***************************************************************************)
EXTENDS TaskScheduler, FiniteSetTheorems, SequenceTheorems, WellFoundedInduction, TLAPS

(***************************************************************************)
(* What is kept of the gathers, and of the places                          *)
(***************************************************************************)

(* The links of the gathers are typed, and none is there twice.             *)
LinksOK ==
  /\ gatherLinks \in Seq([gather : Known, index : 1..MaxChildren, child : Known])
  /\ \A k \in DOMAIN gatherLinks : kind[gatherLinks[k].gather] = "gather"
  /\ \A k, m \in DOMAIN gatherLinks :
       /\ gatherLinks[k].gather = gatherLinks[m].gather
       /\ gatherLinks[k].index = gatherLinks[m].index
       => k = m

(* The slots that an entry of each list can be of. *)
Runnable == {t \in Known : kind[t] \in {"coro", "thread"}}
Timed == {t \in Known : kind[t] \in {"sleep", "thread"}}
Handled == {t \in Known : kind[t] = "io"}

(* A list has entries of the kinds of slots that are put on it only.        *)
Boards ==
  [done : SUBSET Known, ready : Seq(Runnable), links : [Tasks -> Seq(Runnable)],
   timers : Seq([task : Timed, left : 1..MaxPeriods]), ioWaits : Seq(Handled),
   pending : [Tasks -> Int], filled : [Tasks -> SUBSET (1..MaxChildren)]]

(* The counts of the gathers on the board b, where the links K have still   *)
(* to be told that their child is done. Of a child that is a gather itself, *)
(* or whose job failed, the parent may never be told.                       *)
Gathers(b, K) ==
  /\ \A g \in Known : kind[g] = "gather" =>
       /\ b.pending[g] = Cardinality(Indexes(g) \ b.filled[g])
       /\ (g \in b.done) <=> (b.pending[g] = 0)
  /\ \A k \in DOMAIN gatherLinks :
       LET l == gatherLinks[k]
           full == l.index \in b.filled[l.gather]
       IN  /\ full => l.child \in b.done \ failed
           /\ k \in K => ~full
           /\ l.child \in b.done \ failed => full \/ kind[l.child] = "gather" \/ k \in K

(* The places of the slot t on the board b, and in what is still to be      *)
(* looked at of a list e, whose indexes are D.                              *)
Places(b, D, e, t) ==
  Tickets(b, t) \union {<<"rest", NoTask, j>> : j \in {i \in D : e[i] = t}}

(* Of the places P of the slot t: one, or none for the slots X that are     *)
(* excused.                                                                 *)
Placed(P, t, X) == IF t \in X THEN P = {} ELSE \E p \in P : P = {p}

(* Every unfinished slot is where it should be, but the gathers, which wait *)
(* nowhere.                                                                 *)
AllPlaced(b, D, e, X) ==
  \A t \in Known \ b.done :
    kind[t] \notin {"gather", "unset"} => Placed(Places(b, D, e, t), t, X)

(* What a concatenation holds.                                              *)
LEMMA Joined ==
    ASSUME NEW S, NEW s \in Seq(S), NEW u \in Seq(S), NEW v, v = s \o u
    PROVE  /\ v \in Seq(S) /\ Len(s) \in Nat /\ DOMAIN s = 1 .. Len(s)
           /\ Len(u) \in Nat /\ DOMAIN u = 1 .. Len(u)
           /\ DOMAIN v = 1 .. Len(s) + Len(u)
           /\ \A i \in DOMAIN s : v[i] = s[i]
           /\ \A i \in DOMAIN u : v[Len(s) + i] = u[i]
           /\ \A i \in DOMAIN v : i > Len(s) =>
                 i - Len(s) \in DOMAIN u /\ v[i] = u[i - Len(s)]
<1>1. /\ v \in Seq(S) /\ Len(v) = Len(s) + Len(u)
      /\ \A i \in 1 .. Len(s) + Len(u) : v[i] = IF i <= Len(s) THEN s[i] ELSE u[i - Len(s)]
  BY ConcatProperties
<1>2. /\ Len(s) \in Nat /\ DOMAIN s = 1 .. Len(s)
      /\ Len(u) \in Nat /\ DOMAIN u = 1 .. Len(u)
  BY LenProperties
<1>3. DOMAIN v = 1 .. Len(s) + Len(u)
  BY <1>1, LenProperties
<1>4. \A i \in DOMAIN u : v[Len(s) + i] = u[i]
  <2> TAKE i \in DOMAIN u
  <2>1. Len(s) + i \in 1 .. Len(s) + Len(u) /\ ~(Len(s) + i <= Len(s)) /\ (Len(s) + i) - Len(s) = i
    BY <1>2
  <2> QED  BY <1>1, <2>1
<1> QED  BY <1>1, <1>2, <1>3, <1>4

(* The members of Places, list by list.                                     *)
LEMMA PlacesIn ==
    ASSUME NEW b, NEW D, NEW e, NEW t, NEW p
    PROVE  p \in Places(b, D, e, t) <=>
             \/ \E i \in DOMAIN b.ready : p = <<"ready", NoTask, i>> /\ b.ready[i] = t
             \/ \E i \in DOMAIN b.timers : p = <<"timers", NoTask, i>> /\ b.timers[i].task = t
             \/ \E i \in DOMAIN b.ioWaits : p = <<"ioWaits", NoTask, i>> /\ b.ioWaits[i] = t
             \/ \E x \in Tasks \ b.done : \E i \in DOMAIN b.links[x] :
                    p = <<"waitLinks", x, i>> /\ b.links[x][i] = t
             \/ \E j \in D : p = <<"rest", NoTask, j>> /\ e[j] = t
<1> DEFINE A == {<<"ready", NoTask, i>> : i \in {j \in DOMAIN b.ready : b.ready[j] = t}}
           B == {<<"timers", NoTask, i>> : i \in {j \in DOMAIN b.timers : b.timers[j].task = t}}
           C == {<<"ioWaits", NoTask, i>> : i \in {j \in DOMAIN b.ioWaits : b.ioWaits[j] = t}}
           W == UNION {{<<"waitLinks", x, i>> : i \in {j \in DOMAIN b.links[x] : b.links[x][j] = t}} :
                         x \in Tasks \ b.done}
           R == {<<"rest", NoTask, j>> : j \in {i \in D : e[i] = t}}
<1>1. p \in A <=> \E i \in DOMAIN b.ready : p = <<"ready", NoTask, i>> /\ b.ready[i] = t
  OBVIOUS
<1>2. p \in B <=> \E i \in DOMAIN b.timers : p = <<"timers", NoTask, i>> /\ b.timers[i].task = t
  OBVIOUS
<1>3. p \in C <=> \E i \in DOMAIN b.ioWaits : p = <<"ioWaits", NoTask, i>> /\ b.ioWaits[i] = t
  OBVIOUS
<1>4. p \in W <=> \E x \in Tasks \ b.done : \E i \in DOMAIN b.links[x] :
                      p = <<"waitLinks", x, i>> /\ b.links[x][i] = t
  OBVIOUS
<1>5. p \in R <=> \E j \in D : p = <<"rest", NoTask, j>> /\ e[j] = t
  OBVIOUS
<1>6. Tickets(b, t) = A \union B \union C \union W
  <2>1. {j \in DOMAIN b.timers : [i \in DOMAIN b.timers |-> b.timers[i].task][j] = t}
        = {j \in DOMAIN b.timers : b.timers[j].task = t}
    OBVIOUS
  <2> QED  BY <2>1, Zenon DEF Tickets
<1>7. Places(b, D, e, t) = (A \union B \union C \union W) \union R
  BY <1>6 DEF Places
<1> HIDE DEF A, B, C, W, R
<1> QED  BY <1>1, <1>2, <1>3, <1>4, <1>5, <1>7

(* Places may be renamed.                                                   *)
LEMMA Renamed ==
    ASSUME NEW P, NEW Q, NEW f, NEW t, NEW X,
           \A p \in P : f[p] \in Q, \A q \in Q : \E p \in P : q = f[p],
           Placed(P, t, X)
    PROVE  Placed(Q, t, X)
<1>1. CASE t \in X
  BY <1>1 DEF Placed
<1>2. CASE t \notin X
  <2>1. PICK p : P = {p}
    BY <1>2 DEF Placed
  <2>2. Q = {f[p]}
    BY <2>1
  <2> QED  BY <1>2, <2>2 DEF Placed
<1> QED  BY <1>1, <1>2

(* Links are only taken away. *)
OnlyWakes(b, c) == \A x \in Tasks : b.links[x] = <<>> => c.links[x] = <<>>

(* markDone and _wakeWaiters of a slot.                                     *)
Ends(b, x) == Wake([b EXCEPT !.done = @ \union {x}], x)

(* What changes on the board when a slot ends.                              *)
LEMMA EndsFields ==
    ASSUME NEW b \in Boards, NEW x \in Known
    PROVE  /\ Ends(b, x) \in Boards
           /\ Ends(b, x).done = b.done \union {x}
           /\ Ends(b, x).ready = b.ready \o b.links[x]
           /\ Ends(b, x).links = [b.links EXCEPT ![x] = <<>>]
           /\ Ends(b, x).timers = b.timers /\ Ends(b, x).ioWaits = b.ioWaits
           /\ Ends(b, x).pending = b.pending /\ Ends(b, x).filled = b.filled
           /\ OnlyWakes(b, Ends(b, x))
<1>1. /\ b.ready \in Seq(Runnable) /\ b.links[x] \in Seq(Runnable) /\ x \in Tasks
      /\ b.links \in [Tasks -> Seq(Runnable)] /\ b.done \in SUBSET Known
  BY DEF Boards, Known
<1> DEFINE c == [b EXCEPT !.done = @ \union {x}]
<1>2. c \in Boards /\ c = [b EXCEPT !.done = b.done \union {x}]
  BY <1>1 DEF Boards
<1>3. /\ c.done = b.done \union {x} /\ c.ready = b.ready /\ c.links = b.links
      /\ c.timers = b.timers /\ c.ioWaits = b.ioWaits
      /\ c.pending = b.pending /\ c.filled = b.filled
  BY DEF Boards
<1> HIDE DEF c
<1>4. Ends(b, x) = [c EXCEPT !.ready = c.ready \o c.links[x],
                             !.links = [c.links EXCEPT ![x] = <<>>]]
  BY <1>2 DEF c, Ends, Wake, Boards
<1>5. /\ Ends(b, x).done = c.done
      /\ Ends(b, x).ready = b.ready \o b.links[x]
      /\ Ends(b, x).links = [b.links EXCEPT ![x] = <<>>]
      /\ Ends(b, x).timers = c.timers /\ Ends(b, x).ioWaits = c.ioWaits
      /\ Ends(b, x).pending = c.pending /\ Ends(b, x).filled = c.filled
  BY <1>2, <1>3, <1>4 DEF Boards
<1>6. b.ready \o b.links[x] \in Seq(Runnable) /\ [b.links EXCEPT ![x] = <<>>] \in [Tasks -> Seq(Runnable)]
  BY <1>1
<1>7. Ends(b, x) \in Boards
  BY <1>2, <1>3, <1>4, <1>6 DEF Boards
<1>8. OnlyWakes(b, Ends(b, x))
  BY <1>1, <1>5 DEF OnlyWakes
<1> QED  BY <1>3, <1>5, <1>7, <1>8

(* Those who waited for a slot that ends move from its links to `ready';    *)
(* all others keep their places.                                            *)
LEMMA EndsPlaces ==
    ASSUME NEW b \in Boards, NEW D, NEW e, NEW X, NEW x \in Known, x \notin b.done,
           AllPlaced(b, D, e, X)
    PROVE  AllPlaced(Ends(b, x), D, e, X)
<1> PICK c \in Boards : c = Ends(b, x)
  BY EndsFields
<1>0. /\ c.done = b.done \union {x} /\ c.ready = b.ready \o b.links[x]
      /\ c.links = [b.links EXCEPT ![x] = <<>>] /\ c.timers = b.timers
      /\ c.ioWaits = b.ioWaits
  BY EndsFields
<1>1. /\ b.ready \in Seq(Runnable) /\ b.links[x] \in Seq(Runnable) /\ x \in Tasks
      /\ b.links \in [Tasks -> Seq(Runnable)]
  BY DEF Boards, Known
<1> DEFINE s == b.ready
           u == b.links[x]
           v == c.ready
           n == Len(s)
<1>11. v = s \o u /\ s \in Seq(Runnable) /\ u \in Seq(Runnable)
  BY <1>0, <1>1
<1> HIDE DEF s, u, v
<1>12. /\ DOMAIN s = 1 .. n /\ DOMAIN v = 1 .. n + Len(u) /\ n \in Nat /\ Len(u) \in Nat
       /\ DOMAIN u = 1 .. Len(u)
       /\ \A i \in DOMAIN s : v[i] = s[i]
       /\ \A i \in DOMAIN u : v[n + i] = u[i]
       /\ \A i \in DOMAIN v : i > n => i - n \in DOMAIN u /\ v[i] = u[i - n]
  BY <1>11, Joined
<1> HIDE DEF n
<1>14. /\ \A i \in DOMAIN s : i \in DOMAIN v /\ v[i] = s[i]
       /\ \A i \in DOMAIN u : n + i \in DOMAIN v /\ v[n + i] = u[i]
       /\ \A i \in DOMAIN v : i \in Nat /\ (i <= n => i \in DOMAIN s /\ v[i] = s[i])
  BY <1>12
<1>15. s = b.ready /\ u = b.links[x] /\ v = c.ready
  BY DEF s, u, v
<1>2. SUFFICES ASSUME NEW t \in Known \ c.done, kind[t] \notin {"gather", "unset"}
               PROVE  Placed(Places(c, D, e, t), t, X)
  BY DEF AllPlaced
<1> DEFINE P == Places(b, D, e, t)
           Q == Places(c, D, e, t)
           f == [p \in P |-> IF p[1] = "waitLinks" /\ p[2] = x
                             THEN <<"ready", NoTask, n + p[3]>> ELSE p]
<1>3. Placed(P, t, X)
  BY <1>0, <1>2 DEF AllPlaced
<1>4. ASSUME NEW p \in P PROVE f[p] \in Q
  <2>1. CASE \E i \in DOMAIN b.ready : p = <<"ready", NoTask, i>> /\ b.ready[i] = t
    <3>1. PICK i \in DOMAIN b.ready : p = <<"ready", NoTask, i>> /\ b.ready[i] = t
      BY <2>1
    <3>2. f[p] = p
      BY <3>1
    <3>3. i \in DOMAIN c.ready /\ c.ready[i] = t
      BY <1>14, <1>15, <3>1
    <3> QED  BY <1>0, <3>1, <3>2, <3>3, PlacesIn
  <2>2. CASE \E z \in Tasks \ b.done : \E i \in DOMAIN b.links[z] :
                    p = <<"waitLinks", z, i>> /\ b.links[z][i] = t
    <3>0. PICK z \in Tasks \ b.done : \E i \in DOMAIN b.links[z] :
                    p = <<"waitLinks", z, i>> /\ b.links[z][i] = t
      BY <2>2
    <3>1. PICK i \in DOMAIN b.links[z] : p = <<"waitLinks", z, i>> /\ b.links[z][i] = t
      BY <3>0
    <3>2. CASE z = x
      <4>1. f[p] = <<"ready", NoTask, n + i>>
        BY <3>1, <3>2
      <4>2. n + i \in DOMAIN c.ready /\ c.ready[n + i] = t
        BY <1>14, <1>15, <3>1, <3>2
      <4> QED  BY <1>0, <4>1, <4>2, PlacesIn
    <3>3. CASE z # x
      <4>1. f[p] = p
        BY <3>1, <3>3
      <4>2. z \in Tasks \ c.done /\ c.links[z] = b.links[z]
        BY <1>0, <1>1, <3>3
      <4> QED  BY <1>0, <3>1, <4>1, <4>2, PlacesIn
    <3> QED  BY <3>2, <3>3
  <2>3. CASE p[1] \notin {"ready", "waitLinks"}
    <3>1. f[p] = p
      BY <2>3
    <3> QED  BY <1>0, <2>3, <3>1, PlacesIn
  <2> HIDE DEF f
  <2> QED  BY <2>1, <2>2, <2>3, PlacesIn
<1>5. ASSUME NEW q \in Q PROVE \E p \in P : q = f[p]
  <2>1. CASE \E i \in DOMAIN c.ready : q = <<"ready", NoTask, i>> /\ c.ready[i] = t
    <3>1. PICK i \in DOMAIN c.ready : q = <<"ready", NoTask, i>> /\ c.ready[i] = t
      BY <2>1
    <3>2. CASE i <= n
      <4>1. i \in DOMAIN b.ready /\ b.ready[i] = t
        BY <1>14, <1>15, <3>1, <3>2
      <4>2. q \in P
        BY <3>1, <4>1, PlacesIn
      <4>3. q[1] # "waitLinks"
        BY <3>1
      <4> QED  BY <4>2, <4>3
    <3>3. CASE i > n
      <4>1. i - n \in DOMAIN b.links[x] /\ b.links[x][i - n] = t /\ n + (i - n) = i
        BY <1>12, <1>14, <1>15, <3>1, <3>3
      <4> DEFINE p == <<"waitLinks", x, i - n>>
      <4>2. p \in P
        BY <1>1, <4>1, PlacesIn
      <4>3. f[p] = <<"ready", NoTask, n + (i - n)>>
        BY <4>2
      <4> QED  BY <3>1, <4>1, <4>2, <4>3
    <3>4. i \in Nat /\ n \in Nat
      BY <1>12, <1>14, <1>15, <3>1
    <3> QED  BY <3>2, <3>3, <3>4
  <2>2. CASE \E z \in Tasks \ c.done : \E i \in DOMAIN c.links[z] :
                    q = <<"waitLinks", z, i>> /\ c.links[z][i] = t
    <3>0. PICK z \in Tasks \ c.done : \E i \in DOMAIN c.links[z] :
                    q = <<"waitLinks", z, i>> /\ c.links[z][i] = t
      BY <2>2
    <3>1. PICK i \in DOMAIN c.links[z] : q = <<"waitLinks", z, i>> /\ c.links[z][i] = t
      BY <3>0
    <3>2. z # x /\ z \in Tasks \ b.done /\ c.links[z] = b.links[z]
      BY <1>0, <1>1
    <3>3. q \in P
      BY <3>1, <3>2, PlacesIn
    <3>4. q[2] # x
      BY <3>1, <3>2
    <3> QED  BY <3>3, <3>4
  <2>3. CASE q[1] \notin {"ready", "waitLinks"}
    <3>1. q \in P
      BY <1>0, <2>3, PlacesIn
    <3> QED  BY <2>3, <3>1
  <2>4. \/ \E i \in DOMAIN c.ready : q = <<"ready", NoTask, i>> /\ c.ready[i] = t
        \/ \E z \in Tasks \ c.done : \E i \in DOMAIN c.links[z] :
              q = <<"waitLinks", z, i>> /\ c.links[z][i] = t
        \/ q[1] \notin {"ready", "waitLinks"}
    <3>1. \/ \E i \in DOMAIN c.ready : q = <<"ready", NoTask, i>> /\ c.ready[i] = t
          \/ \E i \in DOMAIN c.timers : q = <<"timers", NoTask, i>> /\ c.timers[i].task = t
          \/ \E i \in DOMAIN c.ioWaits : q = <<"ioWaits", NoTask, i>> /\ c.ioWaits[i] = t
          \/ \E z \in Tasks \ c.done : \E i \in DOMAIN c.links[z] :
                    q = <<"waitLinks", z, i>> /\ c.links[z][i] = t
          \/ \E j \in D : q = <<"rest", NoTask, j>> /\ e[j] = t
      BY PlacesIn
    <3> QED  BY <3>1
  <2> HIDE DEF f, P
  <2> QED  BY <2>1, <2>2, <2>3, <2>4
<1> QED
  <2> HIDE DEF f, P, Q
  <2>1. Placed(Q, t, X)
    BY <1>3, <1>4, <1>5, Renamed
  <2> QED  BY <2>1 DEF Q

(***************************************************************************)
(* _finishSlot: a slot ends, and the gathers it is in are told             *)
(***************************************************************************)

(* Every set of numbers with a member has a least one.                      *)
LEMMA Least ==
    ASSUME NEW T \in SUBSET Nat, T # {}
    PROVE  \E x \in T : \A y \in T : x <= y
<1> DEFINE Less == {p \in Nat \X Nat : p[1] < p[2]}
<1>1. IsWellFoundedOn(Less, Nat)
  BY NatLessThanWellFounded, Zenon DEF OpToRel
<1>2. PICK x \in T : \A y \in T : <<y, x>> \notin Less
  <2> HIDE DEF Less
  <2> QED  BY <1>1, WFMin
<1>3. \A y \in T : ~ (y < x)
  BY <1>2
<1> QED  BY <1>3

(* A set of numbers up to N with 0 in it, and with the successors of its     *)
(* members, has them all.                                                    *)
LEMMA Induction ==
    ASSUME NEW N \in Nat, NEW A, 0 \in A, \A n \in 1 .. N : n - 1 \in A => n \in A
    PROVE  \A n \in 0 .. N : n \in A
<1> DEFINE T == {n \in 0 .. N : n \notin A}
<1>1. SUFFICES ASSUME T # {} PROVE FALSE
  OBVIOUS
<1>2. PICK n \in T : \A y \in T : n <= y
  <2>1. T \in SUBSET Nat
    OBVIOUS
  <2> HIDE DEF T
  <2> QED  BY <1>1, <2>1, Least
<1>3. n \in 1 .. N /\ n - 1 \in 0 .. N /\ n - 1 \notin T
  BY <1>2
<1> QED  BY <1>2, <1>3

(* FinishSlot goes through the links of the gathers one by one.             *)
LEMMA ToldUnfolds ==
    ASSUME NEW b, NEW t, Len(gatherLinks) \in Nat
    PROVE  \E F : /\ F[0] = Ends(b, t)
                  /\ \A n \in 1 .. Len(gatherLinks) :
                       F[n] = IF gatherLinks[n].child = t
                              THEN Tell(F[n - 1], gatherLinks[n]) ELSE F[n - 1]
                  /\ FinishSlot(b, t) = F[Len(gatherLinks)]
<1> DEFINE N == Len(gatherLinks)
           O(n, v) == IF gatherLinks[n].child = t THEN Tell(v, gatherLinks[n]) ELSE v
           Unfolds(f, m) == f = [n \in 0 .. m |-> IF n = 0 THEN Ends(b, t) ELSE O(n, f[n - 1])]
<1>1. FinishSlot(b, t) = (CHOOSE f : Unfolds(f, N))[N]
  BY DEF FinishSlot, Ends
<1> HIDE DEF O
<1>2. \A m \in 0 .. N : \E f : Unfolds(f, m)
  <2> DEFINE A == {m \in 0 .. N : \E f : Unfolds(f, m)}
  <2> HIDE DEF Unfolds
  <2>1. 0 \in A
    <3>1. Unfolds([n \in 0 .. 0 |-> Ends(b, t)], 0)
      BY DEF Unfolds
    <3> QED  BY <3>1
  <2>2. ASSUME NEW m \in 1 .. N, m - 1 \in A
        PROVE  m \in A
    <3>4. m - 1 \in 0 .. N /\ m \in 0 .. N /\ m # 0 /\ m \in Int
      BY <2>2
    <3>5. PICK g : Unfolds(g, m - 1)
      BY <2>2
    <3> DEFINE f == [n \in 0 .. m |-> IF n = m THEN O(m, g[m - 1]) ELSE g[n]]
    <3>6. \A n \in 0 .. m : f[n] = IF n = 0 THEN Ends(b, t) ELSE O(n, f[n - 1])
      <4> TAKE n \in 0 .. m
      <4>1. CASE n = m
        <5>1. f[n] = O(m, g[m - 1]) /\ f[n - 1] = g[m - 1]
          BY <3>4, <4>1
        <5> QED  BY <3>4, <4>1, <5>1
      <4>2. CASE n # m
        <5>1. n \in 0 .. m - 1 /\ (n # 0 => n - 1 \in 0 .. m - 1)
          BY <3>4, <4>2
        <5>2. g[n] = IF n = 0 THEN Ends(b, t) ELSE O(n, g[n - 1])
          BY <3>5, <5>1 DEF Unfolds
        <5>3. f[n] = g[n] /\ (n # 0 => f[n - 1] = g[n - 1])
          BY <3>4, <4>2, <5>1
        <5> QED  BY <5>2, <5>3
      <4> QED  BY <4>1, <4>2
    <3>7. Unfolds(f, m)
      <4>1. f = [n \in 0 .. m |-> f[n]]
        OBVIOUS
      <4> HIDE DEF f
      <4> QED  BY <3>6, <4>1 DEF Unfolds
    <3> QED  BY <3>4, <3>7
  <2>3. N \in Nat
    OBVIOUS
  <2>4. \A m \in 0 .. N : m \in A
    <3> HIDE DEF A, N
    <3> QED  BY <2>1, <2>2, <2>3, Induction
  <2> QED  BY <2>4
<1> DEFINE F == CHOOSE f : Unfolds(f, N)
<1>3. Unfolds(F, N)
  <2>1. N \in 0 .. N
    OBVIOUS
  <2> HIDE DEF Unfolds
  <2> QED  BY <1>2, <2>1
<1> HIDE DEF F
<1>4. F[0] = Ends(b, t) /\ \A n \in 1 .. N : F[n] = O(n, F[n - 1])
  BY <1>3
<1>5. F[0] = Ends(b, t) /\ \A n \in 1 .. N : F[n] = IF gatherLinks[n].child = t
                              THEN Tell(F[n - 1], gatherLinks[n]) ELSE F[n - 1]
  BY <1>4 DEF O
<1> QED  BY <1>1, <1>5 DEF F

(* The types of a link.                                                     *)
LEMMA LinkTypes ==
    ASSUME LinksOK, NEW k \in DOMAIN gatherLinks
    PROVE  LET l == gatherLinks[k]
           IN  /\ l.gather \in Known /\ l.index \in 1 .. MaxChildren /\ l.child \in Known
               /\ kind[l.gather] = "gather" /\ l.index \in Indexes(l.gather)
               /\ k \in 1 .. Len(gatherLinks)
<1>1. gatherLinks[k] \in [gather : Known, index : 1..MaxChildren, child : Known]
  <2> DEFINE S == [gather : Known, index : 1..MaxChildren, child : Known]
  <2>1. gatherLinks \in Seq(S)
    BY DEF LinksOK
  <2> HIDE DEF S
  <2>2. gatherLinks[k] \in S
    BY <2>1, LenProperties, ElementOfSeq
  <2> QED  BY <2>2 DEF S
<1>2. gatherLinks[k] \in ToSet(gatherLinks)
  BY DEF ToSet
<1>3. k \in 1 .. Len(gatherLinks)
  BY DEF LinksOK
<1> QED  BY <1>1, <1>2, <1>3 DEF LinksOK, Indexes

(* A gather has finitely many indexes.                                      *)
LEMMA IndexesFinite ==
    ASSUME NEW g, NEW A
    PROVE  IsFiniteSet(Indexes(g) \ A) /\ Cardinality(Indexes(g) \ A) \in Nat
<1>1. IsFiniteSet(1 .. MaxChildren)
  BY SchedulerAssumption, FS_Interval
<1>2. Indexes(g) \ A \subseteq 1 .. MaxChildren
  BY DEF Indexes
<1> QED  BY <1>1, <1>2, FS_Subset, FS_CardinalityType

(* The places are those of the lists and of what is done.                   *)
LEMMA SameLists ==
    ASSUME NEW b, NEW c, c.done = b.done, c.ready = b.ready, c.links = b.links,
           c.timers = b.timers, c.ioWaits = b.ioWaits
    PROVE  \A D, e, u : Places(c, D, e, u) = Places(b, D, e, u)
<1>1. \A u : Tickets(c, u) = Tickets(b, u)
  BY DEF Tickets
<1> QED  BY <1>1 DEF Places

(* The counts of the gathers have no part in the places.                    *)
LEMMA SamePlaces ==
    ASSUME NEW b, NEW c, NEW D, NEW e, NEW X, c.done = b.done, c.ready = b.ready,
           c.links = b.links, c.timers = b.timers, c.ioWaits = b.ioWaits,
           AllPlaced(b, D, e, X)
    PROVE  AllPlaced(c, D, e, X)
BY SameLists DEF AllPlaced

(* markDone and the wake-up of a slot that no gather is told of yet.         *)
LEMMA EndsGathers ==
    ASSUME LinksOK, NEW b \in Boards, NEW t \in Known, kind[t] # "gather", t \notin b.done,
           Gathers(b, {})
    PROVE  Gathers(Ends(b, t), {k \in DOMAIN gatherLinks : gatherLinks[k].child = t})
<1>1. /\ Ends(b, t).done = b.done \union {t}
      /\ Ends(b, t).pending = b.pending /\ Ends(b, t).filled = b.filled
  BY EndsFields
<1> QED  BY <1>1, LinkTypes DEF Gathers

(* What telling a gather does to a board: at most gathers end.              *)
TellEffect(b, c) ==
  /\ c \in Boards
  /\ b.done \subseteq c.done
  /\ \A x \in c.done \ b.done : kind[x] = "gather"
  /\ c.timers = b.timers /\ c.ioWaits = b.ioWaits /\ OnlyWakes(b, c)

(* onChildDone of a child with a result counts it, ends the gather with the *)
(* last one, and takes no place away.                                       *)
LEMMA TellKeeps ==
    ASSUME LinksOK, NEW b \in Boards, NEW K, NEW k \in K, k \in DOMAIN gatherLinks,
           gatherLinks[k].child \in b.done \ failed, Gathers(b, K)
    PROVE  /\ TellEffect(b, Tell(b, gatherLinks[k]))
           /\ Gathers(Tell(b, gatherLinks[k]), K \ {k})
           /\ \A D, e, X : AllPlaced(b, D, e, X) => AllPlaced(Tell(b, gatherLinks[k]), D, e, X)
<1> DEFINE l == gatherLinks[k]
           left == b.pending[l.gather] - 1
           told == [b EXCEPT !.filled[l.gather] = @ \union {l.index},
                             !.pending[l.gather] = left]
<1>0. /\ l.gather \in Known /\ l.index \in 1 .. MaxChildren /\ l.child \in Known
      /\ kind[l.gather] = "gather" /\ l.index \in Indexes(l.gather)
      /\ Known \subseteq Tasks
  BY LinkTypes DEF Known
<1>1. /\ b.filled \in [Tasks -> SUBSET (1 .. MaxChildren)] /\ b.pending \in [Tasks -> Int]
      /\ b.done \in SUBSET Known
  BY DEF Boards
<1>2. /\ told.done = b.done /\ told.ready = b.ready /\ told.links = b.links
      /\ told.timers = b.timers /\ told.ioWaits = b.ioWaits
      /\ told.filled = [b.filled EXCEPT ![l.gather] = b.filled[l.gather] \union {l.index}]
      /\ told.pending = [b.pending EXCEPT ![l.gather] = left]
      /\ told \in Boards
  <2> DEFINE F == [b.filled EXCEPT ![l.gather] = b.filled[l.gather] \union {l.index}]
             N == [b.pending EXCEPT ![l.gather] = left]
  <2>1. F \in [Tasks -> SUBSET (1 .. MaxChildren)] /\ N \in [Tasks -> Int]
    BY <1>0, <1>1
  <2>2. told = [b EXCEPT !.filled = F, !.pending = N]
    BY DEF Boards
  <2> HIDE DEF F, N, told
  <2>3. /\ told.done = b.done /\ told.ready = b.ready /\ told.links = b.links
        /\ told.timers = b.timers /\ told.ioWaits = b.ioWaits
        /\ told.filled = F /\ told.pending = N
    BY <2>2 DEF Boards
  <2>4. told \in Boards
    BY <2>1, <2>2 DEF Boards
  <2> QED  BY <2>3, <2>4 DEF F, N
<1>3. Tell(b, l) = IF left = 0 THEN Ends(told, l.gather) ELSE told
  BY DEF Tell, Ends
<1>4. /\ l.index \notin b.filled[l.gather]
      /\ b.pending[l.gather] = Cardinality(Indexes(l.gather) \ b.filled[l.gather])
      /\ l.gather \in b.done <=> b.pending[l.gather] = 0
  BY <1>0 DEF Gathers
<1>5. /\ left = Cardinality(Indexes(l.gather) \ (b.filled[l.gather] \union {l.index}))
      /\ l.gather \notin b.done
  <2> DEFINE A == Indexes(l.gather) \ b.filled[l.gather]
  <2>1. IsFiniteSet(A) /\ l.index \in A /\ Cardinality(A) \in Nat
    BY <1>0, <1>4, IndexesFinite
  <2>2. Cardinality(A \ {l.index}) = Cardinality(A) - 1
    BY <2>1, FS_RemoveElement
  <2>3. A \ {l.index} = Indexes(l.gather) \ (b.filled[l.gather] \union {l.index})
    OBVIOUS
  <2>4. Cardinality(A) # 0
    BY <2>1, FS_EmptySet
  <2> QED  BY <1>4, <2>1, <2>2, <2>3, <2>4
<1> HIDE DEF told, left
<1> DEFINE c == Tell(b, l)
<1> HIDE DEF c
<1>61. c = IF left = 0 THEN Ends(told, l.gather) ELSE told
  BY <1>3 DEF c
<1>62. ASSUME left = 0
      PROVE  /\ c.filled = told.filled /\ c.pending = told.pending /\ c \in Boards
             /\ c.done = b.done \union {l.gather}
             /\ c.timers = b.timers /\ c.ioWaits = b.ioWaits /\ OnlyWakes(b, c)
  <2>1. c = Ends(told, l.gather) /\ told \in Boards /\ l.gather \in Known
    BY <1>0, <1>2, <1>61, <1>62
  <2>2. /\ c.filled = told.filled /\ c.pending = told.pending /\ c \in Boards
        /\ c.done = told.done \union {l.gather}
        /\ c.timers = told.timers /\ c.ioWaits = told.ioWaits /\ OnlyWakes(told, c)
    BY <2>1, EndsFields
  <2>3. OnlyWakes(b, c)
    BY <1>2, <2>2 DEF OnlyWakes
  <2> QED  BY <2>2, <2>3, <1>2, <1>62
<1>63. ASSUME left # 0
      PROVE  /\ c.filled = told.filled /\ c.pending = told.pending /\ c \in Boards
             /\ c.done = b.done /\ c.timers = b.timers /\ c.ioWaits = b.ioWaits
             /\ OnlyWakes(b, c)
  BY <1>2, <1>61, <1>63 DEF OnlyWakes
<1>6. /\ c.filled = told.filled /\ c.pending = told.pending /\ c \in Boards
      /\ c.done = (IF left = 0 THEN b.done \union {l.gather} ELSE b.done)
      /\ c.timers = b.timers /\ c.ioWaits = b.ioWaits /\ OnlyWakes(b, c)
  BY <1>2, <1>62, <1>63
<1>7. TellEffect(b, c)
  BY <1>0, <1>6 DEF TellEffect
<1>8. \A D, e, X : AllPlaced(b, D, e, X) => AllPlaced(c, D, e, X)
  <2> SUFFICES ASSUME NEW D, NEW e, NEW X, AllPlaced(b, D, e, X)
               PROVE  AllPlaced(c, D, e, X)
    OBVIOUS
  <2>1. AllPlaced(told, D, e, X)
    BY <1>2, SamePlaces
  <2>2. AllPlaced(Ends(told, l.gather), D, e, X)
    BY <1>0, <1>2, <1>5, <2>1, EndsPlaces
  <2> QED  BY <1>61, <2>1, <2>2
<1>9. Gathers(c, K \ {k})
  <2>1. ASSUME NEW g \in Known, kind[g] = "gather"
        PROVE  /\ c.pending[g] = Cardinality(Indexes(g) \ c.filled[g])
               /\ (g \in c.done) <=> (c.pending[g] = 0)
    <3>1. /\ b.pending[g] = Cardinality(Indexes(g) \ b.filled[g])
          /\ (g \in b.done) <=> (b.pending[g] = 0)
      BY <2>1 DEF Gathers
    <3>2. CASE g = l.gather
      <4>1. c.pending[g] = left /\ c.filled[g] = b.filled[g] \union {l.index}
        BY <1>0, <1>1, <1>2, <1>6, <3>2
      <4> QED  BY <1>5, <1>6, <3>2, <4>1
    <3>3. CASE g # l.gather
      <4>1. c.pending[g] = b.pending[g] /\ c.filled[g] = b.filled[g] /\ (g \in c.done <=> g \in b.done)
        BY <1>0, <1>1, <1>2, <1>6, <3>3
      <4> QED  BY <3>1, <4>1
    <3> QED  BY <3>2, <3>3
  <2>2. ASSUME NEW m \in DOMAIN gatherLinks
        PROVE  LET o == gatherLinks[m]
                   full == o.index \in c.filled[o.gather]
               IN  /\ full => o.child \in c.done \ failed
                   /\ m \in K \ {k} => ~full
                   /\ o.child \in c.done \ failed =>
                        full \/ kind[o.child] = "gather" \/ m \in K \ {k}
    <3> DEFINE o == gatherLinks[m]
    <3>1. /\ o.index \in b.filled[o.gather] => o.child \in b.done \ failed
          /\ m \in K => o.index \notin b.filled[o.gather]
          /\ o.child \in b.done \ failed =>
               o.index \in b.filled[o.gather] \/ kind[o.child] = "gather" \/ m \in K
      BY DEF Gathers
    <3>2. o.gather \in Known /\ o.child \in Known
      BY LinkTypes
    <3>3. o.child \in c.done => o.child \in b.done \/ kind[o.child] = "gather"
      BY <1>0, <1>6
    <3>4. b.done \subseteq c.done
      BY <1>6
    <3>5. CASE m = k
      <4>1. o.index \in c.filled[o.gather]
        BY <1>0, <1>1, <1>2, <1>6, <3>5
      <4>2. o.child \in c.done \ failed
        BY <1>6, <3>5
      <4> QED  BY <3>5, <4>1, <4>2
    <3>6. CASE m # k
      <4>1. o.gather # l.gather \/ o.index # l.index
        BY <3>6 DEF LinksOK
      <4>2. o.index \in c.filled[o.gather] <=> o.index \in b.filled[o.gather]
        BY <1>0, <1>1, <1>2, <1>6, <3>2, <4>1
      <4> QED  BY <3>1, <3>3, <3>4, <3>6, <4>2
    <3> QED  BY <3>5, <3>6
  <2> QED  BY <2>1, <2>2 DEF Gathers
<1> QED  BY <1>7, <1>8, <1>9 DEF c

(* onChildDone of a child whose job failed raises: the board stays, and the *)
(* index stays empty.                                                       *)
LEMMA TellRaises ==
    ASSUME NEW b \in Boards, NEW K, NEW k \in K, k \in DOMAIN gatherLinks,
           gatherLinks[k].child \in failed, Gathers(b, K)
    PROVE  /\ TellEffect(b, Tell(b, gatherLinks[k]))
           /\ Gathers(Tell(b, gatherLinks[k]), K \ {k})
           /\ \A D, e, X : AllPlaced(b, D, e, X) => AllPlaced(Tell(b, gatherLinks[k]), D, e, X)
<1>1. Tell(b, gatherLinks[k]) = b
  BY DEF Tell
<1>2. TellEffect(b, b)
  BY DEF TellEffect, OnlyWakes
<1>3. Gathers(b, K \ {k})
  BY DEF Gathers
<1> QED  BY <1>1, <1>2, <1>3

(* What a board keeps while slots finish: all but ready lists, links, done.  *)
FinishEffect(b, t, c) ==
  /\ c \in Boards
  /\ b.done \union {t} \subseteq c.done
  /\ \A x \in c.done \ b.done : x = t \/ kind[x] = "gather"
  /\ c.timers = b.timers /\ c.ioWaits = b.ioWaits /\ OnlyWakes(b, c)

(* A slot that is no gather finishes: it is done, all of its gathers have   *)
(* been told, and every other slot is still in one place.                   *)
LEMMA FinishSlotKeeps ==
    ASSUME LinksOK, NEW b \in Boards, NEW t \in Known, kind[t] # "gather", t \notin b.done,
           Gathers(b, {})
    PROVE  /\ FinishEffect(b, t, FinishSlot(b, t))
           /\ Gathers(FinishSlot(b, t), {})
           /\ \A D, e, X : AllPlaced(b, D, e, X) => AllPlaced(FinishSlot(b, t), D, e, X)
<1> DEFINE N == Len(gatherLinks)
           Due(n) == {k \in DOMAIN gatherLinks : gatherLinks[k].child = t /\ k > n}
           OK(c, n) == /\ FinishEffect(b, t, c)
                       /\ Gathers(c, Due(n))
                       /\ \A D, e, X : AllPlaced(b, D, e, X) => AllPlaced(c, D, e, X)
<1>1. N \in Nat /\ DOMAIN gatherLinks = 1 .. N
  <2> DEFINE S == [gather : Known, index : 1..MaxChildren, child : Known]
  <2>1. gatherLinks \in Seq(S)
    BY DEF LinksOK
  <2> HIDE DEF S
  <2> QED  BY <2>1, LenProperties
<1>2. PICK F : /\ F[0] = Ends(b, t)
               /\ \A n \in 1 .. N : F[n] = IF gatherLinks[n].child = t
                                           THEN Tell(F[n - 1], gatherLinks[n]) ELSE F[n - 1]
               /\ FinishSlot(b, t) = F[N]
  BY <1>1, ToldUnfolds
<1>3. OK(F[0], 0)
  <2>1. Due(0) = {k \in DOMAIN gatherLinks : gatherLinks[k].child = t}
    BY <1>1
  <2>2. Gathers(F[0], Due(0))
    BY <1>2, <2>1, EndsGathers
  <2>3. FinishEffect(b, t, F[0])
    <3>1. /\ Ends(b, t) \in Boards /\ Ends(b, t).done = b.done \union {t}
          /\ Ends(b, t).timers = b.timers /\ Ends(b, t).ioWaits = b.ioWaits
          /\ OnlyWakes(b, Ends(b, t))
      BY EndsFields
    <3> QED  BY <1>2, <3>1 DEF FinishEffect
  <2>4. \A D, e, X : AllPlaced(b, D, e, X) => AllPlaced(F[0], D, e, X)
    BY <1>2, EndsPlaces
  <2> QED  BY <2>2, <2>3, <2>4
<1>4. ASSUME NEW n \in 1 .. N, OK(F[n - 1], n - 1)
      PROVE  OK(F[n], n)
  <2> DEFINE c == F[n - 1]
  <2>1. c \in Boards /\ t \in c.done /\ Gathers(c, Due(n - 1))
    BY <1>4 DEF FinishEffect
  <2>2. CASE gatherLinks[n].child = t
    <3>1. n \in Due(n - 1) /\ n \in DOMAIN gatherLinks
      BY <1>1, <2>2
    <3>2. F[n] = Tell(c, gatherLinks[n])
      BY <1>2, <2>2
    <3>3. Due(n - 1) \ {n} = Due(n)
      BY <1>1
    <3>4. /\ TellEffect(c, F[n]) /\ Gathers(F[n], Due(n))
          /\ \A D, e, X : AllPlaced(c, D, e, X) => AllPlaced(F[n], D, e, X)
      <4> DEFINE K == Due(n - 1)
      <4>1. c \in Boards /\ gatherLinks[n].child \in c.done /\ Gathers(c, K)
        BY <2>1, <2>2
      <4>2. n \in K /\ n \in DOMAIN gatherLinks /\ Due(n) = K \ {n}
        BY <3>1, <3>3
      <4> HIDE DEF c, K, Due
      <4>3. /\ TellEffect(c, Tell(c, gatherLinks[n])) /\ Gathers(Tell(c, gatherLinks[n]), K \ {n})
            /\ \A D, e, X : AllPlaced(c, D, e, X) => AllPlaced(Tell(c, gatherLinks[n]), D, e, X)
        BY <4>1, <4>2, TellKeeps, TellRaises
      <4> QED  BY <3>2, <4>2, <4>3
    <3>5. FinishEffect(b, t, F[n])
      BY <1>4, <3>4 DEF FinishEffect, TellEffect, OnlyWakes
    <3> QED  BY <1>4, <3>4, <3>5
  <2>3. CASE gatherLinks[n].child # t
    <3>1. Due(n - 1) = Due(n)
      BY <1>1, <2>3
    <3>2. F[n] = c
      BY <1>2, <2>3
    <3> QED  BY <1>4, <3>1, <3>2
  <2> QED  BY <2>2, <2>3
<1> HIDE DEF OK
<1>5. OK(F[N], N)
  <2> DEFINE A == {n \in 0 .. N : OK(F[n], n)}
  <2>1. 0 \in A /\ \A n \in 1 .. N : n - 1 \in A => n \in A
    BY <1>1, <1>3, <1>4
  <2>2. N \in Nat /\ N \in 0 .. N
    BY <1>1
  <2>3. N \in A
    <3> HIDE DEF A, N
    <3> QED  BY <2>1, <2>2, Induction
  <2> QED  BY <2>3
<1>6. Due(N) = {}
  BY <1>1
<1> QED  BY <1>2, <1>5, <1>6 DEF OK

(***************************************************************************)
(* One place more, one place less                                          *)
(***************************************************************************)

(* What an appended entry leaves as it was.                                 *)
LEMMA Appended ==
    ASSUME NEW S, NEW s \in Seq(S), NEW x, NEW v, v = Append(s, x)
    PROVE  /\ Len(s) \in Nat /\ DOMAIN s = 1 .. Len(s) /\ DOMAIN v = 1 .. Len(s) + 1
           /\ \A i \in DOMAIN s : i \in DOMAIN v /\ v[i] = s[i]
           /\ v[Len(s) + 1] = x
           /\ \A i \in DOMAIN v : i \in DOMAIN s \/ i = Len(s) + 1
           /\ Len(s) + 1 \notin DOMAIN s
OBVIOUS

(* The task t has one place more in c than in b, and no other task has.      *)
Adds(b, c, t) ==
  \E q : \A D, e, u :
    Places(c, D, e, u) = IF u = t THEN Places(b, D, e, u) \union {q} ELSE Places(b, D, e, u)

(* The places that are links, and the others.                               *)
AtLink(b, t, p) ==
  \E x \in Tasks \ b.done : \E i \in DOMAIN b.links[x] :
    p = <<"waitLinks", x, i>> /\ b.links[x][i] = t

AtOther(b, D, e, t, p) ==
  \/ \E i \in DOMAIN b.ready : p = <<"ready", NoTask, i>> /\ b.ready[i] = t
  \/ \E i \in DOMAIN b.timers : p = <<"timers", NoTask, i>> /\ b.timers[i].task = t
  \/ \E i \in DOMAIN b.ioWaits : p = <<"ioWaits", NoTask, i>> /\ b.ioWaits[i] = t
  \/ \E j \in D : p = <<"rest", NoTask, j>> /\ e[j] = t

(* There are no more places than these.                                     *)
LEMMA PlacesSplit ==
    ASSUME NEW b, NEW D, NEW e, NEW t, NEW p
    PROVE  p \in Places(b, D, e, t) <=> AtLink(b, t, p) \/ AtOther(b, D, e, t, p)
<1>1. AtLink(b, t, p) => p \in Places(b, D, e, t)
  BY PlacesIn DEF AtLink
<1>2. AtOther(b, D, e, t, p) => p \in Places(b, D, e, t)
  BY PlacesIn DEF AtOther
<1>3. p \in Places(b, D, e, t) => AtLink(b, t, p) \/ AtOther(b, D, e, t, p)
  BY PlacesIn DEF AtLink, AtOther
<1> QED  BY <1>1, <1>2, <1>3

(* A slot gets a place: at the end of `ready',                              *)
LEMMA AddReady ==
    ASSUME NEW b \in Boards, NEW c, NEW t, c.ready = Append(b.ready, t),
           \A z \in Tasks \ b.done : c.links[z] = b.links[z],
           c.done = b.done, c.timers = b.timers, c.ioWaits = b.ioWaits
    PROVE  Adds(b, c, t)
<1> DEFINE s == b.ready
           v == c.ready
           q == <<"ready", NoTask, Len(s) + 1>>
<1>1. s \in Seq(Runnable) /\ v = Append(s, t)
  BY DEF Boards
<1>2. s = b.ready /\ v = c.ready
  OBVIOUS
<1> HIDE DEF s, v
<1>3. /\ \A i \in DOMAIN s : i \in DOMAIN v /\ v[i] = s[i]
      /\ Len(s) + 1 \in DOMAIN v /\ v[Len(s) + 1] = t
      /\ \A i \in DOMAIN v : i \in DOMAIN s \/ i = Len(s) + 1
  BY <1>1, Appended
<1>4. ASSUME NEW D, NEW e, NEW u
      PROVE  Places(c, D, e, u) = IF u = t THEN Places(b, D, e, u) \union {q} ELSE Places(b, D, e, u)
  <2>1. ASSUME NEW p
        PROVE  p \in Places(c, D, e, u) <=> p \in Places(b, D, e, u) \/ (u = t /\ p = q)
    <3>1. (\E i \in DOMAIN v : p = <<"ready", NoTask, i>> /\ v[i] = u) <=>
            (\E i \in DOMAIN s : p = <<"ready", NoTask, i>> /\ s[i] = u) \/ (u = t /\ p = q)
      BY <1>3
    <3>2. (\E i \in DOMAIN c.ready : p = <<"ready", NoTask, i>> /\ c.ready[i] = u) <=>
            (\E i \in DOMAIN b.ready : p = <<"ready", NoTask, i>> /\ b.ready[i] = u) \/ (u = t /\ p = q)
      BY <1>2, <3>1
    <3> HIDE DEF q
    <3>3. AtOther(c, D, e, u, p) <=> AtOther(b, D, e, u, p) \/ (u = t /\ p = q)
      BY <3>2 DEF AtOther
    <3>4. AtLink(c, u, p) <=> AtLink(b, u, p)
      BY DEF AtLink
    <3> QED  BY <3>3, <3>4, PlacesSplit
  <2> QED  BY <2>1
<1> QED  BY <1>4 DEF Adds

(* ... among the timers,                                                    *)
LEMMA AddTimer ==
    ASSUME NEW b \in Boards, NEW c, NEW t, NEW n, c.done = b.done,
           c.timers = Append(b.timers, [task |-> t, left |-> n]),
           c.ready = b.ready, c.links = b.links, c.ioWaits = b.ioWaits
    PROVE  Adds(b, c, t)
<1> DEFINE E == [task : Timed, left : 1..MaxPeriods]
           s == b.timers
           v == c.timers
           q == <<"timers", NoTask, Len(s) + 1>>
<1>1. s \in Seq(E) /\ v = Append(s, [task |-> t, left |-> n])
  BY DEF Boards
<1>2. s = b.timers /\ v = c.timers
  OBVIOUS
<1> HIDE DEF s, v, E
<1>3. /\ \A i \in DOMAIN s : i \in DOMAIN v /\ v[i] = s[i]
      /\ Len(s) + 1 \in DOMAIN v /\ v[Len(s) + 1] = [task |-> t, left |-> n]
      /\ \A i \in DOMAIN v : i \in DOMAIN s \/ i = Len(s) + 1
  BY <1>1, Appended
<1>4. ASSUME NEW D, NEW e, NEW u
      PROVE  Places(c, D, e, u) = IF u = t THEN Places(b, D, e, u) \union {q} ELSE Places(b, D, e, u)
  <2>1. ASSUME NEW p
        PROVE  p \in Places(c, D, e, u) <=> p \in Places(b, D, e, u) \/ (u = t /\ p = q)
    <3>1. (\E i \in DOMAIN v : p = <<"timers", NoTask, i>> /\ v[i].task = u) <=>
            (\E i \in DOMAIN s : p = <<"timers", NoTask, i>> /\ s[i].task = u) \/ (u = t /\ p = q)
      BY <1>3
    <3>2. (\E i \in DOMAIN c.timers : p = <<"timers", NoTask, i>> /\ c.timers[i].task = u) <=>
            (\E i \in DOMAIN b.timers : p = <<"timers", NoTask, i>> /\ b.timers[i].task = u) \/ (u = t /\ p = q)
      BY <1>2, <3>1
    <3> HIDE DEF q
    <3> QED  BY <3>2, PlacesIn
  <2> QED  BY <2>1
<1> QED  BY <1>4 DEF Adds

(* ... among the handles,                                                   *)
LEMMA AddIo ==
    ASSUME NEW b \in Boards, NEW c, NEW t, c.ioWaits = Append(b.ioWaits, t),
           c.done = b.done, c.links = b.links, c.timers = b.timers, c.ready = b.ready
    PROVE  Adds(b, c, t)
<1> DEFINE s == b.ioWaits
           v == c.ioWaits
           q == <<"ioWaits", NoTask, Len(s) + 1>>
<1>1. s \in Seq(Handled) /\ v = Append(s, t)
  BY DEF Boards
<1>2. s = b.ioWaits /\ v = c.ioWaits
  OBVIOUS
<1> HIDE DEF s, v
<1>3. /\ \A i \in DOMAIN s : i \in DOMAIN v /\ v[i] = s[i]
      /\ Len(s) + 1 \in DOMAIN v /\ v[Len(s) + 1] = t
      /\ \A i \in DOMAIN v : i \in DOMAIN s \/ i = Len(s) + 1
  BY <1>1, Appended
<1>4. ASSUME NEW D, NEW e, NEW u
      PROVE  Places(c, D, e, u) = IF u = t THEN Places(b, D, e, u) \union {q} ELSE Places(b, D, e, u)
  <2>1. ASSUME NEW p
        PROVE  p \in Places(c, D, e, u) <=> p \in Places(b, D, e, u) \/ (u = t /\ p = q)
    <3>1. (\E i \in DOMAIN v : p = <<"ioWaits", NoTask, i>> /\ v[i] = u) <=>
            (\E i \in DOMAIN s : p = <<"ioWaits", NoTask, i>> /\ s[i] = u) \/ (u = t /\ p = q)
      BY <1>3
    <3>2. (\E i \in DOMAIN c.ioWaits : p = <<"ioWaits", NoTask, i>> /\ c.ioWaits[i] = u) <=>
            (\E i \in DOMAIN b.ioWaits : p = <<"ioWaits", NoTask, i>> /\ b.ioWaits[i] = u) \/ (u = t /\ p = q)
      BY <1>2, <3>1
    <3> HIDE DEF q
    <3> QED  BY <3>2, PlacesIn
  <2> QED  BY <2>1
<1> QED  BY <1>4 DEF Adds

(* A link to a target that is not done.                                      *)
LEMMA AddLink ==
    ASSUME NEW b \in Boards, NEW c, NEW t, NEW x \in Tasks \ b.done,
           c.links = [b.links EXCEPT ![x] = Append(@, t)],
           c.done = b.done, c.ready = b.ready, c.timers = b.timers, c.ioWaits = b.ioWaits
    PROVE  Adds(b, c, t)
<1> DEFINE s == b.links[x]
           v == c.links[x]
           q == <<"waitLinks", x, Len(s) + 1>>
<1>0. b.links \in [Tasks -> Seq(Runnable)]
  BY DEF Boards
<1>1. s \in Seq(Runnable) /\ v = Append(s, t)
  BY <1>0
<1>2. s = b.links[x] /\ v = c.links[x] /\ \A z \in Tasks : z # x => c.links[z] = b.links[z]
  BY <1>0
<1> HIDE DEF s, v
<1>3. /\ \A i \in DOMAIN s : i \in DOMAIN v /\ v[i] = s[i]
      /\ Len(s) + 1 \in DOMAIN v /\ v[Len(s) + 1] = t
      /\ \A i \in DOMAIN v : i \in DOMAIN s \/ i = Len(s) + 1
  BY <1>1, Appended
<1>4. ASSUME NEW D, NEW e, NEW u
      PROVE  Places(c, D, e, u) = IF u = t THEN Places(b, D, e, u) \union {q} ELSE Places(b, D, e, u)
  <2>1. ASSUME NEW p
        PROVE  p \in Places(c, D, e, u) <=> p \in Places(b, D, e, u) \/ (u = t /\ p = q)
    <3> DEFINE B(z) == \E i \in DOMAIN b.links[z] : p = <<"waitLinks", z, i>> /\ b.links[z][i] = u
               C(z) == \E i \in DOMAIN c.links[z] : p = <<"waitLinks", z, i>> /\ c.links[z][i] = u
    <3>1. (\E i \in DOMAIN v : p = <<"waitLinks", x, i>> /\ v[i] = u) <=>
            (\E i \in DOMAIN s : p = <<"waitLinks", x, i>> /\ s[i] = u) \/ (u = t /\ p = q)
      BY <1>3
    <3>2. C(x) <=> B(x) \/ (u = t /\ p = q)
      BY <1>2, <3>1
    <3>3. \A z \in Tasks : z # x => (C(z) <=> B(z))
      BY <1>2
    <3> HIDE DEF B, C
    <3>4. (\E z \in Tasks \ c.done : C(z)) <=> (\E z \in Tasks \ b.done : B(z)) \/ (u = t /\ p = q)
      BY <3>2, <3>3
    <3>5. AtLink(c, u, p) <=> AtLink(b, u, p) \/ (u = t /\ p = q)
      BY <3>4 DEF B, C, AtLink
    <3>6. AtOther(c, D, e, u, p) <=> AtOther(b, D, e, u, p)
      BY DEF AtOther
    <3> HIDE DEF q
    <3> QED  BY <3>5, <3>6, PlacesSplit
  <2> QED  BY <2>1
<1> QED  BY <1>4 DEF Adds

(* An entry still to be looked at is dropped, or moves to a list of c.       *)
LEMMA DropRest ==
    ASSUME NEW b \in Boards, NEW D, NEW e, NEW X, NEW j \in D,
           AllPlaced(b, D, e, X), e[j] \in b.done
    PROVE  AllPlaced(b, D \ {j}, e, X)
<1>1. \A u \in Known \ b.done : Places(b, D \ {j}, e, u) = Places(b, D, e, u)
  BY DEF Places
<1> QED  BY <1>1 DEF AllPlaced

(* ... where it is again in one place.                                      *)
LEMMA MoveRest ==
    ASSUME NEW b \in Boards, NEW c \in Boards, NEW D, NEW e, NEW X, NEW j \in D,
           AllPlaced(b, D, e, X), e[j] \notin X, c.done = b.done, Adds(b, c, e[j])
    PROVE  AllPlaced(c, D \ {j}, e, X)
<1>1. PICK q : \A A, u : Places(c, A, e, u) =
                   IF u = e[j] THEN Places(b, A, e, u) \union {q} ELSE Places(b, A, e, u)
  BY DEF Adds
<1> SUFFICES ASSUME NEW u \in Known \ c.done, kind[u] \notin {"gather", "unset"}
             PROVE  Placed(Places(c, D \ {j}, e, u), u, X)
  BY DEF AllPlaced
<1>2. Placed(Places(b, D, e, u), u, X)
  BY DEF AllPlaced
<1>3. CASE u = e[j]
  <2>1. PICK p : Places(b, D, e, u) = {p}
    BY <1>2, <1>3 DEF Placed
  <2> DEFINE r == <<"rest", NoTask, j>>
  <2>2. r \in Places(b, D, e, u)
    BY <1>3 DEF Places
  <2>3. Places(b, D, e, u) = {r}
    BY <2>1, <2>2
  <2>4. Places(b, D \ {j}, e, u) \subseteq Places(b, D, e, u)
    BY DEF Places
  <2>5. r \notin Places(b, D \ {j}, e, u)
    BY PlacesIn
  <2>6. Places(b, D \ {j}, e, u) = {}
    BY <2>3, <2>4, <2>5
  <2>7. Places(c, D \ {j}, e, u) = {q}
    BY <1>1, <1>3, <2>6
  <2> QED  BY <1>3, <2>7 DEF Placed
<1>4. CASE u # e[j]
  <2>1. Places(c, D \ {j}, e, u) = Places(b, D \ {j}, e, u)
    BY <1>1, <1>4
  <2>2. Places(b, D \ {j}, e, u) = Places(b, D, e, u)
    BY <1>4 DEF Places
  <2> QED  BY <1>2, <2>1, <2>2
<1> QED  BY <1>3, <1>4

(***************************************************************************)
(* _tick: the entries of both lists are gone through                       *)
(***************************************************************************)

(* FireAllIo goes through the entries one by one.                           *)
LEMMA IoUnfolds ==
    ASSUME NEW b, NEW arrived, Len(ioWaits) \in Nat
    PROVE  \E F : /\ F[0] = [b EXCEPT !.ioWaits = <<>>]
                  /\ \A n \in 1 .. Len(ioWaits) : F[n] = FireIo(F[n - 1], ioWaits[n], arrived)
                  /\ FireAllIo(b, arrived) = F[Len(ioWaits)]
<1> DEFINE N == Len(ioWaits)
           O(n, v) == FireIo(v, ioWaits[n], arrived)
           Unfolds(f, m) == f = [n \in 0 .. m |-> IF n = 0 THEN [b EXCEPT !.ioWaits = <<>>] ELSE O(n, f[n - 1])]
<1>1. FireAllIo(b, arrived) = (CHOOSE f : Unfolds(f, N))[N]
  BY DEF FireAllIo
<1> HIDE DEF O
<1>2. \A m \in 0 .. N : \E f : Unfolds(f, m)
  <2> DEFINE A == {m \in 0 .. N : \E f : Unfolds(f, m)}
  <2> HIDE DEF Unfolds
  <2>1. 0 \in A
    <3>1. Unfolds([n \in 0 .. 0 |-> [b EXCEPT !.ioWaits = <<>>]], 0)
      BY DEF Unfolds
    <3> QED  BY <3>1
  <2>2. ASSUME NEW m \in 1 .. N, m - 1 \in A
        PROVE  m \in A
    <3>4. m - 1 \in 0 .. N /\ m \in 0 .. N /\ m # 0 /\ m \in Int
      BY <2>2
    <3>5. PICK g : Unfolds(g, m - 1)
      BY <2>2
    <3> DEFINE f == [n \in 0 .. m |-> IF n = m THEN O(m, g[m - 1]) ELSE g[n]]
    <3>6. \A n \in 0 .. m : f[n] = IF n = 0 THEN [b EXCEPT !.ioWaits = <<>>] ELSE O(n, f[n - 1])
      <4> TAKE n \in 0 .. m
      <4>1. CASE n = m
        <5>1. f[n] = O(m, g[m - 1]) /\ f[n - 1] = g[m - 1]
          BY <3>4, <4>1
        <5> QED  BY <3>4, <4>1, <5>1
      <4>2. CASE n # m
        <5>1. n \in 0 .. m - 1 /\ (n # 0 => n - 1 \in 0 .. m - 1)
          BY <3>4, <4>2
        <5>2. g[n] = IF n = 0 THEN [b EXCEPT !.ioWaits = <<>>] ELSE O(n, g[n - 1])
          BY <3>5, <5>1 DEF Unfolds
        <5>3. f[n] = g[n] /\ (n # 0 => f[n - 1] = g[n - 1])
          BY <3>4, <4>2, <5>1
        <5> QED  BY <5>2, <5>3
      <4> QED  BY <4>1, <4>2
    <3>7. Unfolds(f, m)
      <4>1. f = [n \in 0 .. m |-> f[n]]
        OBVIOUS
      <4> HIDE DEF f
      <4> QED  BY <3>6, <4>1 DEF Unfolds
    <3> QED  BY <3>4, <3>7
  <2>3. N \in Nat
    OBVIOUS
  <2>4. \A m \in 0 .. N : m \in A
    <3> HIDE DEF A, N
    <3> QED  BY <2>1, <2>2, <2>3, Induction
  <2> QED  BY <2>4
<1> DEFINE F == CHOOSE f : Unfolds(f, N)
<1>3. Unfolds(F, N)
  <2>1. N \in 0 .. N
    OBVIOUS
  <2> HIDE DEF Unfolds
  <2> QED  BY <1>2, <2>1
<1> HIDE DEF F
<1>4. F[0] = [b EXCEPT !.ioWaits = <<>>] /\ \A n \in 1 .. N : F[n] = O(n, F[n - 1])
  BY <1>3
<1>5. F[0] = [b EXCEPT !.ioWaits = <<>>] /\ \A n \in 1 .. N : F[n] = FireIo(F[n - 1], ioWaits[n], arrived)
  BY <1>4 DEF O
<1> QED  BY <1>1, <1>5 DEF F

(* FireAllTimers goes through the entries one by one.                       *)
LEMMA TimersUnfolds ==
    ASSUME NEW b, Len(timers) \in Nat
    PROVE  \E F : /\ F[0] = [b EXCEPT !.timers = <<>>]
                  /\ \A n \in 1 .. Len(timers) : F[n] = FireTimer(F[n - 1], timers[n])
                  /\ FireAllTimers(b) = F[Len(timers)]
<1> DEFINE N == Len(timers)
           O(n, v) == FireTimer(v, timers[n])
           Unfolds(f, m) == f = [n \in 0 .. m |-> IF n = 0 THEN [b EXCEPT !.timers = <<>>] ELSE O(n, f[n - 1])]
<1>1. FireAllTimers(b) = (CHOOSE f : Unfolds(f, N))[N]
  BY DEF FireAllTimers
<1> HIDE DEF O
<1>2. \A m \in 0 .. N : \E f : Unfolds(f, m)
  <2> DEFINE A == {m \in 0 .. N : \E f : Unfolds(f, m)}
  <2> HIDE DEF Unfolds
  <2>1. 0 \in A
    <3>1. Unfolds([n \in 0 .. 0 |-> [b EXCEPT !.timers = <<>>]], 0)
      BY DEF Unfolds
    <3> QED  BY <3>1
  <2>2. ASSUME NEW m \in 1 .. N, m - 1 \in A
        PROVE  m \in A
    <3>4. m - 1 \in 0 .. N /\ m \in 0 .. N /\ m # 0 /\ m \in Int
      BY <2>2
    <3>5. PICK g : Unfolds(g, m - 1)
      BY <2>2
    <3> DEFINE f == [n \in 0 .. m |-> IF n = m THEN O(m, g[m - 1]) ELSE g[n]]
    <3>6. \A n \in 0 .. m : f[n] = IF n = 0 THEN [b EXCEPT !.timers = <<>>] ELSE O(n, f[n - 1])
      <4> TAKE n \in 0 .. m
      <4>1. CASE n = m
        <5>1. f[n] = O(m, g[m - 1]) /\ f[n - 1] = g[m - 1]
          BY <3>4, <4>1
        <5> QED  BY <3>4, <4>1, <5>1
      <4>2. CASE n # m
        <5>1. n \in 0 .. m - 1 /\ (n # 0 => n - 1 \in 0 .. m - 1)
          BY <3>4, <4>2
        <5>2. g[n] = IF n = 0 THEN [b EXCEPT !.timers = <<>>] ELSE O(n, g[n - 1])
          BY <3>5, <5>1 DEF Unfolds
        <5>3. f[n] = g[n] /\ (n # 0 => f[n - 1] = g[n - 1])
          BY <3>4, <4>2, <5>1
        <5> QED  BY <5>2, <5>3
      <4> QED  BY <4>1, <4>2
    <3>7. Unfolds(f, m)
      <4>1. f = [n \in 0 .. m |-> f[n]]
        OBVIOUS
      <4> HIDE DEF f
      <4> QED  BY <3>6, <4>1 DEF Unfolds
    <3> QED  BY <3>4, <3>7
  <2>3. N \in Nat
    OBVIOUS
  <2>4. \A m \in 0 .. N : m \in A
    <3> HIDE DEF A, N
    <3> QED  BY <2>1, <2>2, <2>3, Induction
  <2> QED  BY <2>4
<1> DEFINE F == CHOOSE f : Unfolds(f, N)
<1>3. Unfolds(F, N)
  <2>1. N \in 0 .. N
    OBVIOUS
  <2> HIDE DEF Unfolds
  <2> QED  BY <1>2, <2>1
<1> HIDE DEF F
<1>4. F[0] = [b EXCEPT !.timers = <<>>] /\ \A n \in 1 .. N : F[n] = O(n, F[n - 1])
  BY <1>3
<1>5. F[0] = [b EXCEPT !.timers = <<>>] /\ \A n \in 1 .. N : F[n] = FireTimer(F[n - 1], timers[n])
  BY <1>4 DEF O
<1> QED  BY <1>1, <1>5 DEF F

(* The places in what is still to be looked at.                             *)
LEMMA RestIn ==
    ASSUME NEW b \in Boards, NEW D, NEW e, NEW t, NEW p \in Places(b, D, e, t), p[1] = "rest"
    PROVE  \E j \in D : p = <<"rest", NoTask, j>> /\ e[j] = t
BY PlacesIn

(* The entries of a list that is gone through are what is still to be        *)
(* looked at, in the place of the list.                                      *)
LEMMA IoToRest ==
    ASSUME NEW b \in Boards, NEW c \in Boards, NEW e, NEW e2, NEW X, AllPlaced(b, {}, e, X),
           c = [b EXCEPT !.ioWaits = <<>>], e2 = b.ioWaits
    PROVE  AllPlaced(c, DOMAIN e2, e2, X)
<1>0. /\ c.done = b.done /\ c.ready = b.ready /\ c.links = b.links /\ c.timers = b.timers
      /\ DOMAIN c.ioWaits = {}
  BY DEF Boards
<1> SUFFICES ASSUME NEW t \in Known \ c.done, kind[t] \notin {"gather", "unset"}
             PROVE  Placed(Places(c, DOMAIN e2, e2, t), t, X)
  BY DEF AllPlaced
<1> DEFINE P == Places(b, {}, e, t)
           Q == Places(c, DOMAIN e2, e2, t)
           f == [p \in P |-> IF p[1] = "ioWaits" THEN <<"rest", NoTask, p[3]>> ELSE p]
<1>1. Placed(P, t, X)
  BY <1>0 DEF AllPlaced
<1>2. ASSUME NEW p \in P PROVE f[p] \in Q
  <2>1. CASE p[1] = "ioWaits"
    <3>1. PICK i \in DOMAIN b.ioWaits : p = <<"ioWaits", NoTask, i>> /\ b.ioWaits[i] = t
      BY <2>1, PlacesIn
    <3>2. f[p] = <<"rest", NoTask, i>>
      BY <2>1, <3>1
    <3> QED  BY <3>1, <3>2, PlacesIn
  <2>2. CASE p[1] # "ioWaits"
    <3>1. f[p] = p
      BY <2>2
    <3>2. AtLink(b, t, p) \/ AtOther(b, {}, e, t, p)
      BY PlacesSplit
    <3>3. AtLink(b, t, p) => AtLink(c, t, p)
      BY <1>0 DEF AtLink
    <3>4. AtOther(b, {}, e, t, p) => AtOther(c, DOMAIN e2, e2, t, p)
      BY <1>0, <2>2 DEF AtOther
    <3> QED  BY <3>1, <3>2, <3>3, <3>4, PlacesSplit
  <2> QED  BY <2>1, <2>2
<1>3. ASSUME NEW q \in Q PROVE \E p \in P : q = f[p]
  <2>1. CASE q[1] = "rest"
    <3>1. PICK i \in DOMAIN e2 : q = <<"rest", NoTask, i>> /\ e2[i] = t
      BY <2>1, PlacesIn
    <3> DEFINE p == <<"ioWaits", NoTask, i>>
    <3>2. p \in P
      BY <3>1, PlacesIn
    <3>3. f[p] = <<"rest", NoTask, i>>
      BY <3>2
    <3> QED  BY <3>1, <3>2, <3>3
  <2>2. CASE q[1] # "rest"
    <3>1. AtLink(c, t, q) \/ AtOther(c, DOMAIN e2, e2, t, q)
      BY PlacesSplit
    <3>2. AtLink(c, t, q) => AtLink(b, t, q)
      BY <1>0 DEF AtLink
    <3>3. AtOther(c, DOMAIN e2, e2, t, q) => AtOther(b, {}, e, t, q)
      BY <1>0, <2>2 DEF AtOther
    <3>4. q \in P
      BY <3>1, <3>2, <3>3, PlacesSplit
    <3>5. q[1] # "ioWaits"
      BY <1>0, <3>1 DEF AtLink, AtOther
    <3> QED  BY <3>4, <3>5
  <2> QED  BY <2>1, <2>2
<1> QED
  <2> HIDE DEF f, P, Q
  <2>1. Placed(Q, t, X)
    BY <1>1, <1>2, <1>3, Renamed
  <2> QED  BY <2>1 DEF Q

(* The same of the timers.                                                  *)
LEMMA TimersToRest ==
    ASSUME NEW b \in Boards, NEW c \in Boards, NEW e, NEW e2, NEW X, AllPlaced(b, {}, e, X),
           c = [b EXCEPT !.timers = <<>>], DOMAIN e2 = DOMAIN b.timers,
           \A i \in DOMAIN b.timers : e2[i] = b.timers[i].task
    PROVE  AllPlaced(c, DOMAIN e2, e2, X)
<1>0. /\ c.done = b.done /\ c.ready = b.ready /\ c.links = b.links /\ c.ioWaits = b.ioWaits
      /\ DOMAIN c.timers = {}
  BY DEF Boards
<1> SUFFICES ASSUME NEW t \in Known \ c.done, kind[t] \notin {"gather", "unset"}
             PROVE  Placed(Places(c, DOMAIN e2, e2, t), t, X)
  BY DEF AllPlaced
<1> DEFINE P == Places(b, {}, e, t)
           Q == Places(c, DOMAIN e2, e2, t)
           f == [p \in P |-> IF p[1] = "timers" THEN <<"rest", NoTask, p[3]>> ELSE p]
<1>1. Placed(P, t, X)
  BY <1>0 DEF AllPlaced
<1>2. ASSUME NEW p \in P PROVE f[p] \in Q
  <2>1. CASE p[1] = "timers"
    <3>1. PICK i \in DOMAIN b.timers : p = <<"timers", NoTask, i>> /\ b.timers[i].task = t
      BY <2>1, PlacesIn
    <3>2. f[p] = <<"rest", NoTask, i>>
      BY <2>1, <3>1
    <3>3. i \in DOMAIN e2 /\ e2[i] = t
      BY <3>1
    <3> QED  BY <3>2, <3>3, PlacesIn
  <2>2. CASE p[1] # "timers"
    <3>1. f[p] = p
      BY <2>2
    <3>2. AtLink(b, t, p) \/ AtOther(b, {}, e, t, p)
      BY PlacesSplit
    <3>3. AtLink(b, t, p) => AtLink(c, t, p)
      BY <1>0 DEF AtLink
    <3>4. AtOther(b, {}, e, t, p) => AtOther(c, DOMAIN e2, e2, t, p)
      BY <1>0, <2>2 DEF AtOther
    <3> QED  BY <3>1, <3>2, <3>3, <3>4, PlacesSplit
  <2> QED  BY <2>1, <2>2
<1>3. ASSUME NEW q \in Q PROVE \E p \in P : q = f[p]
  <2>1. CASE q[1] = "rest"
    <3>1. PICK i \in DOMAIN e2 : q = <<"rest", NoTask, i>> /\ e2[i] = t
      BY <2>1, RestIn
    <3> DEFINE p == <<"timers", NoTask, i>>
    <3>2. i \in DOMAIN b.timers /\ b.timers[i].task = t
      BY <3>1
    <3>3. p \in P
      BY <3>2, PlacesIn
    <3>4. f[p] = <<"rest", NoTask, i>>
      BY <3>3
    <3> QED  BY <3>1, <3>3, <3>4
  <2>2. CASE q[1] # "rest"
    <3>1. AtLink(c, t, q) \/ AtOther(c, DOMAIN e2, e2, t, q)
      BY PlacesSplit
    <3>2. AtLink(c, t, q) => AtLink(b, t, q)
      BY <1>0 DEF AtLink
    <3>3. AtOther(c, DOMAIN e2, e2, t, q) => AtOther(b, {}, e, t, q)
      BY <1>0, <2>2 DEF AtOther
    <3>4. q \in P
      BY <3>1, <3>2, <3>3, PlacesSplit
    <3>5. q[1] # "timers"
      BY <1>0, <3>1 DEF AtLink, AtOther
    <3> QED  BY <3>4, <3>5
  <2> QED  BY <2>1, <2>2
<1> QED
  <2> HIDE DEF f, P, Q
  <2>1. Placed(Q, t, X)
    BY <1>1, <1>2, <1>3, Renamed
  <2> QED  BY <2>1 DEF Q

(* When no entry is left it does not matter of which list.                  *)
LEMMA NoRest ==
    ASSUME NEW b, NEW e, NEW e2, NEW X, AllPlaced(b, {}, e, X)
    PROVE  AllPlaced(b, {}, e2, X)
<1>1. \A t : Places(b, {}, e2, t) = Places(b, {}, e, t)
  BY DEF Places
<1> QED  BY <1>1 DEF AllPlaced

(* A board in the middle of a tick, in which the entries D of a list are     *)
(* still to be looked at. A tick finishes no thread slot.                    *)
Amid(b, c, D, e, X) ==
  /\ c \in Boards /\ b.done \subseteq c.done /\ OnlyWakes(b, c)
  /\ \A x \in c.done \ b.done : kind[x] # "thread"
  /\ Gathers(c, {}) /\ AllPlaced(c, D, e, X)

(* The same of _fireIo, which leaves the timers alone.                       *)
AmidIo(b, c, D, e, X) == Amid(b, c, D, e, X) /\ c.timers = b.timers

(* _fireIo of one entry: it is dropped, finishes its slot or is kept.       *)
LEMMA FireIoKeeps ==
    ASSUME LinksOK, NEW b, NEW c, NEW D, NEW e, NEW X, NEW j \in D, NEW arrived,
           AmidIo(b, c, D, e, X), e[j] \in Handled, e[j] \notin X
    PROVE  AmidIo(b, FireIo(c, e[j], arrived), D \ {j}, e, X)
<1> DEFINE t == e[j]
           d == FireIo(c, t, arrived)
<1>0. c \in Boards /\ Gathers(c, {})
  BY DEF AmidIo, Amid
<1>1. CASE t \in c.done
  <2>1. d = c
    BY <1>1 DEF FireIo
  <2>2. AllPlaced(c, D \ {j}, e, X)
    BY <1>1, DropRest DEF AmidIo, Amid
  <2> QED  BY <2>1, <2>2 DEF AmidIo, Amid
<1>2. CASE t \notin c.done /\ t \in arrived
  <2>1. d = FinishSlot(c, t)
    BY <1>2 DEF FireIo
  <2>2. /\ FinishEffect(c, t, d) /\ Gathers(d, {}) /\ AllPlaced(d, D, e, X)
    <3> HIDE DEF t, d
    <3>1. kind[t] # "gather" /\ t \in Known
      BY DEF t, Handled
    <3> QED  BY <1>2, <2>1, <3>1, FinishSlotKeeps DEF AmidIo, Amid
  <2>3. /\ d \in Boards /\ c.done \subseteq d.done /\ t \in d.done
        /\ d.timers = c.timers /\ d.ioWaits = c.ioWaits /\ OnlyWakes(c, d)
        /\ \A x \in d.done \ c.done : kind[x] # "thread"
    BY <2>2 DEF FinishEffect, Handled
  <2>4. AllPlaced(d, D \ {j}, e, X)
    BY <2>2, <2>3, DropRest
  <2> HIDE DEF d
  <2> QED  BY <2>2, <2>3, <2>4 DEF AmidIo, Amid, OnlyWakes, d
<1>3. CASE t \notin c.done /\ t \notin arrived
  <2>1. d = [c EXCEPT !.ioWaits = Append(c.ioWaits, t)]
    BY <1>0, <1>3 DEF FireIo, Boards
  <2>2. Append(c.ioWaits, t) \in Seq(Handled) /\ c.ioWaits \in Seq(Handled)
    BY DEF AmidIo, Amid, Boards
  <2>3. /\ d \in Boards /\ d.ioWaits = Append(c.ioWaits, t)
        /\ d.done = c.done /\ d.ready = c.ready /\ d.links = c.links /\ d.timers = c.timers
        /\ d.pending = c.pending /\ d.filled = c.filled
    <3> HIDE DEF d, t
    <3> QED  BY <1>0, <2>1, <2>2 DEF Boards
  <2> HIDE DEF d
  <2>4. Adds(c, d, t)
    <3> HIDE DEF t
    <3> QED  BY <1>0, <2>3, AddIo
  <2>5. AllPlaced(d, D \ {j}, e, X)
    BY <1>0, <2>3, <2>4, MoveRest DEF AmidIo, Amid
  <2>6. Gathers(d, {})
    BY <1>0, <2>3 DEF Gathers
  <2> QED  BY <2>3, <2>5, <2>6 DEF AmidIo, Amid, OnlyWakes, d
<1> QED  BY <1>1, <1>2, <1>3

(* _fireTimers of one entry: it is kept, dropped, ends a sleep or queues a  *)
(* poll.                                                                    *)
LEMMA FireTimerKeeps ==
    ASSUME LinksOK, NEW b, NEW c, NEW D, NEW e, NEW X, NEW j \in D,
           NEW n \in [task : Timed, left : 1 .. MaxPeriods], e[j] = n.task,
           Amid(b, c, D, e, X), e[j] \notin X
    PROVE  /\ Amid(b, FireTimer(c, n), D \ {j}, e, X)
           /\ FireTimer(c, n).ioWaits = c.ioWaits
<1> DEFINE t == n.task
           d == FireTimer(c, n)
<1>0. c \in Boards /\ t \in Timed /\ t \in Known /\ n.left \in 1 .. MaxPeriods
  BY DEF Amid, Timed
<1>1. CASE n.left > 1
  <2> DEFINE m == [n EXCEPT !.left = n.left - 1]
  <2>1. d = [c EXCEPT !.timers = Append(c.timers, m)]
    BY <1>0, <1>1 DEF FireTimer, Boards
  <2>2. m = [task |-> t, left |-> n.left - 1] /\ m \in [task : Timed, left : 1 .. MaxPeriods]
    BY <1>0, <1>1, SchedulerAssumption
  <2> HIDE DEF m
  <2>3. Append(c.timers, m) \in Seq([task : Timed, left : 1 .. MaxPeriods])
    BY <1>0, <2>2 DEF Boards
  <2>4. /\ d \in Boards /\ d.timers = Append(c.timers, m)
        /\ d.done = c.done /\ d.ready = c.ready /\ d.links = c.links /\ d.ioWaits = c.ioWaits
        /\ d.pending = c.pending /\ d.filled = c.filled
    <3> HIDE DEF d, t
    <3> QED  BY <1>0, <2>1, <2>3 DEF Boards
  <2> HIDE DEF d
  <2>5. Adds(c, d, t)
    <3> HIDE DEF t
    <3> QED  BY <1>0, <2>2, <2>4, AddTimer
  <2>6. AllPlaced(d, D \ {j}, e, X)
    BY <1>0, <2>4, <2>5, MoveRest DEF Amid
  <2>7. Gathers(d, {})
    BY <2>4 DEF Gathers, Amid
  <2> QED  BY <2>4, <2>6, <2>7 DEF Amid, OnlyWakes, d
<1>2. CASE ~(n.left > 1) /\ t \in c.done
  <2>1. d = c
    BY <1>2 DEF FireTimer
  <2>2. AllPlaced(c, D \ {j}, e, X)
    BY <1>0, <1>2, DropRest DEF Amid
  <2> QED  BY <2>1, <2>2 DEF Amid
<1>3. CASE ~(n.left > 1) /\ t \notin c.done /\ kind[t] = "sleep"
  <2>1. d = FinishSlot(c, t)
    BY <1>3 DEF FireTimer
  <2>2. /\ FinishEffect(c, t, d) /\ Gathers(d, {}) /\ AllPlaced(d, D, e, X)
    <3>1. kind[t] # "gather" /\ t \in Known /\ t \notin c.done
      BY <1>0, <1>3
    <3> HIDE DEF t, d
    <3> QED  BY <2>1, <3>1, FinishSlotKeeps DEF Amid
  <2>3. /\ d \in Boards /\ c.done \subseteq d.done /\ t \in d.done
        /\ d.timers = c.timers /\ d.ioWaits = c.ioWaits /\ OnlyWakes(c, d)
        /\ \A x \in d.done \ c.done : kind[x] # "thread"
    BY <1>3, <2>2 DEF FinishEffect
  <2> HIDE DEF d
  <2>4. AllPlaced(d, D \ {j}, e, X)
    BY <2>2, <2>3, DropRest
  <2> QED  BY <2>2, <2>3, <2>4 DEF Amid, OnlyWakes, d
<1>4. CASE ~(n.left > 1) /\ t \notin c.done /\ kind[t] # "sleep"
  <2>1. d = [c EXCEPT !.ready = Append(c.ready, t)]
    BY <1>0, <1>4 DEF FireTimer, Boards
  <2>0. t \in Runnable
    BY <1>0, <1>4 DEF Timed, Runnable
  <2>2. Append(c.ready, t) \in Seq(Runnable)
    <3> HIDE DEF t
    <3> QED  BY <1>0, <2>0 DEF Boards
  <2>3. /\ d \in Boards /\ d.ready = Append(c.ready, t)
        /\ d.done = c.done /\ d.ioWaits = c.ioWaits /\ d.links = c.links /\ d.timers = c.timers
        /\ d.pending = c.pending /\ d.filled = c.filled
    <3> HIDE DEF d, t
    <3> QED  BY <1>0, <2>1, <2>2 DEF Boards
  <2> HIDE DEF d
  <2>4. Adds(c, d, t)
    <3> HIDE DEF t
    <3> QED  BY <1>0, <2>3, AddReady
  <2>5. AllPlaced(d, D \ {j}, e, X)
    BY <1>0, <2>3, <2>4, MoveRest DEF Amid
  <2>6. Gathers(d, {})
    BY <2>3 DEF Gathers, Amid
  <2> QED  BY <2>3, <2>5, <2>6 DEF Amid, OnlyWakes, d
<1> QED  BY <1>1, <1>2, <1>3, <1>4

(* _fireIo keeps what is kept.                                              *)
LEMMA FireAllIoKeeps ==
    ASSUME LinksOK, NEW b \in Boards, Gathers(b, {}), NEW e, NEW X, AllPlaced(b, {}, e, X),
           X \cap Known = {}, b.ioWaits = ioWaits, NEW arrived
    PROVE  AmidIo(b, FireAllIo(b, arrived), {}, e, X)
<1> DEFINE N == Len(ioWaits)
           OK(c, n) == AmidIo(b, c, n + 1 .. N, ioWaits, X)
<1>1. /\ N \in Nat /\ DOMAIN ioWaits = 1 .. N
      /\ \A i \in 1 .. N : ioWaits[i] \in Handled
  <2>1. ioWaits \in Seq(Handled)
    BY DEF Boards
  <2> QED  BY <2>1, LenProperties
<1>2. PICK F : /\ F[0] = [b EXCEPT !.ioWaits = <<>>]
               /\ \A n \in 1 .. N : F[n] = FireIo(F[n - 1], ioWaits[n], arrived)
               /\ FireAllIo(b, arrived) = F[N]
  BY <1>1, IoUnfolds
<1>0. <<>> \in Seq(Handled)
  OBVIOUS
<1>3. OK(F[0], 0)
  <2> DEFINE c == [b EXCEPT !.ioWaits = <<>>]
  <2>1. /\ c \in Boards /\ c.done = b.done /\ c.timers = b.timers /\ c.ioWaits = <<>>
        /\ c.pending = b.pending /\ c.filled = b.filled /\ c.links = b.links
    BY <1>0 DEF Boards
  <2>2. AllPlaced(c, DOMAIN ioWaits, ioWaits, X)
    BY <2>1, IoToRest
  <2> HIDE DEF c
  <2>3. Gathers(c, {})
    BY <2>1 DEF Gathers
  <2>5. F[0] = c /\ DOMAIN ioWaits = 0 + 1 .. N
    BY <1>1, <1>2 DEF c
  <2> QED  BY <2>1, <2>2, <2>3, <2>5 DEF AmidIo, Amid, OnlyWakes
<1>4. ASSUME NEW n \in 1 .. N, OK(F[n - 1], n - 1)
      PROVE  OK(F[n], n)
  <2> DEFINE D == n .. N
             M == n + 1 .. N
             d == F[n - 1]
             a == ioWaits
  <2>1. AmidIo(b, d, D, a, X) /\ D \ {n} = M /\ n \in D
    <3>1. (n - 1) + 1 = n /\ (n .. N) \ {n} = n + 1 .. N /\ n \in n .. N
      BY <1>1
    <3> QED  BY <1>4, <3>1
  <2>2. a[n] \in Handled /\ a[n] \notin X
    BY <1>1 DEF Handled
  <2>3. F[n] = FireIo(d, a[n], arrived)
    BY <1>2
  <2> HIDE DEF D, M, N, d, a
  <2>4. AmidIo(b, FireIo(d, a[n], arrived), D \ {n}, a, X)
    BY <2>1, <2>2, FireIoKeeps
  <2>5. AmidIo(b, F[n], M, a, X)
    BY <2>1, <2>3, <2>4
  <2> QED  BY <2>5 DEF M, a
<1> HIDE DEF OK
<1>5. OK(F[N], N)
  <2> DEFINE A == {n \in 0 .. N : OK(F[n], n)}
  <2>1. 0 \in A /\ \A n \in 1 .. N : n - 1 \in A => n \in A
    BY <1>1, <1>3, <1>4
  <2>2. N \in Nat /\ N \in 0 .. N
    BY <1>1
  <2>3. N \in A
    <3> HIDE DEF A, N
    <3> QED  BY <2>1, <2>2, Induction
  <2> QED  BY <2>3
<1>6. N + 1 .. N = {}
  BY <1>1
<1> HIDE DEF N
<1> QED  BY <1>2, <1>5, <1>6, NoRest DEF OK, AmidIo, Amid

(* _fireTimers keeps what is kept.                                          *)
LEMMA FireAllTimersKeeps ==
    ASSUME LinksOK, NEW b \in Boards, Gathers(b, {}), NEW e, NEW X, AllPlaced(b, {}, e, X),
           X \cap Known = {}, b.timers = timers
    PROVE  /\ Amid(b, FireAllTimers(b), {}, e, X)
           /\ FireAllTimers(b).ioWaits = b.ioWaits
<1> DEFINE N == Len(timers)
           a == [i \in 1 .. N |-> timers[i].task]
           OK(c, n) == Amid(b, c, n + 1 .. N, a, X) /\ c.ioWaits = b.ioWaits
<1>1. /\ N \in Nat /\ DOMAIN timers = 1 .. N
      /\ \A i \in 1 .. N : timers[i] \in [task : Timed, left : 1 .. MaxPeriods]
  <2> DEFINE S == [task : Timed, left : 1 .. MaxPeriods]
  <2>1. timers \in Seq(S)
    BY DEF Boards
  <2> HIDE DEF S
  <2>2. /\ N \in Nat /\ DOMAIN timers = 1 .. N
        /\ \A i \in 1 .. N : timers[i] \in S
    BY <2>1, LenProperties
  <2> QED  BY <2>2 DEF S
<1>11. DOMAIN a = 1 .. N /\ \A i \in 1 .. N : a[i] = timers[i].task
  OBVIOUS
<1>2. PICK F : /\ F[0] = [b EXCEPT !.timers = <<>>]
               /\ \A n \in 1 .. N : F[n] = FireTimer(F[n - 1], timers[n])
               /\ FireAllTimers(b) = F[N]
  BY <1>1, TimersUnfolds
<1> HIDE DEF a
<1>0. <<>> \in Seq([task : Timed, left : 1 .. MaxPeriods])
  OBVIOUS
<1>3. OK(F[0], 0)
  <2> DEFINE c == [b EXCEPT !.timers = <<>>]
  <2>1. /\ c \in Boards /\ c.done = b.done /\ c.ioWaits = b.ioWaits
        /\ c.pending = b.pending /\ c.filled = b.filled /\ c.links = b.links
    BY <1>0 DEF Boards
  <2>2. AllPlaced(c, DOMAIN a, a, X)
    BY <1>1, <1>11, <2>1, TimersToRest
  <2> HIDE DEF c
  <2>3. Gathers(c, {})
    BY <2>1 DEF Gathers
  <2>5. F[0] = c /\ DOMAIN a = 0 + 1 .. N
    BY <1>1, <1>11, <1>2 DEF c
  <2> QED  BY <2>1, <2>2, <2>3, <2>5 DEF Amid, OnlyWakes
<1>4. ASSUME NEW n \in 1 .. N, OK(F[n - 1], n - 1)
      PROVE  OK(F[n], n)
  <2>1. Amid(b, F[n - 1], n .. N, a, X) /\ (n .. N) \ {n} = n + 1 .. N /\ n \in n .. N
    <3>1. (n - 1) + 1 = n /\ (n .. N) \ {n} = n + 1 .. N /\ n \in n .. N
      BY <1>1
    <3> QED  BY <1>4, <3>1
  <2>2. /\ timers[n] \in [task : Timed, left : 1 .. MaxPeriods]
        /\ a[n] = timers[n].task /\ a[n] \notin X
    BY <1>1, <1>11 DEF Timed
  <2>3. F[n] = FireTimer(F[n - 1], timers[n])
    BY <1>2
  <2>4. F[n - 1].ioWaits = b.ioWaits
    BY <1>4
  <2> DEFINE D == n .. N
             M == n + 1 .. N
             d == F[n - 1]
  <2>5. Amid(b, d, D, a, X) /\ D \ {n} = M /\ n \in D
    BY <2>1
  <2> HIDE DEF D, M, N, d
  <2>6. /\ Amid(b, FireTimer(d, timers[n]), D \ {n}, a, X)
        /\ FireTimer(d, timers[n]).ioWaits = d.ioWaits
    BY <2>2, <2>5, FireTimerKeeps
  <2>7. Amid(b, F[n], M, a, X) /\ F[n].ioWaits = b.ioWaits
    BY <2>3, <2>4, <2>5, <2>6 DEF d
  <2> QED  BY <2>7 DEF M
<1> HIDE DEF OK
<1>5. OK(F[N], N)
  <2> DEFINE A == {n \in 0 .. N : OK(F[n], n)}
  <2>1. 0 \in A /\ \A n \in 1 .. N : n - 1 \in A => n \in A
    BY <1>1, <1>3, <1>4
  <2>2. N \in Nat /\ N \in 0 .. N
    BY <1>1
  <2>3. N \in A
    <3> HIDE DEF A, N
    <3> QED  BY <2>1, <2>2, Induction
  <2> QED  BY <2>3
<1>6. N + 1 .. N = {}
  BY <1>1
<1> HIDE DEF N
<1> QED  BY <1>2, <1>5, <1>6, NoRest DEF OK, Amid

(***************************************************************************)
(* The invariant of the scheduler                                          *)
(***************************************************************************)

(* Ids are given out in order. *)
Numbered == Known = 1 .. nextTaskId - 1 /\ nextTaskId \in 1 .. MaxTasks + 1

(* Nobody waits for a slot that there is not yet. *)
Unasked == \A x \in Tasks \ Known : waitLinks[x] = <<>>

(* Code executes only in a run, and it is that of an unfinished coroutine. *)
RunningOK == running # NoTask => running \in Undone /\ kind[running] = "coro" /\ inRun

(* While a run is on, all are in one place but the coroutine that executes. *)
OnePlace == inRun => AllPlaced(Board, {}, <<>>, {running})

(* A job is that of an unfinished thread slot, and fails as it ends.         *)
JobsOK ==
  /\ jobs \union failed \subseteq {t \in Known : kind[t] = "thread"}
  /\ jobs \cap (done \union failed) = {}

(* While a run is on, no gather was given a child that is done and failed.   *)
NoFailedChild ==
  inRun => \A k \in DOMAIN gatherLinks : gatherLinks[k].child \notin done \cap failed

(* The inductive invariant. TypeOK is not inductive: that an awaiter has    *)
(* one place rests on the kinds of the lists' entries, on ids that nobody   *)
(* waits for before they are given out, and on the links being unique.      *)
Inv ==
  /\ kind \in [Tasks -> Kinds] /\ awaits \in [Tasks -> Known \union {NoTask}]
  /\ Numbered /\ Unasked /\ RunningOK /\ JobsOK /\ NoFailedChild
  /\ inRun => haveScheduler
  /\ Board \in Boards /\ LinksOK /\ Gathers(Board, {})
  /\ OnePlace

(* The fields of the board of a state,                                      *)
LEMMA BoardFields ==
  /\ Board.done = done /\ Board.ready = ready /\ Board.links = waitLinks
  /\ Board.timers = timers /\ Board.ioWaits = ioWaits
  /\ Board.pending = pending /\ Board.filled = filled
BY DEF Board

(* ... and of the next.                                                     *)
LEMMA NextFields ==
  /\ Board'.done = done' /\ Board'.ready = ready' /\ Board'.links = waitLinks'
  /\ Board'.timers = timers' /\ Board'.ioWaits = ioWaits'
  /\ Board'.pending = pending' /\ Board'.filled = filled'
BY DEF Board

(* Becomes leads to the board it is given.                                  *)
LEMMA BecomesBoard ==
    ASSUME NEW c \in Boards, Becomes(c)
    PROVE  Board' = c
BY DEF Becomes, Board, Boards

(* Who is excused from waiting matters for unfinished slots only. *)
LEMMA OthersExcused ==
    ASSUME NEW c, NEW D, NEW e, NEW X, NEW Y, AllPlaced(c, D, e, X),
           \A t \in Known \ c.done : t \in X <=> t \in Y
    PROVE  AllPlaced(c, D, e, Y)
BY DEF AllPlaced, Placed

(* A coroutine that waited nowhere is entered in one place. *)
LEMMA Parks ==
    ASSUME NEW b, NEW c, NEW e, NEW t, NEW Y, AllPlaced(b, {}, e, {t}), Adds(b, c, t),
           c.done = b.done, Y \cap Known = {}
    PROVE  AllPlaced(c, {}, e, Y)
<1>1. PICK q : \A D, a, u : Places(c, D, a, u) =
                 IF u = t THEN Places(b, D, a, u) \union {q} ELSE Places(b, D, a, u)
  BY DEF Adds
<1> SUFFICES ASSUME NEW u \in Known \ c.done, kind[u] \notin {"gather", "unset"}
             PROVE  Placed(Places(c, {}, e, u), u, Y)
  BY DEF AllPlaced
<1>2. Placed(Places(b, {}, e, u), u, {t}) /\ u \notin Y
  BY DEF AllPlaced
<1>3. CASE u = t
  <2>1. Places(b, {}, e, u) = {}
    BY <1>2, <1>3 DEF Placed
  <2>2. Places(c, {}, e, u) = {q}
    BY <1>1, <1>3, <2>1
  <2> QED  BY <1>2, <2>2 DEF Placed
<1>4. CASE u # t
  <2>1. Places(c, {}, e, u) = Places(b, {}, e, u)
    BY <1>1, <1>4
  <2> QED  BY <1>2, <1>4, <2>1 DEF Placed
<1> QED  BY <1>3, <1>4

(* What a step to the board c that starts no job may do to the jobs.         *)
JobsGoOn(c) ==
  /\ failed \subseteq failed' /\ failed' \subseteq failed \union jobs
  /\ jobs' \subseteq jobs \ failed'
  /\ jobs' \cap c.done = {} /\ failed' \cap c.done \subseteq failed
  /\ inRun' => \A k \in DOMAIN gatherLinks : gatherLinks[k].child \notin c.done \cap failed'

(* What a step that gives out no id has to show. *)
LEMMA StepsOn ==
    ASSUME Inv, UNCHANGED <<kind, gatherLinks, nextTaskId>>,
           NEW c \in Boards, Board' = c, Gathers(c, {}), JobsGoOn(c),
           \A x \in Tasks \ Known : c.links[x] = <<>>,
           awaits' \in [Tasks -> Known \union {NoTask}],
           running' # NoTask => running' \in Known \ c.done /\ kind[running'] = "coro" /\ inRun',
           inRun' => haveScheduler' /\ AllPlaced(c, {}, <<>>, {running'})
    PROVE  Inv'
<1>1. Known' = Known /\ Runnable' = Runnable /\ Timed' = Timed /\ Handled' = Handled
  BY DEF Known, Runnable, Timed, Handled
<1>2. Boards' = Boards
  BY <1>1 DEF Boards
<1>3. LinksOK'
  BY <1>1 DEF Inv, LinksOK
<1>4. Gathers(Board, {})'
  <2>1. \A g : Indexes(g)' = Indexes(g)
    BY DEF Indexes
  <2>2. \A x : x \in c.done \ failed' <=> x \in c.done \ failed
    BY DEF JobsGoOn
  <2>3. Gathers(c, {})'
    BY <1>1, <2>1, <2>2 DEF Gathers
  <2> QED  BY <2>3 DEF Gathers
<1>5. OnePlace'
  <2>1. ASSUME inRun' PROVE AllPlaced(Board, {}, <<>>, {running})'
    <3>1. \A t : Places(c, {}, <<>>, t)' = Places(c, {}, <<>>, t)
      BY DEF Places, Tickets
    <3>2. AllPlaced(c, {}, <<>>, {running'})
      BY <2>1
    <3> QED  BY <1>1, <3>1, <3>2 DEF AllPlaced
  <2> QED  BY <2>1 DEF OnePlace
<1>6. (Numbered /\ Unasked /\ RunningOK)'
  <2>1. c.done = done' /\ c.links = waitLinks'
    BY NextFields
  <2> QED  BY <1>1, <2>1 DEF Inv, Numbered, Unasked, RunningOK, Undone
<1>7. JobsOK' /\ NoFailedChild'
  <2>1. c.done = done'
    BY NextFields
  <2> QED  BY <1>1, <2>1 DEF JobsGoOn, Inv, JobsOK, NoFailedChild
<1> QED  BY <1>1, <1>2, <1>3, <1>4, <1>5, <1>6, <1>7 DEF Inv

(* Most steps leave the jobs alone, and finish no slot that has one. *)
LEMMA JobsStay ==
    ASSUME Inv, UNCHANGED <<jobs, failed, gatherLinks>>, inRun' => inRun, NEW c,
           \A x \in c.done \ done : x \notin Known \/ kind[x] # "thread"
    PROVE  JobsGoOn(c)
BY DEF JobsGoOn, Inv, JobsOK, NoFailedChild

(* The board of a state, as the lemmas on boards take it. *)
LEMMA InvBoard ==
    ASSUME Inv
    PROVE  /\ done \in SUBSET Known /\ ready \in Seq(Runnable)
           /\ waitLinks \in [Tasks -> Seq(Runnable)]
           /\ timers \in Seq([task : Timed, left : 1 .. MaxPeriods])
           /\ ioWaits \in Seq(Handled)
           /\ pending \in [Tasks -> Int] /\ filled \in [Tasks -> SUBSET (1 .. MaxChildren)]
BY DEF Inv, Board, Boards

(* Nothing on the board changes. *)
LEMMA BoardStays ==
    ASSUME Inv, UNCHANGED <<kind, gatherLinks, nextTaskId, done, ready, waitLinks, timers, ioWaits,
                            pending, filled>>,
           awaits' = awaits, running' = running \/ running' = NoTask,
           running' # NoTask => inRun',
           inRun' => inRun /\ haveScheduler' /\ running' = running,
           failed \subseteq failed', failed' \subseteq failed \union jobs,
           jobs' \subseteq jobs \ failed'
    PROVE  Inv'
<1> PICK c : c = Board
  OBVIOUS
<1>1. Board' = c /\ c \in Boards /\ Gathers(c, {}) /\ c.done = done /\ c.links = waitLinks
  BY BoardFields DEF Inv, Board
<1>2. inRun' => AllPlaced(c, {}, <<>>, {running'})
  BY DEF Inv, OnePlace
<1>3. running' # NoTask => running' \in Known \ c.done /\ kind[running'] = "coro" /\ inRun'
  BY <1>1 DEF Inv, RunningOK, Undone
<1>4. \A x \in Tasks \ Known : c.links[x] = <<>>
  BY <1>1 DEF Inv, Unasked
<1>5. awaits' \in [Tasks -> Known \union {NoTask}]
  BY DEF Inv
<1>6. JobsGoOn(c)
  BY <1>1 DEF Inv, JobsOK, NoFailedChild, JobsGoOn
<1> QED  BY <1>1, <1>2, <1>3, <1>4, <1>5, <1>6, StepsOn

(* The steps that leave the board alone.                                    *)
LEMMA RaiseStep == ASSUME Inv, Raise PROVE Inv'
BY BoardStays DEF Raise, tables, Inv, JobsOK

LEMMA EndRunStep == ASSUME Inv, EndRun PROVE Inv'
BY BoardStays DEF EndRun, tables, Inv, JobsOK

LEMMA JobEndsStep == ASSUME Inv, NEW t, JobEnds(t) PROVE Inv'
BY BoardStays DEF JobEnds, tables, Inv, RunningOK, JobsOK

LEMMA StutterStep == ASSUME Inv, UNCHANGED vars PROVE Inv'
BY BoardStays DEF vars, tables, Inv, RunningOK, JobsOK

(* A slot that is out of every list finishes, and what it returns is on no   *)
(* list either.                                                              *)
LEMMA FinishStep ==
    ASSUME Inv, inRun, NEW b \in Boards, NEW t \in Known, kind[t] # "gather", t \notin b.done,
           Gathers(b, {}), AllPlaced(b, {}, <<>>, {t}), b.links = waitLinks, b.done = done,
           Becomes(FinishSlot(b, t)), t \notin jobs, inRun' => ~FinishRaises(t),
           UNCHANGED <<kind, gatherLinks, nextTaskId, awaits, haveScheduler, jobs, failed>>,
           running' = NoTask
    PROVE  Inv'
<1> PICK c : c = FinishSlot(b, t)
  OBVIOUS
<1>1. /\ FinishEffect(b, t, c) /\ Gathers(c, {}) /\ AllPlaced(c, {}, <<>>, {t})
  BY FinishSlotKeeps DEF Inv
<1>2. /\ c \in Boards /\ t \in c.done /\ OnlyWakes(b, c)
      /\ \A x \in c.done \ done : x = t \/ kind[x] = "gather"
  BY <1>1 DEF FinishEffect
<1>3. Board' = c
  BY <1>2, BecomesBoard
<1>4. AllPlaced(c, {}, <<>>, {running'})
  <2>1. \A x \in Known \ c.done : x \in {t} <=> x \in {running'}
    BY <1>2 DEF Known, Tasks, NoTask
  <2> QED  BY <1>1, <2>1, OthersExcused
<1>5. \A x \in Tasks \ Known : c.links[x] = <<>>
  BY <1>2 DEF OnlyWakes, Inv, Unasked
<1>6. /\ awaits' \in [Tasks -> Known \union {NoTask}]
      /\ inRun' => haveScheduler'
  BY DEF Inv
<1>7. JobsGoOn(c)
  <2>1. \A x \in jobs \union failed : x \in c.done => x \in done \/ x = t
    BY <1>2 DEF Inv, JobsOK
  <2>2. ASSUME inRun', NEW k \in DOMAIN gatherLinks
        PROVE  gatherLinks[k].child \notin c.done \cap failed
    <3>1. gatherLinks[k].child \notin done \cap failed
      BY DEF Inv, NoFailedChild
    <3>2. t \in failed => gatherLinks[k].child # t
      BY <2>2 DEF FinishRaises, ToSet
    <3> QED  BY <2>1, <3>1, <3>2
  <2> QED  BY <2>1, <2>2 DEF JobsGoOn, Inv, JobsOK
<1> QED  BY <1>1, <1>2, <1>3, <1>4, <1>5, <1>6, <1>7, StepsOn

(* The coroutine that executes returns.                                     *)
LEMMA ReturnStep == ASSUME Inv, Return PROVE Inv'
<1> PICK b : b = Board
  OBVIOUS
<1>1. /\ running \in Known \ done /\ kind[running] = "coro" /\ inRun
  BY DEF Inv, RunningOK, Return, Undone
<1>2. /\ b \in Boards /\ b.done = done /\ b.links = waitLinks /\ Gathers(b, {})
      /\ AllPlaced(b, {}, <<>>, {running})
  BY <1>1, BoardFields DEF Inv, OnePlace
<1>3. running \notin jobs /\ running \notin failed
  BY <1>1 DEF Inv, JobsOK
<1> QED  BY <1>1, <1>2, <1>3, FinishStep DEF Return, FinishRaises

(***************************************************************************)
(* The loop of Task.run                                                    *)
(***************************************************************************)

(* A tick fires the handles, then the timers.                               *)
LEMMA TickStep == ASSUME Inv, Tick PROVE Inv'
<1> PICK b : b = Board
  OBVIOUS
<1>1. /\ b \in Boards /\ b.ioWaits = ioWaits /\ b.timers = timers /\ b.links = waitLinks
      /\ Gathers(b, {}) /\ running = NoTask /\ inRun
      /\ AllPlaced(b, {}, <<>>, {NoTask}) /\ LinksOK /\ {NoTask} \cap Known = {}
  BY BoardFields DEF Inv, OnePlace, Tick, Pumping, Known, Tasks, NoTask
<1>2. PICK arrived : Becomes(FireAllTimers(FireAllIo(b, arrived)))
  BY DEF Tick
<1> PICK d : d = FireAllIo(b, arrived)
  OBVIOUS
<1> PICK c : c = FireAllTimers(d)
  OBVIOUS
<1>3. AmidIo(b, d, {}, <<>>, {NoTask})
  BY <1>1, FireAllIoKeeps
<1>4. /\ d \in Boards /\ Gathers(d, {}) /\ AllPlaced(d, {}, <<>>, {NoTask})
      /\ d.timers = timers /\ OnlyWakes(b, d)
      /\ \A x \in d.done \ b.done : kind[x] # "thread"
  BY <1>1, <1>3 DEF AmidIo, Amid
<1>5. Amid(d, c, {}, <<>>, {NoTask})
  BY <1>1, <1>4, FireAllTimersKeeps
<1>6. /\ c \in Boards /\ Gathers(c, {}) /\ AllPlaced(c, {}, <<>>, {NoTask}) /\ OnlyWakes(d, c)
      /\ \A x \in c.done \ d.done : kind[x] # "thread"
  BY <1>5 DEF Amid
<1>7. Board' = c
  BY <1>2, <1>6, BecomesBoard
<1>8. \A x \in Tasks \ Known : c.links[x] = <<>>
  BY <1>1, <1>4, <1>6 DEF OnlyWakes, Inv, Unasked
<1>9. /\ awaits' \in [Tasks -> Known \union {NoTask}] /\ running' = NoTask
      /\ inRun' => haveScheduler'
      /\ UNCHANGED <<kind, gatherLinks, nextTaskId>>
  BY <1>1 DEF Inv, Tick
<1>10. JobsGoOn(c)
  <2>1. \A x \in c.done \ done : kind[x] # "thread"
    BY <1>4, <1>6, BoardFields
  <2> QED  BY <2>1, JobsStay DEF Tick
<1> QED  BY <1>6, <1>7, <1>8, <1>9, <1>10, StepsOn

(* A coroutine waits in the place that _addWait gives it. *)
LEMMA AwaitStep == ASSUME Inv, Await PROVE Inv'
<1> PICK b : b = Board
  OBVIOUS
<1> PICK c : c = Board'
  OBVIOUS
<1> PICK r : r = running
  OBVIOUS
<1>1. PICK x \in Handles : /\ awaits' = [awaits EXCEPT ![r] = x]
                           /\ AddWait(r, x)
  BY DEF Await
<1>2. /\ b \in Boards /\ Gathers(b, {}) /\ AllPlaced(b, {}, <<>>, {r}) /\ inRun
      /\ r \in Runnable /\ x \in Known /\ x \in Tasks
  BY <1>1 DEF Inv, OnePlace, Await, RunningOK, Undone, Runnable, Handles, Known
<1>3. /\ b.done = done /\ b.ready = ready /\ b.links = waitLinks /\ b.timers = timers
      /\ b.ioWaits = ioWaits /\ b.pending = pending /\ b.filled = filled
  BY BoardFields
<1>4. /\ c.done = b.done /\ c.ready = (IF x \in b.done THEN Append(b.ready, r) ELSE b.ready)
      /\ c.links = [b.links EXCEPT ![x] = Append(@, r)]
      /\ c.timers = b.timers /\ c.ioWaits = b.ioWaits /\ c.pending = b.pending
      /\ c.filled = b.filled
  BY <1>1, <1>3, NextFields DEF Await, AddWait
<1>5. /\ c.links \in [Tasks -> Seq(Runnable)] /\ c.ready \in Seq(Runnable)
      /\ \A z \in Tasks : z # x => c.links[z] = b.links[z]
  <2>1. b.links \in [Tasks -> Seq(Runnable)] /\ b.ready \in Seq(Runnable)
    BY <1>2 DEF Boards
  <2> QED  BY <1>2, <1>4, <2>1
<1>6. c \in Boards /\ Gathers(c, {})
  <2>1. c = [done |-> b.done, ready |-> c.ready, links |-> c.links, timers |-> b.timers,
             ioWaits |-> b.ioWaits, pending |-> b.pending, filled |-> b.filled]
    BY <1>3, <1>4 DEF Board, Await
  <2>2. c \in Boards
    BY <1>2, <1>5, <2>1 DEF Boards
  <2> QED  BY <1>2, <1>4, <2>2 DEF Gathers
<1>7. Adds(b, c, r)
  <2>1. CASE x \notin b.done
    <3>1. x \in Tasks \ b.done /\ c.ready = b.ready
      BY <1>2, <1>4, <2>1
    <3> QED  BY <1>2, <1>4, <1>6, <3>1, AddLink
  <2>2. CASE x \in b.done
    <3>1. c.ready = Append(b.ready, r) /\ \A z \in Tasks \ b.done : c.links[z] = b.links[z]
      BY <1>4, <1>5, <2>2
    <3> QED  BY <1>2, <1>4, <1>6, <3>1, AddReady
  <2> QED  BY <2>1, <2>2
<1>8. AllPlaced(c, {}, <<>>, {NoTask})
  <2>1. {NoTask} \cap Known = {}
    BY DEF Known, Tasks, NoTask
  <2> QED  BY <1>2, <1>4, <1>7, <2>1, Parks
<1>9. \A z \in Tasks \ Known : c.links[z] = <<>>
  BY <1>2, <1>3, <1>5 DEF Inv, Unasked
<1>10. /\ awaits' \in [Tasks -> Known \union {NoTask}] /\ running' = NoTask
       /\ inRun' => haveScheduler'
       /\ UNCHANGED <<kind, gatherLinks, nextTaskId>>
  BY <1>1, <1>2 DEF Inv, Await
<1>11. JobsGoOn(c)
  BY <1>3, <1>4, JobsStay DEF Await
<1> QED  BY <1>6, <1>8, <1>9, <1>10, <1>11, StepsOn

(* The places in `ready'.                                                   *)
LEMMA ReadyPlaces ==
    ASSUME NEW b \in Boards
    PROVE  \A D, e, t, p : p[1] = "ready" =>
             (p \in Places(b, D, e, t) <=>
                \E i \in DOMAIN b.ready : p = <<"ready", NoTask, i>> /\ b.ready[i] = t)
<1> SUFFICES ASSUME NEW D, NEW e, NEW t, NEW p, p[1] = "ready"
             PROVE  p \in Places(b, D, e, t) <=>
                      \E i \in DOMAIN b.ready : p = <<"ready", NoTask, i>> /\ b.ready[i] = t
  OBVIOUS
<1>1. /\ \A i : p # <<"timers", NoTask, i>> /\ p # <<"ioWaits", NoTask, i>> /\ p # <<"rest", NoTask, i>>
      /\ \A x, i : p # <<"waitLinks", x, i>>
  OBVIOUS
<1> QED  BY <1>1, PlacesIn

(* The places elsewhere.                                                    *)
LEMMA OtherPlaces ==
    ASSUME NEW b \in Boards, NEW c \in Boards, NEW D, NEW e, NEW t, NEW p, p[1] # "ready",
           c.done = b.done, c.links = b.links, c.timers = b.timers, c.ioWaits = b.ioWaits
    PROVE  p \in Places(b, D, e, t) <=> p \in Places(c, D, e, t)
<1>1. \A i : p # <<"ready", NoTask, i>>
  OBVIOUS
<1>2. AtLink(b, t, p) <=> AtLink(c, t, p)
  BY DEF AtLink
<1>3. AtOther(b, D, e, t, p) <=> AtOther(c, D, e, t, p)
  BY <1>1 DEF AtOther
<1> QED  BY <1>2, <1>3, PlacesSplit

(* c is b without the head of `ready'. *)
Pops(b, c) ==
  /\ c.ready = Tail(b.ready) /\ c.done = b.done /\ c.links = b.links
  /\ c.timers = b.timers /\ c.ioWaits = b.ioWaits
  /\ c.pending = b.pending /\ c.filled = b.filled

(* Taking the head of `ready' off leaves its task in no place.               *)
LEMMA TakeReady ==
    ASSUME NEW b \in Boards, NEW c \in Boards, NEW D, NEW e, NEW X, b.ready # <<>>,
           Pops(b, c), AllPlaced(b, D, e, X), X \cap Known = {}
    PROVE  AllPlaced(c, D, e, {Head(b.ready)})
<1> DEFINE s == b.ready
           v == c.ready
           h == Head(s)
<1>1. s \in Seq(Runnable) /\ s # <<>>
  BY DEF Boards
<1>2. /\ c.ready = Tail(b.ready) /\ c.done = b.done /\ c.links = b.links
      /\ c.timers = b.timers /\ c.ioWaits = b.ioWaits
  BY DEF Pops
<1>3. v = Tail(s) /\ s = b.ready /\ v = c.ready
  BY <1>2
<1> HIDE DEF s, v
<1>4. /\ v \in Seq(Runnable) /\ 1 \in DOMAIN s /\ s[1] = h
      /\ \A i \in DOMAIN s : i \in Nat /\ (i # 1 => i - 1 \in DOMAIN v /\ v[i - 1] = s[i])
      /\ \A i \in DOMAIN v : i \in Nat /\ i + 1 \in DOMAIN s /\ s[i + 1] = v[i] /\ i + 1 # 1
                             /\ (i + 1) - 1 = i
  <2>1. /\ v \in Seq(Runnable) /\ Len(v) = Len(s) - 1 /\ \A i \in 1 .. Len(v) : v[i] = s[i + 1]
    BY <1>1, <1>3, HeadTailProperties
  <2>2. Len(s) \in Nat \ {0} /\ DOMAIN s = 1 .. Len(s) /\ DOMAIN v = 1 .. Len(v)
    BY <1>1, <2>1, LenProperties, EmptySeq
  <2>3. s[1] = h
    BY <1>1
  <2>4. /\ 1 \in DOMAIN s
        /\ \A i \in DOMAIN v : i \in Nat /\ i + 1 \in DOMAIN s /\ i + 1 # 1 /\ (i + 1) - 1 = i
        /\ \A i \in DOMAIN s : i \in Nat /\ (i # 1 => i - 1 \in DOMAIN v /\ (i - 1) + 1 = i)
    BY <2>1, <2>2
  <2>5. \A i \in DOMAIN s : i # 1 => v[i - 1] = s[i]
    BY <2>1, <2>2, <2>4
  <2> HIDE DEF h
  <2> QED  BY <2>1, <2>2, <2>3, <2>4, <2>5
<1> HIDE DEF h
<1>5. c \in Boards
  OBVIOUS
<1>6. ASSUME NEW t \in Known \ c.done, kind[t] \notin {"gather", "unset"}
      PROVE  Placed(Places(c, D, e, t), t, {h})
  <2> DEFINE P == Places(b, D, e, t)
             Q == Places(c, D, e, t)
             f == [p \in P |-> IF p[1] = "ready" THEN <<"ready", NoTask, p[3] - 1>> ELSE p]
  <2>1. Placed(P, t, X) /\ t \notin X
    BY <1>2, <1>6 DEF AllPlaced
  <2>2. /\ \A p : p[1] = "ready" => (p \in P <=> \E i \in DOMAIN s : p = <<"ready", NoTask, i>> /\ s[i] = t)
        /\ \A q : q[1] = "ready" => (q \in Q <=> \E i \in DOMAIN v : q = <<"ready", NoTask, i>> /\ v[i] = t)
        /\ \A p : p[1] # "ready" => (p \in P <=> p \in Q)
    <3>1. ASSUME NEW p, p[1] = "ready"
          PROVE  p \in P <=> \E i \in DOMAIN s : p = <<"ready", NoTask, i>> /\ s[i] = t
      BY <1>3, <3>1, ReadyPlaces
    <3>2. ASSUME NEW p, p[1] = "ready"
          PROVE  p \in Q <=> \E i \in DOMAIN v : p = <<"ready", NoTask, i>> /\ v[i] = t
      <4>1. p \in Places(c, D, e, t) <=> \E i \in DOMAIN c.ready : p = <<"ready", NoTask, i>> /\ c.ready[i] = t
        BY <1>5, <3>2, ReadyPlaces
      <4> QED  BY <1>3, <4>1
    <3>3. ASSUME NEW p, p[1] # "ready"
          PROVE  p \in P <=> p \in Q
      BY <1>2, <1>5, <3>3, OtherPlaces
    <3> QED  BY <3>1, <3>2, <3>3
  <2>3. ASSUME NEW q \in Q
        PROVE  \E p \in P : p # <<"ready", NoTask, 1>> /\ q = f[p]
    <3>1. CASE q[1] = "ready"
      <4>1. PICK i \in DOMAIN v : q = <<"ready", NoTask, i>> /\ v[i] = t
        BY <2>2, <3>1
      <4> DEFINE p == <<"ready", NoTask, i + 1>>
      <4>2. p \in P
        BY <1>4, <2>2, <4>1
      <4>3. p # <<"ready", NoTask, 1>>
        BY <1>4, <4>1
      <4>4. f[p] = <<"ready", NoTask, (i + 1) - 1>>
        BY <4>2
      <4>5. f[p] = q
        BY <1>4, <4>1, <4>4
      <4> QED  BY <4>2, <4>3, <4>5
    <3>2. CASE q[1] # "ready"
      <4>1. q \in P
        BY <2>2, <3>2
      <4> QED  BY <3>2, <4>1
    <3> QED  BY <3>1, <3>2
  <2>4. CASE t = h
    <3>1. <<"ready", NoTask, 1>> \in P
      BY <1>4, <2>2, <2>4
    <3>2. P = {<<"ready", NoTask, 1>>}
      BY <2>1, <3>1 DEF Placed
    <3>3. Q = {}
      BY <2>3, <3>2
    <3> QED  BY <2>4, <3>3 DEF Placed
  <2>5. CASE t # h
    <3>1. ASSUME NEW p \in P PROVE f[p] \in Q
      <4>1. CASE p[1] = "ready"
        <5>1. PICK i \in DOMAIN s : p = <<"ready", NoTask, i>> /\ s[i] = t
          BY <2>2, <4>1
        <5>2. i # 1 /\ i - 1 \in DOMAIN v /\ v[i - 1] = t
          BY <1>4, <2>5, <5>1
        <5>3. f[p] = <<"ready", NoTask, i - 1>>
          BY <5>1
        <5> QED  BY <2>2, <5>2, <5>3
      <4>2. CASE p[1] # "ready"
        <5>1. f[p] = p
          BY <4>2
        <5> QED  BY <2>2, <4>2, <5>1
      <4> QED  BY <4>1, <4>2
    <3> HIDE DEF f, P, Q
    <3>2. Placed(Q, t, X)
      BY <2>1, <2>3, <3>1, Renamed
    <3>3. Placed(Q, t, {h})
      BY <2>1, <2>5, <3>2 DEF Placed
    <3> QED  BY <3>3 DEF Q
  <2> QED  BY <2>4, <2>5
<1> QED  BY <1>3, <1>5, <1>6 DEF AllPlaced, h

(* A slot that was taken off `ready' and is put into one place again. *)
LEMMA PutBack ==
    ASSUME Inv, inRun, NEW b \in Boards, NEW c \in Boards, NEW t, Board' = c, Gathers(b, {}),
           AllPlaced(b, {}, <<>>, {t}), Adds(b, c, t), c.done = b.done, c.pending = b.pending,
           c.filled = b.filled, \A x \in Tasks \ Known : c.links[x] = <<>>,
           UNCHANGED <<kind, gatherLinks, nextTaskId, awaits, haveScheduler, jobs, failed, inRun>>,
           running' = NoTask, c.done = done
    PROVE  Inv'
<1>1. AllPlaced(c, {}, <<>>, {running'})
  <2>1. {NoTask} \cap Known = {}
    BY DEF Known, Tasks, NoTask
  <2>2. AllPlaced(c, {}, <<>>, {NoTask})
    BY <2>1, Parks
  <2> QED  BY <2>2
<1>2. Gathers(c, {})
  BY DEF Gathers
<1>3. /\ awaits' \in [Tasks -> Known \union {NoTask}] /\ (inRun' => haveScheduler')
  BY DEF Inv
<1>4. JobsGoOn(c)
  BY JobsStay
<1> QED  BY <1>1, <1>2, <1>3, <1>4, StepsOn

(* _runOnce: the slot it takes finishes, waits again, executes, or was      *)
(* done.                                                                    *)
LEMMA RunOnceStep == ASSUME Inv, RunOnce PROVE Inv'
<1> PICK b : b = Board
  OBVIOUS
<1> PICK h : h = Head(ready)
  OBVIOUS
<1>1. /\ b \in Boards /\ Gathers(b, {}) /\ AllPlaced(b, {}, <<>>, {NoTask})
      /\ inRun /\ running = NoTask /\ ready # <<>> /\ {NoTask} \cap Known = {}
  BY DEF Inv, OnePlace, RunOnce, Pumping, Known, Tasks, NoTask
<1>2. /\ b.done = done /\ b.ready = ready /\ b.links = waitLinks /\ b.timers = timers
      /\ b.ioWaits = ioWaits /\ b.pending = pending /\ b.filled = filled
  BY BoardFields
<1>3. h \in Runnable /\ Tail(ready) \in Seq(Runnable)
  BY <1>1, InvBoard, HeadTailProperties
<1> DEFINE r == [Board EXCEPT !.ready = Tail(@)]
<1>4. /\ r.ready = Tail(ready) /\ r.done = done /\ r.links = waitLinks /\ r.timers = timers
      /\ r.ioWaits = ioWaits /\ r.pending = pending /\ r.filled = filled
      /\ r \in Boards
  <2>1. r = [b EXCEPT !.ready = Tail(ready)]
    BY <1>2
  <2> HIDE DEF r
  <2> QED  BY <1>1, <1>2, <1>3, <2>1 DEF Boards
<1> HIDE DEF r
<1> PICK a : a = r
  OBVIOUS
<1>5. Pops(b, a)
  BY <1>2, <1>4 DEF Pops
<1>6. /\ AllPlaced(a, {}, <<>>, {h}) /\ a \in Boards /\ Gathers(a, {})
  <2>1. b.ready # <<>> /\ a \in Boards /\ h = Head(b.ready)
    BY <1>1, <1>2, <1>4
  <2>2. AllPlaced(a, {}, <<>>, {h})
    BY <1>1, <1>5, <2>1, TakeReady
  <2>3. a.done = b.done /\ a.pending = b.pending /\ a.filled = b.filled
    BY <1>5 DEF Pops
  <2> QED  BY <1>1, <2>1, <2>2, <2>3 DEF Gathers
<1>7. /\ a.done = done /\ a.links = waitLinks /\ a.timers = timers /\ a.ready = Tail(ready)
      /\ a.ioWaits = ioWaits /\ a.pending = pending /\ a.filled = filled
  BY <1>4
<1>8. /\ UNCHANGED <<kind, gatherLinks, nextTaskId, haveScheduler, jobs, failed>>
      /\ \A x \in Tasks \ Known : a.links[x] = <<>>
      /\ awaits \in [Tasks -> Known \union {NoTask}] /\ haveScheduler
  BY <1>1, <1>7 DEF RunOnce, Inv, Unasked
<1> PICK c : c = Board'
  OBVIOUS
<1>9. /\ c.done = done' /\ c.ready = ready' /\ c.links = waitLinks'
      /\ c.timers = timers' /\ c.ioWaits = ioWaits'
      /\ c.pending = pending' /\ c.filled = filled'
      /\ c = [done |-> done', ready |-> ready', links |-> waitLinks', timers |-> timers',
              ioWaits |-> ioWaits', pending |-> pending', filled |-> filled']
  BY NextFields DEF Board
<1>10. CASE h \in Undone /\ kind[h] = "thread"
  <2>1. PollThread(h)
    BY <1>10 DEF RunOnce
  <2>2. h \in Known /\ h \notin a.done
    BY <1>7, <1>10 DEF Undone
  <2>3. CASE h \notin jobs
    <3>1. /\ Becomes(FinishSlot(a, h)) /\ awaits' = awaits /\ running' = NoTask
          /\ inRun' => ~FinishRaises(h)
      BY <1>1, <2>1, <2>3 DEF PollThread, r
    <3> QED  BY <1>1, <1>6, <1>7, <1>8, <1>10, <2>2, <2>3, <3>1, FinishStep
  <2>4. CASE h \in jobs
    <3>1. /\ ready' = Tail(ready) /\ timers' = Append(timers, [task |-> h, left |-> 1])
          /\ UNCHANGED <<done, waitLinks, ioWaits, pending, filled, awaits, running, inRun>>
      BY <2>1, <2>4 DEF PollThread
    <3>2. /\ c.timers = Append(a.timers, [task |-> h, left |-> 1]) /\ c.done = a.done
          /\ c.ready = a.ready /\ c.links = a.links /\ c.ioWaits = a.ioWaits
          /\ c.pending = a.pending /\ c.filled = a.filled
      BY <1>7, <1>9, <3>1
    <3>3. c \in Boards
      <4> DEFINE E == [task : Timed, left : 1 .. MaxPeriods]
      <4>1. [task |-> h, left |-> 1] \in E
        BY <1>10, SchedulerAssumption DEF Undone, Timed
      <4>2. a.timers \in Seq(E)
        BY <1>6 DEF Boards
      <4> HIDE DEF E
      <4>3. Append(a.timers, [task |-> h, left |-> 1]) \in Seq(E)
        BY <4>1, <4>2
      <4>4. c = [done |-> a.done, ready |-> a.ready, links |-> a.links, timers |-> c.timers,
                 ioWaits |-> a.ioWaits, pending |-> a.pending, filled |-> a.filled]
        BY <1>9, <3>2
      <4>5. c.timers \in Seq([task : Timed, left : 1 .. MaxPeriods])
        BY <3>2, <4>3 DEF E
      <4> QED  BY <1>6, <4>4, <4>5 DEF Boards
    <3>4. Adds(a, c, h)
      BY <1>6, <3>2, <3>3, AddTimer
    <3> QED  BY <1>1, <1>6, <1>7, <1>8, <3>1, <3>2, <3>3, <3>4, PutBack
  <2> QED  BY <2>3, <2>4
<1>11. CASE h \in Undone /\ kind[h] = "coro"
  <2> PICK x : x = awaits[h]
    OBVIOUS
  <2>0. AdvanceCoro(h)
    BY <1>11 DEF RunOnce
  <2>1. CASE x \in Undone
    <3>1. /\ ready' = Tail(ready) /\ waitLinks' = [waitLinks EXCEPT ![x] = Append(@, h)]
          /\ UNCHANGED <<done, timers, ioWaits, pending, filled, awaits, running, inRun>>
      BY <2>0, <2>1 DEF AdvanceCoro
    <3>2. /\ c.links = [a.links EXCEPT ![x] = Append(@, h)] /\ c.done = a.done
          /\ c.ready = a.ready /\ c.timers = a.timers /\ c.ioWaits = a.ioWaits
          /\ c.pending = a.pending /\ c.filled = a.filled
      BY <1>7, <1>9, <3>1
    <3>3. x \in Tasks \ a.done /\ x \in Known
      BY <1>7, <2>1 DEF Undone, Known
    <3>4. /\ c.links \in [Tasks -> Seq(Runnable)]
          /\ \A z \in Tasks : z # x => c.links[z] = a.links[z]
      <4>1. a.links \in [Tasks -> Seq(Runnable)]
        BY <1>6 DEF Boards
      <4> QED  BY <1>3, <3>2, <3>3, <4>1
    <3>5. c \in Boards
      <4>1. c = [done |-> a.done, ready |-> a.ready, links |-> c.links, timers |-> a.timers,
                 ioWaits |-> a.ioWaits, pending |-> a.pending, filled |-> a.filled]
        BY <1>9, <3>2
      <4> QED  BY <1>6, <3>4, <4>1 DEF Boards
    <3>6. Adds(a, c, h)
      BY <1>6, <3>2, <3>3, <3>5, AddLink
    <3>7. \A z \in Tasks \ Known : c.links[z] = <<>>
      BY <1>8, <3>3, <3>4
    <3> QED  BY <1>1, <1>6, <1>7, <1>8, <3>1, <3>2, <3>5, <3>6, <3>7, PutBack
  <2>2. CASE x \notin Undone
    <3>1. /\ ready' = Tail(ready) /\ awaits' = [awaits EXCEPT ![h] = NoTask] /\ running' = h
          /\ UNCHANGED <<done, waitLinks, timers, ioWaits, pending, filled, inRun>>
      BY <2>0, <2>2 DEF AdvanceCoro
    <3>2. c = a
      <4>1. /\ c.ready = a.ready /\ c.done = a.done /\ c.links = a.links /\ c.timers = a.timers
            /\ c.ioWaits = a.ioWaits /\ c.pending = a.pending /\ c.filled = a.filled
        BY <1>7, <1>9, <3>1
      <4> QED  BY <1>6, <1>9, <4>1 DEF Boards
    <3>3. /\ awaits' \in [Tasks -> Known \union {NoTask}]
          /\ running' \in Known \ a.done /\ kind[running'] = "coro" /\ inRun' /\ haveScheduler'
      BY <1>1, <1>7, <1>8, <1>11, <3>1 DEF Undone
    <3>4. AllPlaced(a, {}, <<>>, {running'})
      BY <1>6, <3>1
    <3>5. JobsGoOn(a)
      BY <1>7, <1>8, <3>1, JobsStay
    <3> QED  BY <1>6, <1>8, <3>2, <3>3, <3>4, <3>5, StepsOn
  <2> QED  BY <2>1, <2>2
<1>12. CASE ~(h \in Undone /\ kind[h] \in {"thread", "coro"})
  <2>1. /\ ready' = Tail(ready)
        /\ UNCHANGED <<done, waitLinks, timers, ioWaits, pending, filled, awaits, running, inRun>>
    BY <1>12 DEF RunOnce
  <2>2. c = a
    <3>1. /\ c.ready = a.ready /\ c.done = a.done /\ c.links = a.links /\ c.timers = a.timers
          /\ c.ioWaits = a.ioWaits /\ c.pending = a.pending /\ c.filled = a.filled
      BY <1>7, <1>9, <2>1
    <3> QED  BY <1>6, <1>9, <3>1 DEF Boards
  <2>3. h \in a.done
    BY <1>3, <1>7, <1>12 DEF Undone, Runnable
  <2>4. AllPlaced(a, {}, <<>>, {NoTask})
    <3>1. \A t \in Known \ a.done : t \in {h} <=> t \in {NoTask}
      BY <1>1, <2>3
    <3> QED  BY <1>6, <3>1, OthersExcused
  <2>5. JobsGoOn(a)
    BY <1>7, <1>8, <2>1, JobsStay
  <2> QED  BY <1>1, <1>6, <1>8, <2>1, <2>2, <2>4, <2>5, StepsOn
<1> QED  BY <1>10, <1>11, <1>12

(***************************************************************************)
(* The slots that the code of a coroutine makes                            *)
(***************************************************************************)

(* What _allocSlot does to the ids, and to the places that there were: the   *)
(* new slot is in none.                                                      *)
LEMMA NewId ==
    ASSUME Inv, NEW k \in Kinds \ {"none"}, Allocate(k), NEW n, n = nextTaskId
    PROVE  /\ n \in Tasks /\ n \notin Known /\ Known' = Known \union {n}
           /\ kind' \in [Tasks -> Kinds] /\ kind'[n] = k
           /\ \A t \in Known : kind'[t] = kind[t]
           /\ running \in Known \ done /\ running # n /\ running' = running
           /\ kind[running] = "coro" /\ inRun
           /\ Runnable \subseteq Runnable' /\ Timed \subseteq Timed' /\ Handled \subseteq Handled'
           /\ Numbered' /\ (inRun' => haveScheduler')
           /\ awaits' \in [Tasks -> (Known \union {NoTask})'] /\ inRun' = inRun
           /\ failed' = failed
<1>1. /\ n \in Tasks /\ kind \in [Tasks -> Kinds] /\ kind' = [kind EXCEPT ![n] = k]
      /\ nextTaskId' = n + 1 /\ running' = running /\ awaits' = awaits
      /\ haveScheduler' = haveScheduler /\ inRun' = inRun /\ running # NoTask
      /\ failed' = failed
  BY DEF Allocate, Inv
<1>2. n \notin Known
  BY <1>1 DEF Inv, Numbered, Tasks
<1>3. Known' = Known \union {n}
  BY <1>1 DEF Known
<1>4. /\ kind' \in [Tasks -> Kinds] /\ kind'[n] = k /\ \A t \in Known : kind'[t] = kind[t]
  BY <1>1, <1>2 DEF Known
<1>5. /\ running \in Known \ done /\ kind[running] = "coro" /\ inRun
  BY <1>1 DEF Inv, RunningOK, Undone
<1>6. Runnable \subseteq Runnable' /\ Timed \subseteq Timed' /\ Handled \subseteq Handled'
  BY <1>3, <1>4 DEF Runnable, Timed, Handled
<1>7. Numbered'
  <2>1. Known' = 1 .. n
    BY <1>1, <1>3 DEF Inv, Numbered, Tasks
  <2>2. n + 1 \in 1 .. MaxTasks + 1 /\ (n + 1) - 1 = n
    BY <1>1, SchedulerAssumption DEF Tasks
  <2> QED  BY <1>1, <2>1, <2>2 DEF Numbered
<1>8. /\ awaits' \in [Tasks -> (Known \union {NoTask})'] /\ (inRun' => haveScheduler')
  BY <1>1, <1>3 DEF Inv
<1> QED  BY <1>1, <1>2, <1>3, <1>4, <1>5, <1>6, <1>7, <1>8

(* The lists stay lists of slots that there are.                             *)
LEMMA ListsGrow ==
    ASSUME Inv, Known \subseteq Known', Runnable \subseteq Runnable', Timed \subseteq Timed',
           Handled \subseteq Handled'
    PROVE  /\ done \in SUBSET (Known') /\ ready \in Seq(Runnable')
           /\ waitLinks \in [Tasks -> Seq(Runnable')]
           /\ timers \in Seq([task : Timed', left : 1 .. MaxPeriods])
           /\ ioWaits \in Seq(Handled')
<1>1. done \in SUBSET (Known') /\ ready \in Seq(Runnable') /\ ioWaits \in Seq(Handled')
  BY InvBoard, SeqMonotonic
<1>2. waitLinks \in [Tasks -> Seq(Runnable')]
  <2>1. \A x \in Tasks : waitLinks[x] \in Seq(Runnable')
    BY InvBoard, SeqMonotonic
  <2> QED  BY <2>1, InvBoard
<1>3. timers \in Seq([task : Timed', left : 1 .. MaxPeriods])
  <2>1. [task : Timed, left : 1 .. MaxPeriods] \subseteq [task : Timed', left : 1 .. MaxPeriods]
    OBVIOUS
  <2> QED  BY <2>1, InvBoard, SeqMonotonic
<1> QED  BY <1>1, <1>2, <1>3

(* A slot that there is not yet is in no place. *)
LEMMA NoPlaceYet ==
    ASSUME NEW b \in Boards, NEW n, n \notin Known, NEW e
    PROVE  Places(b, {}, e, n) = {}
<1>1. /\ b.ready \in Seq(Runnable) /\ b.links \in [Tasks -> Seq(Runnable)]
      /\ b.timers \in Seq([task : Timed, left : 1 .. MaxPeriods]) /\ b.ioWaits \in Seq(Handled)
  BY DEF Boards
<1>2. /\ \A s \in Seq(Runnable) : \A i \in DOMAIN s : s[i] # n
      /\ \A s \in Seq(Handled) : \A i \in DOMAIN s : s[i] # n
  BY DEF Runnable, Handled
<1>3. \A i \in DOMAIN b.timers : b.timers[i].task # n
  <2> DEFINE E == [task : Timed, left : 1 .. MaxPeriods]
             s == b.timers
  <2>1. s \in Seq(E)
    BY <1>1
  <2>2. \A x \in E : x.task # n
    BY DEF Timed
  <2> HIDE DEF E, s
  <2>3. \A i \in DOMAIN s : s[i].task # n
    BY <2>1, <2>2
  <2> QED  BY <2>3 DEF s
<1>4. \A x \in Tasks : \A i \in DOMAIN b.links[x] : b.links[x][i] # n
  BY <1>1, <1>2
<1>5. \A i \in DOMAIN b.ready : b.ready[i] # n
  BY <1>1, <1>2
<1>6. \A i \in DOMAIN b.ioWaits : b.ioWaits[i] # n
  BY <1>1, <1>2
<1>7. \A p : p \notin Places(b, {}, e, n)
  <2> TAKE p
  <2>1. ~AtLink(b, n, p)
    BY <1>4 DEF AtLink
  <2>2. ~AtOther(b, {}, e, n, p)
    BY <1>3, <1>5, <1>6 DEF AtOther
  <2> QED  BY <2>1, <2>2, PlacesSplit
<1> QED  BY <1>7

(* What the new slots that are no gathers have in common: they are entered   *)
(* in a place of their own, are done at once or are never set up.            *)
LEMMA NewSlot ==
    ASSUME Inv, NEW k \in Kinds \ {"none", "gather"}, Allocate(k), NEW n, n = nextTaskId,
           NEW b \in Boards, b = Board, NEW c, c = Board', c \in Boards', gatherLinks' = gatherLinks,
           c.pending = b.pending, c.filled = b.filled, c.links = b.links,
           jobs' = IF k = "thread" THEN jobs \union {n} ELSE jobs,
           \/ c.done = b.done /\ Adds(b, c, n)
           \/ /\ \/ c.done = b.done \union {n} /\ k # "thread"
                 \/ c.done = b.done /\ k = "unset"
              /\ \A e, u : u # n => Places(c, {}, e, u) = Places(b, {}, e, u)
    PROVE  Inv'
<1>1. /\ n \in Tasks /\ n \notin Known /\ Known' = Known \union {n}
      /\ kind' \in [Tasks -> Kinds] /\ kind'[n] = k
      /\ \A t \in Known : kind'[t] = kind[t]
      /\ running \in Known \ done /\ running # n /\ running' = running
      /\ kind[running] = "coro" /\ inRun
      /\ Numbered' /\ (inRun' => haveScheduler')
      /\ awaits' \in [Tasks -> (Known \union {NoTask})'] /\ inRun' = inRun
      /\ failed' = failed /\ failed \subseteq Known /\ jobs \subseteq Known
  BY NewId DEF Inv, JobsOK
<1>2. /\ b.done = done /\ b.links = waitLinks /\ c.done = done' /\ c.links = waitLinks'
      /\ done \in SUBSET Known
  BY BoardFields, NextFields, InvBoard
<1>3. Unasked' /\ RunningOK'
  BY <1>1, <1>2 DEF Inv, Unasked, RunningOK, Undone
<1>4. LinksOK'
  <2> DEFINE E == [gather : Known, index : 1..MaxChildren, child : Known]
             F == [gather : Known', index : 1..MaxChildren, child : Known']
  <2>1. gatherLinks \in Seq(E) /\ E \subseteq F
    BY <1>1 DEF Inv, LinksOK
  <2>2. gatherLinks \in Seq(F)
    <3> HIDE DEF E, F
    <3> QED  BY <2>1, SeqMonotonic
  <2>3. \A j \in DOMAIN gatherLinks : kind'[gatherLinks[j].gather] = "gather"
    BY <1>1, LinkTypes DEF Inv
  <2> QED  BY <2>2, <2>3 DEF Inv, LinksOK
<1>5. Gathers(Board, {})'
  <2>1. Gathers(b, {})
    BY DEF Inv
  <2>2. \A g : Indexes(g)' = Indexes(g)
    BY DEF Indexes
  <2>3. \A g \in Known' : kind'[g] = "gather" => g \in Known /\ kind[g] = "gather" /\ g # n
    BY <1>1
  <2>4. \A j \in DOMAIN gatherLinks :
          /\ gatherLinks[j].child \in Known /\ gatherLinks[j].child # n
          /\ kind'[gatherLinks[j].child] = kind[gatherLinks[j].child]
    BY <1>1, LinkTypes DEF Inv
  <2>5. \A x : x # n => (x \in c.done <=> x \in b.done)
    OBVIOUS
  <2>6. \A g \in Known' : kind'[g] = "gather" =>
          /\ c.pending[g] = Cardinality(Indexes(g)' \ c.filled[g])
          /\ (g \in c.done) <=> (c.pending[g] = 0)
    BY <2>1, <2>2, <2>3, <2>5 DEF Gathers
  <2>7. \A j \in DOMAIN gatherLinks :
          LET l == gatherLinks[j]
              full == l.index \in c.filled[l.gather]
          IN  /\ full => l.child \in c.done \ failed
              /\ l.child \in c.done \ failed => full \/ kind'[l.child] = "gather"
    BY <2>1, <2>4, <2>5 DEF Gathers
  <2> QED  BY <1>1, <2>6, <2>7 DEF Gathers
<1>6. OnePlace'
  <2> SUFFICES ASSUME NEW t \in Known' \ c.done, kind'[t] \notin {"gather", "unset"}
               PROVE  Placed(Places(c, {}, <<>>, t), t, {running})
    <3>1. \A t : Places(c, {}, <<>>, t)' = Places(c, {}, <<>>, t)
      BY DEF Places, Tickets
    <3> QED  BY <1>1, <3>1 DEF OnePlace, AllPlaced
  <2>1. AllPlaced(b, {}, <<>>, {running})
    BY <1>1 DEF Inv, OnePlace
  <2>2. CASE t # n
    <3>1. t \in Known \ b.done /\ kind[t] \notin {"gather", "unset"}
      BY <1>1, <2>2
    <3>2. Placed(Places(b, {}, <<>>, t), t, {running})
      BY <2>1, <3>1 DEF AllPlaced
    <3>3. Places(c, {}, <<>>, t) = Places(b, {}, <<>>, t)
      BY <2>2 DEF Adds
    <3> QED  BY <3>2, <3>3
  <2>3. CASE t = n
    <3>1. Adds(b, c, n)
      BY <1>1, <2>3
    <3>2. PICK q : \A D, e, u : Places(c, D, e, u) =
                     IF u = n THEN Places(b, D, e, u) \union {q} ELSE Places(b, D, e, u)
      BY <3>1 DEF Adds
    <3>3. Places(b, {}, <<>>, n) = {}
      BY <1>1, NoPlaceYet
    <3>4. Places(c, {}, <<>>, n) = {q}
      BY <3>2, <3>3
    <3> QED  BY <1>1, <2>3, <3>4 DEF Placed
  <2> QED  BY <2>2, <2>3
<1>7. JobsOK'
  <2>1. \A x \in Known : x # n /\ (x \in c.done <=> x \in b.done)
    BY <1>1
  <2>2. k = "thread" => n \notin c.done
    BY <1>1, <1>2
  <2> QED  BY <1>1, <1>2, <2>1, <2>2 DEF Inv, JobsOK
<1>8. NoFailedChild'
  <2>1. \A x \in failed : x \in c.done <=> x \in b.done
    BY <1>1
  <2> QED  BY <1>1, <1>2, <2>1 DEF Inv, NoFailedChild
<1> QED  BY <1>1, <1>3, <1>4, <1>5, <1>6, <1>7, <1>8 DEF Inv

(* The boards before and after a new slot, field by field. *)
LEMMA BothBoards ==
    ASSUME NEW b, NEW c, b = Board, c = Board'
    PROVE  /\ b.done = done /\ b.ready = ready /\ b.links = waitLinks /\ b.timers = timers
           /\ b.ioWaits = ioWaits /\ b.pending = pending /\ b.filled = filled
           /\ c.done = done' /\ c.ready = ready' /\ c.links = waitLinks' /\ c.timers = timers'
           /\ c.ioWaits = ioWaits' /\ c.pending = pending' /\ c.filled = filled'
BY BoardFields, NextFields

(* A slot that is queued at once.                                           *)
LEMMA ReadyStep ==
    ASSUME Inv, NEW k \in {"coro", "thread"}, Allocate(k), ready' = Append(ready, nextTaskId),
           UNCHANGED <<done, waitLinks, gatherLinks, pending, filled, timers, ioWaits>>,
           jobs' = IF k = "thread" THEN jobs \union {nextTaskId} ELSE jobs
    PROVE  Inv'
<1> PICK n, b, c : n = nextTaskId /\ b = Board /\ c = Board'
  OBVIOUS
<1>1. /\ n \in Tasks /\ n \notin Known /\ Known' = Known \union {n} /\ kind'[n] = k
      /\ Runnable \subseteq Runnable' /\ Timed \subseteq Timed' /\ Handled \subseteq Handled'
  BY NewId DEF Kinds
<1>2. n \in Runnable'
  BY <1>1 DEF Runnable
<1>3. ready' \in Seq(Runnable')
  BY <1>1, <1>2, ListsGrow
<1>4. c \in Boards'
  <2>1. /\ done' \in SUBSET (Known') /\ waitLinks' \in [Tasks -> Seq(Runnable')]
        /\ timers' \in Seq([task : Timed', left : 1 .. MaxPeriods]) /\ ioWaits' \in Seq(Handled')
        /\ pending' \in [Tasks -> Int] /\ filled' \in [Tasks -> SUBSET (1 .. MaxChildren)]
    BY <1>1, ListsGrow, InvBoard
  <2> QED  BY <1>3, <2>1 DEF Boards, Board
<1>5. /\ c.ready = Append(b.ready, n) /\ c.done = b.done /\ c.links = b.links
      /\ c.timers = b.timers /\ c.ioWaits = b.ioWaits
      /\ c.pending = b.pending /\ c.filled = b.filled /\ b \in Boards
  BY BothBoards DEF Inv
<1>6. Adds(b, c, n)
  BY <1>5, AddReady
<1>7. k \in Kinds \ {"none", "gather"}
  BY DEF Kinds
<1> QED  BY <1>4, <1>5, <1>6, <1>7, NewSlot

(* Task.create, and Task.runThread.                                         *)
LEMMA CreateStep == ASSUME Inv, Create PROVE Inv'
BY ReadyStep DEF Create

LEMMA RunThreadStep == ASSUME Inv, RunThread PROVE Inv'
BY ReadyStep DEF RunThread

(* Task.sleep puts its slot among the timers.                               *)
LEMMA SleepStep == ASSUME Inv, Sleep PROVE Inv'
<1> PICK n, b, c : n = nextTaskId /\ b = Board /\ c = Board'
  OBVIOUS
<1>0. PICK m \in 1 .. MaxPeriods : timers' = Append(timers, [task |-> n, left |-> m])
  BY DEF Sleep
<1>1. /\ n \in Tasks /\ n \notin Known /\ Known' = Known \union {n} /\ kind'[n] = "sleep"
      /\ Runnable \subseteq Runnable' /\ Timed \subseteq Timed' /\ Handled \subseteq Handled'
  BY NewId DEF Kinds, Sleep
<1>2. n \in Timed'
  BY <1>1 DEF Timed
<1>3. timers' \in Seq([task : Timed', left : 1 .. MaxPeriods])
  <2> DEFINE E == [task : Timed', left : 1 .. MaxPeriods]
  <2>1. [task |-> n, left |-> m] \in E
    BY <1>2
  <2>2. timers \in Seq(E)
    BY <1>1, ListsGrow
  <2> HIDE DEF E
  <2>3. timers' \in Seq(E)
    BY <1>0, <2>1, <2>2
  <2> QED  BY <2>3 DEF E
<1>4. c \in Boards'
  <2>1. /\ done' \in SUBSET (Known') /\ waitLinks' \in [Tasks -> Seq(Runnable')]
        /\ ready' \in Seq(Runnable') /\ ioWaits' \in Seq(Handled')
        /\ pending' \in [Tasks -> Int] /\ filled' \in [Tasks -> SUBSET (1 .. MaxChildren)]
    BY <1>1, ListsGrow, InvBoard DEF Sleep
  <2> QED  BY <1>3, <2>1 DEF Boards, Board
<1>5. /\ c.ready = b.ready /\ c.done = b.done /\ c.links = b.links
      /\ c.timers = Append(b.timers, [task |-> n, left |-> m]) /\ c.ioWaits = b.ioWaits
      /\ c.pending = b.pending /\ c.filled = b.filled /\ b \in Boards
  BY <1>0, BothBoards DEF Inv, Sleep
<1>6. Adds(b, c, n)
  BY <1>5, AddTimer
<1>7. /\ "sleep" \in Kinds \ {"none", "gather"} /\ Allocate("sleep") /\ gatherLinks' = gatherLinks
      /\ jobs' = jobs
  BY DEF Kinds, Sleep
<1> QED  BY <1>4, <1>5, <1>6, <1>7, NewSlot

(* That a slot nobody waits for is marked done takes no place away. *)
LEMMA DonePlaces ==
    ASSUME NEW b, NEW c, NEW n, b.links[n] = <<>>, c.done = b.done \union {n},
           c.ready = b.ready, c.links = b.links, c.timers = b.timers, c.ioWaits = b.ioWaits
    PROVE  \A D, e, u : Places(c, D, e, u) = Places(b, D, e, u)
<1> SUFFICES ASSUME NEW D, NEW e, NEW u
             PROVE  Places(c, D, e, u) = Places(b, D, e, u)
  OBVIOUS
<1>1. ASSUME NEW p
      PROVE  p \in Places(c, D, e, u) <=> p \in Places(b, D, e, u)
  <2>1. AtLink(c, u, p) <=> AtLink(b, u, p)
    BY DEF AtLink
  <2>2. AtOther(c, D, e, u, p) <=> AtOther(b, D, e, u, p)
    BY DEF AtOther
  <2> QED  BY <2>1, <2>2, PlacesSplit
<1> QED  BY <1>1

(* Task.waitRead: the entry is made even when the slot is done at once.     *)
LEMMA WaitIoStep == ASSUME Inv, WaitIo PROVE Inv'
<1> PICK n, b, c : n = nextTaskId /\ b = Board /\ c = Board'
  OBVIOUS
<1>1. /\ n \in Tasks /\ n \notin Known /\ Known' = Known \union {n} /\ kind'[n] = "io"
      /\ Runnable \subseteq Runnable' /\ Timed \subseteq Timed' /\ Handled \subseteq Handled'
  BY NewId DEF Kinds, WaitIo
<1>2. n \in Handled'
  BY <1>1 DEF Handled
<1>3. ioWaits' \in Seq(Handled')
  BY <1>1, <1>2, ListsGrow DEF WaitIo
<1>4. c \in Boards'
  <2>1. /\ waitLinks' \in [Tasks -> Seq(Runnable')]
        /\ timers' \in Seq([task : Timed', left : 1 .. MaxPeriods]) /\ ready' \in Seq(Runnable')
        /\ pending' \in [Tasks -> Int] /\ filled' \in [Tasks -> SUBSET (1 .. MaxChildren)]
    BY <1>1, ListsGrow, InvBoard DEF WaitIo
  <2>2. done' \in SUBSET (Known')
    BY <1>1, InvBoard DEF WaitIo
  <2> QED  BY <1>3, <2>1, <2>2 DEF Boards, Board
<1>5. /\ c.ready = b.ready /\ c.links = b.links /\ c.ioWaits = Append(b.ioWaits, n)
      /\ c.timers = b.timers /\ c.pending = b.pending /\ c.filled = b.filled
      /\ c.done = b.done \/ c.done = b.done \union {n}
      /\ b \in Boards /\ b.links[n] = <<>>
  BY <1>1, BothBoards DEF Inv, Unasked, WaitIo
<1>6. \/ c.done = b.done /\ Adds(b, c, n)
      \/ /\ c.done = b.done \union {n}
         /\ \A e, u : u # n => Places(c, {}, e, u) = Places(b, {}, e, u)
  <2>1. CASE c.done = b.done
    BY <1>5, <2>1, AddIo
  <2>2. CASE c.done = b.done \union {n}
    <3> DEFINE d == [b EXCEPT !.ioWaits = Append(b.ioWaits, n)]
    <3>1. /\ d.ready = b.ready /\ d.links = b.links /\ d.ioWaits = Append(b.ioWaits, n)
          /\ d.timers = b.timers /\ d.done = b.done
      BY <1>5 DEF Boards
    <3> HIDE DEF d
    <3>2. Adds(b, d, n)
      BY <1>5, <3>1, AddIo
    <3>3. \A D, e, u : Places(c, D, e, u) = Places(d, D, e, u)
      <4>1. /\ d.links[n] = <<>> /\ c.done = d.done \union {n} /\ c.ready = d.ready
            /\ c.links = d.links /\ c.timers = d.timers /\ c.ioWaits = d.ioWaits
        BY <1>5, <2>2, <3>1
      <4> QED  BY <4>1, DonePlaces
    <3>4. \A e, u : u # n => Places(d, {}, e, u) = Places(b, {}, e, u)
      BY <3>2 DEF Adds
    <3> QED  BY <2>2, <3>3, <3>4
  <2> QED  BY <1>5, <2>1, <2>2
<1>7. /\ "io" \in Kinds \ {"none", "gather"} /\ Allocate("io") /\ gatherLinks' = gatherLinks
      /\ jobs' = jobs
  BY DEF Kinds, WaitIo
<1> QED  BY <1>4, <1>5, <1>6, <1>7, NewSlot

(* Task.gather that raises leaves a slot that is in no place.               *)
LEMMA GatherRaisesStep == ASSUME Inv, GatherRaises PROVE Inv'
<1> PICK n, b, c : n = nextTaskId /\ b = Board /\ c = Board'
  OBVIOUS
<1>1. /\ Known' = Known \union {n}
      /\ Runnable \subseteq Runnable' /\ Timed \subseteq Timed' /\ Handled \subseteq Handled'
  BY NewId DEF Kinds, GatherRaises
<1>2. c \in Boards'
  <2>1. /\ done' \in SUBSET (Known') /\ waitLinks' \in [Tasks -> Seq(Runnable')]
        /\ timers' \in Seq([task : Timed', left : 1 .. MaxPeriods]) /\ ioWaits' \in Seq(Handled')
        /\ ready' \in Seq(Runnable')
        /\ pending' \in [Tasks -> Int] /\ filled' \in [Tasks -> SUBSET (1 .. MaxChildren)]
    BY <1>1, ListsGrow, InvBoard DEF GatherRaises
  <2> QED  BY <2>1 DEF Boards, Board
<1>3. /\ c.ready = b.ready /\ c.done = b.done /\ c.links = b.links /\ c.timers = b.timers
      /\ c.ioWaits = b.ioWaits /\ c.pending = b.pending /\ c.filled = b.filled /\ b \in Boards
  BY BothBoards DEF Inv, GatherRaises
<1>4. \A e, u : u # n => Places(c, {}, e, u) = Places(b, {}, e, u)
  BY <1>3, SameLists
<1>5. /\ "unset" \in Kinds \ {"none", "gather"} /\ Allocate("unset") /\ gatherLinks' = gatherLinks
      /\ jobs' = jobs
  BY DEF Kinds, GatherRaises
<1> QED  BY <1>2, <1>3, <1>4, <1>5, NewSlot

(* The gather n is linked to its children. *)
LinksAdded(n, children) ==
  gatherLinks' = gatherLinks \o
    [i \in DOMAIN children |-> [gather |-> n, index |-> i, child |-> children[i]]]

(* The links of a gather that is made: one for each child, after the others. *)
LEMMA NewLinks ==
    ASSUME Inv, Allocate("gather"), NEW n, n = nextTaskId, NEW children \in Children,
           LinksAdded(n, children)
    PROVE  /\ LinksOK'
           /\ \A g \in Known : Indexes(g)' = Indexes(g)
           /\ Indexes(n)' = DOMAIN children
           /\ \A k \in DOMAIN gatherLinks' :
                \/ k \in DOMAIN gatherLinks /\ gatherLinks'[k] = gatherLinks[k]
                \/ \E i \in DOMAIN children :
                     gatherLinks'[k] = [gather |-> n, index |-> i, child |-> children[i]]
<1> DEFINE E == [gather : Known', index : 1 .. MaxChildren, child : Known']
           s == gatherLinks
           u == [i \in DOMAIN children |-> [gather |-> n, index |-> i, child |-> children[i]]]
           v == gatherLinks'
<1>1. /\ n \in Tasks /\ n \notin Known /\ Known' = Known \union {n} /\ kind'[n] = "gather"
      /\ \A t \in Known : kind'[t] = kind[t]
  BY NewId DEF Kinds
<1>2. PICK m \in 0 .. MaxChildren : children \in [1 .. m -> Handles]
  BY DEF Children
<1>3. /\ DOMAIN children = 1 .. m /\ m \in Nat /\ 1 .. m \subseteq 1 .. MaxChildren
      /\ \A i \in 1 .. m : children[i] \in Known
  BY <1>2, SchedulerAssumption DEF Handles
<1>4. u \in Seq(E) /\ Len(u) = m /\ \A i \in 1 .. m : u[i] = [gather |-> n, index |-> i, child |-> children[i]]
  <2>1. \A i \in 1 .. m : u[i] \in E
    BY <1>1, <1>3
  <2>2. u \in [1 .. m -> E]
    BY <1>3, <2>1
  <2> QED  BY <1>3, <2>2
<1>5. s \in Seq(E)
  <2> DEFINE F == [gather : Known, index : 1 .. MaxChildren, child : Known]
  <2>1. s \in Seq(F) /\ F \subseteq E
    BY <1>1 DEF Inv, LinksOK
  <2> HIDE DEF E, F, s
  <2> QED  BY <2>1, SeqMonotonic
<1>6. v = s \o u
  BY DEF LinksAdded
<1>7. /\ v \in Seq(E) /\ Len(s) \in Nat /\ DOMAIN s = 1 .. Len(s) /\ DOMAIN u = 1 .. m
      /\ DOMAIN v = 1 .. Len(s) + m
      /\ \A i \in DOMAIN s : v[i] = s[i]
      /\ \A i \in DOMAIN u : v[Len(s) + i] = u[i]
      /\ \A i \in DOMAIN v : i > Len(s) => i - Len(s) \in DOMAIN u /\ v[i] = u[i - Len(s)]
  <2> HIDE DEF E, s, u, v
  <2>1. Len(u) = m
    BY <1>4
  <2> QED  BY <1>4, <1>5, <1>6, <2>1, Joined
<1>71. s = gatherLinks /\ v = gatherLinks'
  OBVIOUS
<1> HIDE DEF u, s, v
<1>8. \A k \in DOMAIN v :
        \/ k \in DOMAIN s /\ v[k] = s[k]
        \/ /\ k - Len(s) \in 1 .. m
           /\ v[k] = [gather |-> n, index |-> k - Len(s), child |-> children[k - Len(s)]]
  <2> TAKE k \in DOMAIN v
  <2>1. CASE k <= Len(s)
    BY <1>7, <2>1
  <2>2. CASE k > Len(s)
    <3>1. k - Len(s) \in 1 .. m /\ v[k] = u[k - Len(s)]
      BY <1>7, <2>2
    <3> QED  BY <1>4, <3>1
  <2> QED  BY <1>7, <2>1, <2>2
<1>9. \A k \in DOMAIN s : s[k].gather \in Known /\ kind[s[k].gather] = "gather" /\ s[k].gather # n
  BY <1>1, <1>71, LinkTypes DEF Inv
<1>10. LinksOK'
  <2>1. \A k \in DOMAIN v : kind'[v[k].gather] = "gather"
    BY <1>1, <1>8, <1>9
  <2>2. ASSUME NEW k \in DOMAIN v, NEW j \in DOMAIN v, v[k].gather = v[j].gather,
               v[k].index = v[j].index
        PROVE  k = j
    <3>1. CASE k \in DOMAIN s /\ v[k] = s[k]
      <4>1. j \in DOMAIN s /\ v[j] = s[j]
        BY <1>8, <1>9, <2>2, <3>1
      <4> QED  BY <1>71, <2>2, <3>1, <4>1 DEF Inv, LinksOK
    <3>2. CASE /\ k - Len(s) \in 1 .. m
               /\ v[k] = [gather |-> n, index |-> k - Len(s), child |-> children[k - Len(s)]]
      <4>1. /\ j - Len(s) \in 1 .. m
            /\ v[j] = [gather |-> n, index |-> j - Len(s), child |-> children[j - Len(s)]]
        BY <1>8, <1>9, <2>2, <3>2
      <4>2. k - Len(s) = j - Len(s)
        BY <2>2, <3>2, <4>1
      <4> QED  BY <1>7, <4>2
    <3> QED  BY <1>8, <3>1, <3>2
  <2> QED  BY <1>7, <1>71, <2>1, <2>2 DEF LinksOK
<1>11. \A k \in DOMAIN s : k \in DOMAIN v /\ v[k] = s[k]
  BY <1>7
<1>12. \A i \in 1 .. m : \E k \in DOMAIN v : v[k] = [gather |-> n, index |-> i, child |-> children[i]]
  <2> TAKE i \in 1 .. m
  <2>1. Len(s) + i \in DOMAIN v /\ v[Len(s) + i] = u[i]
    BY <1>7
  <2> QED  BY <1>4, <2>1
<1>13. ASSUME NEW g \in Known PROVE Indexes(g)' = Indexes(g)
  <2>1. g # n
    BY <1>1
  <2>2. \A i : (\E k \in DOMAIN v : v[k].gather = g /\ v[k].index = i) <=>
               (\E k \in DOMAIN s : s[k].gather = g /\ s[k].index = i)
    BY <1>8, <1>11, <2>1
  <2>3. \A i : (\E l \in ToSet(v) : l.gather = g /\ l.index = i) <=>
               (\E l \in ToSet(s) : l.gather = g /\ l.index = i)
    BY <2>2 DEF ToSet
  <2> QED  BY <1>71, <2>3 DEF Indexes
<1>14. Indexes(n)' = DOMAIN children
  <2>1. \A i \in 1 .. MaxChildren :
           (\E k \in DOMAIN v : v[k].gather = n /\ v[k].index = i) <=> i \in 1 .. m
    BY <1>3, <1>8, <1>9, <1>12
  <2>2. \A i \in 1 .. MaxChildren :
           (\E l \in ToSet(v) : l.gather = n /\ l.index = i) <=> i \in 1 .. m
    BY <2>1 DEF ToSet
  <2> QED  BY <1>3, <1>71, <2>2 DEF Indexes
<1>15. \A k \in DOMAIN v : \/ k \in DOMAIN s /\ v[k] = s[k]
                           \/ \E i \in DOMAIN children :
                                v[k] = [gather |-> n, index |-> i, child |-> children[i]]
  BY <1>3, <1>8
<1> QED  BY <1>10, <1>13, <1>14, <1>15, <1>71

(* Task.gather starts with the count of the children that are not done.     *)
LEMMA GatherStep == ASSUME Inv, Gather PROVE Inv'
<1> PICK n, b, c : n = nextTaskId /\ b = Board /\ c = Board'
  OBVIOUS
<1>1. /\ n \in Tasks /\ n \notin Known /\ Known' = Known \union {n}
      /\ kind' \in [Tasks -> Kinds] /\ kind'[n] = "gather"
      /\ \A t \in Known : kind'[t] = kind[t]
      /\ running \in Known \ done /\ running # n /\ running' = running
      /\ kind[running] = "coro" /\ inRun
      /\ Runnable \subseteq Runnable' /\ Timed \subseteq Timed' /\ Handled \subseteq Handled'
      /\ Numbered' /\ (inRun' => haveScheduler')
      /\ awaits' \in [Tasks -> (Known \union {NoTask})'] /\ inRun' = inRun
      /\ failed' = failed /\ jobs' = jobs
  BY NewId DEF Kinds, Gather
<1>2. PICK children \in Children :
        /\ Range(children) \cap done \cap failed = {}
        /\ LET early == {i \in DOMAIN children : children[i] \in done}
               late == Len(children) - Cardinality(early)
           IN  /\ filled' = [filled EXCEPT ![n] = early]
               /\ pending' = [pending EXCEPT ![n] = late]
               /\ done' = IF late = 0 THEN done \union {n} ELSE done
               /\ LinksAdded(n, children)
  BY DEF Gather, LinksAdded
<1> DEFINE early == {i \in DOMAIN children : children[i] \in done}
           late == Len(children) - Cardinality(early)
<1>3. /\ LinksOK'
      /\ \A g \in Known : Indexes(g)' = Indexes(g)
      /\ Indexes(n)' = DOMAIN children
      /\ \A k \in DOMAIN gatherLinks' :
           \/ k \in DOMAIN gatherLinks /\ gatherLinks'[k] = gatherLinks[k]
           \/ \E i \in DOMAIN children :
                gatherLinks'[k] = [gather |-> n, index |-> i, child |-> children[i]]
  <2>1. Allocate("gather") /\ LinksAdded(n, children)
    BY <1>2 DEF Gather
  <2> HIDE DEF early, late
  <2> QED  BY <2>1, NewLinks
<1>4. PICK m \in 0 .. MaxChildren : children \in [1 .. m -> Handles]
  BY DEF Children
<1>5. /\ DOMAIN children = 1 .. m /\ m \in Nat /\ 1 .. m \subseteq 1 .. MaxChildren
      /\ \A i \in 1 .. m : children[i] \in Known
      /\ Len(children) = m
  BY <1>4, SchedulerAssumption DEF Handles
<1>6. /\ late = Cardinality(DOMAIN children \ early) /\ late \in Nat
      /\ early \subseteq 1 .. MaxChildren
  <2>1. IsFiniteSet(1 .. m) /\ Cardinality(1 .. m) = m
    BY <1>5, FS_Interval
  <2>2. early \subseteq 1 .. m
    BY <1>5
  <2>3. /\ IsFiniteSet(early) /\ IsFiniteSet(1 .. m \ early)
    BY <2>1, <2>2, FS_Subset, FS_Difference
  <2> DEFINE A == early
             B == 1 .. m \ early
  <2>4. A \union B = 1 .. m /\ A \cap B = {}
    BY <2>2
  <2>5. Cardinality(A \union B) = Cardinality(A) + Cardinality(B) - Cardinality(A \cap B)
    BY <2>3, FS_Union
  <2>6. Cardinality({}) = 0 /\ Cardinality(A) \in Nat /\ Cardinality(B) \in Nat
    BY <2>3, FS_EmptySet, FS_CardinalityType
  <2>7. DOMAIN children \ early = B /\ early = A
    BY <1>5
  <2>8. early \subseteq 1 .. MaxChildren
    BY <1>5, <2>2
  <2> HIDE DEF early, A, B
  <2>9. m = Cardinality(A) + Cardinality(B)
    <3>1. Cardinality(A \union B) = m /\ Cardinality(A \cap B) = 0
      BY <2>1, <2>4, <2>6, Zenon
    <3> QED  BY <1>5, <2>5, <2>6, <3>1
  <2>10. m - Cardinality(A) = Cardinality(B)
    BY <1>5, <2>6, <2>9
  <2> QED  BY <1>5, <2>6, <2>7, <2>8, <2>10
<1> HIDE DEF late
<1>7. /\ b.done = done /\ b.ready = ready /\ b.links = waitLinks /\ b.timers = timers
      /\ b.ioWaits = ioWaits /\ b.pending = pending /\ b.filled = filled
      /\ c.done = done' /\ c.ready = ready' /\ c.links = waitLinks' /\ c.timers = timers'
      /\ c.ioWaits = ioWaits' /\ c.pending = pending' /\ c.filled = filled'
  BY BothBoards
<1>8. /\ c.filled = [filled EXCEPT ![n] = early] /\ c.pending = [pending EXCEPT ![n] = late]
      /\ c.done = (IF late = 0 THEN done \union {n} ELSE done)
      /\ c.ready = b.ready /\ c.links = b.links /\ c.timers = b.timers /\ c.ioWaits = b.ioWaits
  BY <1>2, <1>7 DEF late, Gather
<1>9. /\ done \in SUBSET Known /\ pending \in [Tasks -> Int]
      /\ filled \in [Tasks -> SUBSET (1 .. MaxChildren)]
  BY InvBoard
<1>10. /\ c.filled[n] = early /\ c.pending[n] = late
       /\ \A g \in Known : c.filled[g] = filled[g] /\ c.pending[g] = pending[g]
       /\ c.filled \in [Tasks -> SUBSET (1 .. MaxChildren)] /\ c.pending \in [Tasks -> Int]
  <2>1. \A g \in Known : g \in Tasks /\ g # n
    BY <1>1 DEF Known
  <2> HIDE DEF early
  <2> QED  BY <1>1, <1>6, <1>8, <1>9, <2>1
<1>11. /\ \A g \in Known : g \in c.done <=> g \in done
       /\ n \in c.done <=> late = 0
       /\ c.done \subseteq Known'
  BY <1>1, <1>8, <1>9
<1>12. c \in Boards'
  <2>1. /\ ready' \in Seq(Runnable') /\ waitLinks' \in [Tasks -> Seq(Runnable')]
        /\ timers' \in Seq([task : Timed', left : 1 .. MaxPeriods]) /\ ioWaits' \in Seq(Handled')
    BY <1>1, ListsGrow DEF Gather
  <2>2. /\ done' \in SUBSET (Known') /\ pending' \in [Tasks -> Int]
        /\ filled' \in [Tasks -> SUBSET (1 .. MaxChildren)]
    BY <1>7, <1>10, <1>11
  <2> QED  BY <2>1, <2>2 DEF Boards, Board
<1>13. Gathers(Board, {})'
  <2>1. Gathers(b, {})
    BY DEF Inv
  <2>2. ASSUME NEW g \in Known', kind'[g] = "gather"
        PROVE  /\ c.pending[g] = Cardinality(Indexes(g)' \ c.filled[g])
               /\ (g \in c.done) <=> (c.pending[g] = 0)
    <3>1. CASE g = n
      BY <1>3, <1>6, <1>10, <1>11, <3>1
    <3>2. CASE g # n
      <4>1. g \in Known /\ kind[g] = "gather"
        BY <1>1, <2>2, <3>2
      <4>2. /\ pending[g] = Cardinality(Indexes(g) \ filled[g])
            /\ (g \in done) <=> (pending[g] = 0)
        BY <1>7, <2>1, <4>1 DEF Gathers
      <4> QED  BY <1>3, <1>10, <1>11, <4>1, <4>2
    <3> QED  BY <3>1, <3>2
  <2>3. ASSUME NEW k \in DOMAIN gatherLinks'
        PROVE  LET l == gatherLinks'[k]
                   full == l.index \in c.filled[l.gather]
               IN  /\ full => l.child \in c.done \ failed
                   /\ l.child \in c.done \ failed => full \/ kind'[l.child] = "gather"
    <3>1. CASE k \in DOMAIN gatherLinks /\ gatherLinks'[k] = gatherLinks[k]
      <4> DEFINE l == gatherLinks[k]
      <4>1. l.gather \in Known /\ l.child \in Known
        BY <3>1, LinkTypes DEF Inv
      <4>2. /\ l.index \in filled[l.gather] => l.child \in done \ failed
            /\ l.child \in done \ failed => l.index \in filled[l.gather] \/ kind[l.child] = "gather"
        BY <1>7, <2>1, <3>1 DEF Gathers
      <4> QED  BY <1>1, <1>10, <1>11, <3>1, <4>1, <4>2
    <3>2. CASE \E i \in DOMAIN children :
                 gatherLinks'[k] = [gather |-> n, index |-> i, child |-> children[i]]
      <4>1. PICK i \in DOMAIN children :
                 gatherLinks'[k] = [gather |-> n, index |-> i, child |-> children[i]]
        BY <3>2
      <4>2. children[i] \in Known
        BY <1>5
      <4>3. i \in early <=> children[i] \in c.done \ failed
        <5>1. children[i] \notin done \cap failed
          BY <1>2 DEF Range
        <5> QED  BY <1>11, <4>2, <5>1
      <4> QED  BY <1>10, <4>1, <4>3
    <3> QED  BY <1>3, <3>1, <3>2
  <2> QED  BY <1>1, <2>2, <2>3 DEF Gathers
<1>14. Unasked' /\ RunningOK'
  <2>1. Unasked'
    BY <1>1, <1>7, <1>8 DEF Inv, Unasked
  <2>2. RunningOK'
    BY <1>1, <1>7, <1>11 DEF RunningOK, Undone
  <2> QED  BY <2>1, <2>2
<1>15. OnePlace'
  <2> SUFFICES ASSUME NEW t \in Known' \ c.done, kind'[t] \notin {"gather", "unset"}
               PROVE  Placed(Places(c, {}, <<>>, t), t, {running})
    <3>1. \A t : Places(c, {}, <<>>, t)' = Places(c, {}, <<>>, t)
      BY DEF Places, Tickets
    <3> QED  BY <1>1, <3>1 DEF OnePlace, AllPlaced
  <2>1. t \in Known \ b.done /\ kind[t] \notin {"gather", "unset"}
    BY <1>1, <1>7, <1>11
  <2>2. Placed(Places(b, {}, <<>>, t), t, {running})
    BY <1>1, <2>1 DEF Inv, OnePlace, AllPlaced
  <2>3. Places(c, {}, <<>>, t) = Places(b, {}, <<>>, t)
    <3>1. CASE late = 0
      <4>1. b.links[n] = <<>> /\ c.done = b.done \union {n}
        BY <1>1, <1>7, <1>8, <3>1 DEF Inv, Unasked
      <4>2. \A D, e, u : Places(c, D, e, u) = Places(b, D, e, u)
        BY <1>8, <4>1, DonePlaces
      <4> QED  BY <4>2
    <3>2. CASE late # 0
      <4>1. c.done = b.done
        BY <1>7, <1>8, <3>2
      <4>2. \A D, e, u : Places(c, D, e, u) = Places(b, D, e, u)
        BY <1>8, <4>1, SameLists
      <4> QED  BY <4>2
    <3> QED  BY <3>1, <3>2
  <2> QED  BY <2>2, <2>3
<1>16. JobsOK'
  BY <1>1, <1>7, <1>11 DEF Inv, JobsOK
<1>17. NoFailedChild'
  <2> SUFFICES ASSUME NEW k \in DOMAIN gatherLinks'
               PROVE  gatherLinks'[k].child \notin c.done \cap failed
    BY <1>1, <1>7 DEF NoFailedChild
  <2>1. CASE k \in DOMAIN gatherLinks /\ gatherLinks'[k] = gatherLinks[k]
    <3>1. gatherLinks[k].child \in Known /\ gatherLinks[k].child \notin done \cap failed
      BY <1>1, <2>1, LinkTypes DEF Inv, NoFailedChild
    <3> QED  BY <1>11, <2>1, <3>1
  <2>2. CASE \E i \in DOMAIN children :
               gatherLinks'[k] = [gather |-> n, index |-> i, child |-> children[i]]
    <3>1. PICK i \in DOMAIN children :
               gatherLinks'[k] = [gather |-> n, index |-> i, child |-> children[i]]
      BY <2>2
    <3>2. children[i] \in Known /\ children[i] \notin done \cap failed
      BY <1>2, <1>5 DEF Range
    <3> QED  BY <1>11, <3>1, <3>2
  <2> QED  BY <1>3, <2>1, <2>2
<1> QED  BY <1>1, <1>3, <1>12, <1>13, <1>14, <1>15, <1>16, <1>17 DEF Inv

(***************************************************************************)
(* The theorems                                                            *)
(***************************************************************************)

(* The invariant holds before the first run,                                *)
LEMMA InitInv == Init => Inv
<1> SUFFICES ASSUME Init PROVE Inv
  OBVIOUS
<1>1. /\ Known = {} /\ kind \in [Tasks -> Kinds] /\ ~inRun /\ running = NoTask
      /\ awaits \in [Tasks -> Known \union {NoTask}]
  BY DEF Init, Known, Kinds
<1>2. Numbered
  BY <1>1, SchedulerAssumption DEF Init, Numbered, Root
<1>3. Board \in Boards
  BY <1>1 DEF Init, Board, Boards
<1>4. LinksOK /\ Gathers(Board, {})
  BY <1>1 DEF Init, LinksOK, Gathers
<1>5. Unasked /\ RunningOK /\ OnePlace /\ JobsOK /\ NoFailedChild
  BY <1>1 DEF Init, Unasked, RunningOK, OnePlace, JobsOK, NoFailedChild
<1> QED  BY <1>1, <1>2, <1>3, <1>4, <1>5 DEF Inv

(* ... and Task.run throws everything away but establishes it anew.         *)
LEMMA RunStep == ASSUME Inv, Run PROVE Inv'
<1>1. /\ Known' = {Root} /\ kind' \in [Tasks -> Kinds] /\ kind'[Root] = "coro"
      /\ Root \in Tasks /\ \A t \in Known' : kind'[t] # "gather"
  BY SchedulerAssumption DEF Run, Known, Kinds, Root, Tasks
<1>2. Root \in Runnable'
  BY <1>1 DEF Runnable
<1>3. /\ ready' = <<Root>> /\ ready' \in Seq(Runnable') /\ done' = {} /\ timers' = <<>>
      /\ ioWaits' = <<>> /\ gatherLinks' = <<>> /\ waitLinks' = [t \in Tasks |-> <<>>]
      /\ running' = NoTask /\ haveScheduler' /\ nextTaskId' = Root + 1
  BY <1>2 DEF Run, Inv, RunningOK
<1> PICK c : c = Board'
  OBVIOUS
<1>4. /\ c.ready = <<Root>> /\ c.done = {} /\ c.timers = <<>> /\ c.ioWaits = <<>>
      /\ c.links = [t \in Tasks |-> <<>>]
  BY <1>3, NextFields
<1>5. Board' \in Boards'
  <2>1. /\ waitLinks' \in [Tasks -> Seq(Runnable')]
        /\ timers' \in Seq([task : Timed', left : 1 .. MaxPeriods]) /\ ioWaits' \in Seq(Handled')
        /\ pending' \in [Tasks -> Int] /\ filled' \in [Tasks -> SUBSET (1 .. MaxChildren)]
    BY <1>3 DEF Run
  <2> QED  BY <1>3, <2>1 DEF Boards, Board
<1>6. Numbered' /\ Unasked' /\ RunningOK'
  BY <1>1, <1>3, SchedulerAssumption DEF Numbered, Unasked, RunningOK, Root
<1>7. LinksOK' /\ Gathers(Board, {})'
  BY <1>1, <1>3 DEF LinksOK, Gathers
<1>8. OnePlace'
  <2>1. \A p : p \in Places(c, {}, <<>>, Root) <=> p = <<"ready", NoTask, 1>>
    <3> TAKE p
    <3>1. ~AtLink(c, Root, p)
      BY <1>4 DEF AtLink
    <3>2. AtOther(c, {}, <<>>, Root, p) <=> p = <<"ready", NoTask, 1>>
      BY <1>4 DEF AtOther
    <3> QED  BY <3>1, <3>2, PlacesSplit
  <2>2. Places(c, {}, <<>>, Root) = {<<"ready", NoTask, 1>>}
    BY <2>1
  <2>3. Places(c, {}, <<>>, Root)' = Places(c, {}, <<>>, Root)
    BY DEF Places, Tickets
  <2>4. Root # running'
    BY <1>3 DEF Root, NoTask
  <2>5. Placed(Places(c, {}, <<>>, Root)', Root, {running'})
    BY <2>2, <2>3, <2>4 DEF Placed
  <2> QED  BY <1>1, <2>5 DEF OnePlace, AllPlaced, Placed
<1>9. awaits' \in [Tasks -> (Known \union {NoTask})'] /\ (inRun => haveScheduler)'
  BY <1>1, <1>3 DEF Run
<1>10. JobsOK' /\ NoFailedChild'
  BY <1>3 DEF Run, JobsOK, NoFailedChild
<1> QED  BY <1>1, <1>5, <1>6, <1>7, <1>8, <1>9, <1>10 DEF Inv

(* The invariant holds in every state: each of Task.run, _runOnce, _tick    *)
(* and the calls of a coroutine keeps it (task.paw, Scheduler).             *)
THEOREM SchedulerInvariant == Spec => []Inv
<1>1. Inv /\ [Next]_vars => Inv'
  <2> SUFFICES ASSUME Inv, [Next]_vars PROVE Inv'
    OBVIOUS
  <2>1. CASE Run
    BY <2>1, RunStep
  <2>2. CASE RunOnce
    BY <2>2, RunOnceStep
  <2>3. CASE Tick
    BY <2>3, TickStep
  <2>4. CASE EndRun
    BY <2>4, EndRunStep
  <2>5. CASE Create
    BY <2>5, CreateStep
  <2>6. CASE Sleep
    BY <2>6, SleepStep
  <2>7. CASE RunThread
    BY <2>7, RunThreadStep
  <2>8. CASE WaitIo
    BY <2>8, WaitIoStep
  <2>9. CASE Gather
    BY <2>9, GatherStep
  <2>15. CASE GatherRaises
    BY <2>15, GatherRaisesStep
  <2>10. CASE Await
    BY <2>10, AwaitStep
  <2>11. CASE Return
    BY <2>11, ReturnStep
  <2>12. CASE Raise
    BY <2>12, RaiseStep
  <2>13. CASE \E t \in Tasks : JobEnds(t)
    BY <2>13, JobEndsStep
  <2>14. CASE UNCHANGED vars
    BY <2>14, StutterStep
  <2> QED  BY <2>1, <2>2, <2>3, <2>4, <2>5, <2>6, <2>7, <2>8, <2>9, <2>10, <2>11, <2>12,
              <2>13, <2>14, <2>15 DEF Next, Loop, Code
<1> QED  BY InitInv, <1>1, PTL DEF Spec

(* The clause of TypeOK about gathers, read off the links.                  *)
LEMMA GatherCounts ==
    ASSUME Inv, NEW g \in Known, kind[g] = "gather"
    PROVE  /\ pending[g] = Cardinality(Indexes(g) \ filled[g])
           /\ (g \in done) <=> (pending[g] = 0)
           /\ \A i \in Indexes(g) :
                /\ IF kind[ChildOf(g, i)] = "gather"
                   THEN i \in filled[g] => ChildOf(g, i) \in done
                   ELSE (i \in filled[g]) <=> (ChildOf(g, i) \in done \ failed)
                /\ inRun => ChildOf(g, i) \notin done \cap failed
<1>1. /\ Board.pending = pending /\ Board.filled = filled /\ Board.done = done
  BY BoardFields
<1>2. Gathers(Board, {}) /\ LinksOK
  BY DEF Inv
<1>3. /\ pending[g] = Cardinality(Indexes(g) \ filled[g])
      /\ (g \in done) <=> (pending[g] = 0)
  BY <1>1, <1>2 DEF Gathers
<1>4. ASSUME NEW i \in Indexes(g)
      PROVE  /\ IF kind[ChildOf(g, i)] = "gather"
                THEN i \in filled[g] => ChildOf(g, i) \in done
                ELSE (i \in filled[g]) <=> (ChildOf(g, i) \in done \ failed)
             /\ inRun => ChildOf(g, i) \notin done \cap failed
  <2>1. \E l \in ToSet(gatherLinks) : l.gather = g /\ l.index = i
    BY DEF Indexes
  <2> DEFINE l == CHOOSE l \in ToSet(gatherLinks) : l.gather = g /\ l.index = i
  <2>2. l \in ToSet(gatherLinks) /\ l.gather = g /\ l.index = i
    BY <2>1
  <2>3. ChildOf(g, i) = l.child
    BY DEF ChildOf
  <2> HIDE DEF l
  <2>4. PICK k \in DOMAIN gatherLinks : gatherLinks[k] = l
    BY <2>2 DEF ToSet
  <2>5. /\ i \in filled[g] => l.child \in done \ failed
        /\ l.child \in done \ failed => i \in filled[g] \/ kind[l.child] = "gather"
    BY <1>1, <1>2, <2>2, <2>4 DEF Gathers
  <2>6. inRun => l.child \notin done \cap failed
    BY <2>4 DEF Inv, NoFailedChild
  <2> QED  BY <2>3, <2>5, <2>6
<1> QED  BY <1>3, <1>4

(* For any bounds: the lists hold slots that were allocated, ids are given  *)
(* out in order, and a gather has as many results to come as it has empty   *)
(* indexes, an index being filled exactly when its child is done and its    *)
(* job did not fail (_GatherSlot, Scheduler._finishSlot), but for gathers   *)
(* of gathers; and a gather with a failed child ends the run.               *)
THEOREM SchedulerTyping == Spec => []TypeOK
<1>1. Inv => TypeOK
  <2> SUFFICES ASSUME Inv PROVE TypeOK
    OBVIOUS
  <2>1. Runnable \subseteq Known /\ Timed \subseteq Known /\ Handled \subseteq Known
    BY DEF Runnable, Timed, Handled
  <2>2. ready \in Seq(Known) /\ ioWaits \in Seq(Known)
    BY <2>1, InvBoard, SeqMonotonic
  <2>3. waitLinks \in [Tasks -> Seq(Known)]
    <3>1. \A x \in Tasks : waitLinks[x] \in Seq(Known)
      BY <2>1, InvBoard, SeqMonotonic
    <3> QED  BY <3>1, InvBoard
  <2>4. timers \in Seq([task : Known, left : 1 .. MaxPeriods])
    <3>1. [task : Timed, left : 1 .. MaxPeriods] \subseteq [task : Known, left : 1 .. MaxPeriods]
      BY <2>1
    <3> QED  BY <3>1, InvBoard, SeqMonotonic
  <2>5. nextTaskId = Cardinality(Known) + 1
    <3>1. Known = 1 .. nextTaskId - 1 /\ nextTaskId \in Nat \ {0}
      BY SchedulerAssumption DEF Inv, Numbered
    <3>2. Cardinality(1 .. nextTaskId - 1) = nextTaskId - 1
      BY <3>1, FS_Interval
    <3> QED  BY <3>1, <3>2
  <2>6. running \in Known \union {NoTask} /\ done \subseteq Known
    BY InvBoard DEF Inv, RunningOK, Undone
  <2>7. /\ kind \in [Tasks -> Kinds] /\ awaits \in [Tasks -> Known \union {NoTask}]
        /\ inRun => haveScheduler
        /\ gatherLinks \in Seq([gather : Known, index : 1..MaxChildren, child : Known])
    BY DEF Inv, LinksOK
  <2>8. /\ jobs \union failed \subseteq {t \in Known : kind[t] = "thread"}
        /\ jobs \cap (done \union failed) = {}
    BY DEF Inv, JobsOK
  <2> QED  BY <2>2, <2>3, <2>4, <2>5, <2>6, <2>7, <2>8, GatherCounts DEF TypeOK
<1> QED  BY SchedulerInvariant, <1>1, PTL

(* For any bounds: while a run is on, every unfinished slot that is no      *)
(* gather waits in exactly one of ready, timers, handles and links to       *)
(* unfinished targets, and the coroutine that executes in none (_addWait,   *)
(* _wakeWaiters, _fireIo, _fireTimers).                                     *)
THEOREM SchedulerOneTicket == Spec => []OneTicket
<1>1. Inv => OneTicket
  <2> SUFFICES ASSUME Inv, inRun, NEW t \in Undone, kind[t] \notin {"gather", "unset"}
               PROVE  Cardinality(Tickets(Board, t)) = IF t = running THEN 0 ELSE 1
    BY DEF OneTicket
  <2>1. Placed(Places(Board, {}, <<>>, t), t, {running})
    BY BoardFields DEF Inv, OnePlace, AllPlaced, Undone
  <2>2. Tickets(Board, t) = Places(Board, {}, <<>>, t)
    BY DEF Places
  <2>3. CASE t = running
    BY <2>1, <2>2, <2>3, FS_EmptySet DEF Placed
  <2>4. CASE t # running
    BY <2>1, <2>2, <2>4, FS_Singleton DEF Placed
  <2> QED  BY <2>3, <2>4
<1> QED  BY SchedulerInvariant, <1>1, PTL
=============================================================================
