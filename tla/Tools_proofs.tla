---------------------------- MODULE Tools_proofs ----------------------------
(***************************************************************************)
(* Proofs about the tools, which run by themselves.                        *)
(*                                                                         *)
(* The editor over the command bus, for any settings, kinds, names and     *)
(* files: the scene stays one tree, and no command makes objects share a   *)
(* name.                                                                   *)
(*                                                                         *)
(* The incremental build of the run time, for any set of modules and other *)
(* inputs: a build that the stamp skips would have made nothing anew, and  *)
(* the cached signatures are those of the inputs the cache is valid for.   *)
(*                                                                         *)
(* The counting loops, for lists of any length and ranges over any int:    *)
(* they follow the Python iterator.                                        *)
(*                                                                         *)
(* The moved-use check, for functions of any length over any variables,    *)
(* nested to any depth: where the visitor can see through a function, it   *)
(* refuses exactly the ones that use a moved variable.                     *)
(*                                                                         *)
(* try, with, loops and jumps, for programs of any size nested to any      *)
(* depth: where the translation is clean, the C++ does what Python does.   *)
(***************************************************************************)
EXTENDS Editor, BootstrapBuild, ForLoops, MovedUse, ControlFlow,
        SequenceTheorems, WellFoundedInduction, TLAPS

(***************************************************************************)
(* The editor                                                              *)
(***************************************************************************)

(* Every set of numbers with a member has a least one.                       *)
LEMMA Least ==
    ASSUME NEW T \in SUBSET Nat, T # {}
    PROVE  \E x \in T : \A y \in T : x <= y
<1> DEFINE Less == {p \in Nat \X Nat : p[1] < p[2]}
<1>1. IsWellFoundedOn(Less, Nat)
  BY NatLessThanWellFounded, Zenon DEF OpToRel
<1>2. PICK x \in T : \A y \in T : <<y, x>> \notin Less
  <2> HIDE DEF Less
  <2> QED  BY <1>1, WFMin
<1>3. \A y \in T : ~ (y < x)
  BY <1>2
<1> QED  BY <1>3

LEMMA RowsAreTyped ==
    ASSUME NEW s \in Seq(Row)
    PROVE  /\ DOMAIN s = 1 .. Len(s) /\ Len(s) \in Nat
           /\ \A i \in 1 .. Len(s) : s[i] \in Row /\ s[i].name \in Name /\ s[i].depth \in Nat
<1>1. \A i \in 1 .. Len(s) : s[i] \in Row
  OBVIOUS
<1>2. \A r \in Row : r.name \in Name /\ r.depth \in Nat
  BY DEF Row
<1> QED  BY <1>1, <1>2

(* _find returns an object of that name, if there is one.                    *)
LEMMA FoundIsNamed ==
    ASSUME NEW s \in Seq(Row), NEW n, Has(s, n)
    PROVE  Found(s, n) \in DOMAIN s /\ s[Found(s, n)].name = n
<1>1. \A i \in DOMAIN s : i \in Nat /\ s[i].depth \in Nat
  BY RowsAreTyped
<1>2. PICK d \in {s[i].depth : i \in Named(s, n)} :
          \A e \in {s[i].depth : i \in Named(s, n)} : d <= e
  BY <1>1, Least DEF Has, Named
<1>3. PICK i \in {j \in Named(s, n) : s[j].depth = d} :
          \A j \in {k \in Named(s, n) : s[k].depth = d} : i <= j
  BY <1>1, <1>2, Least DEF Named
<1>4. \A j \in Named(s, n) :
          s[i].depth < s[j].depth \/ (s[i].depth = s[j].depth /\ i <= j)
  <2> SUFFICES ASSUME NEW j \in Named(s, n)
               PROVE  d < s[j].depth \/ (d = s[j].depth /\ i <= j)
    BY <1>3
  <2>1. d <= s[j].depth /\ d \in Nat /\ s[j].depth \in Nat
    BY <1>1, <1>2 DEF Named
  <2>2. s[j].depth = d => i <= j
    BY <1>3
  <2> QED  BY <2>1, <2>2
<1>5. Found(s, n) \in Named(s, n)
  BY <1>3, <1>4 DEF Found
<1> QED  BY <1>5 DEF Named

(* The row after the last descendant is in the list or one past its end.     *)
LEMMA AfterIsNext ==
    ASSUME NEW s \in Seq(Row), NEW i \in DOMAIN s
    PROVE  /\ After(s, i) \in i + 1 .. Len(s) + 1
           /\ \A j \in i + 1 .. After(s, i) - 1 : s[j].depth > s[i].depth
           /\ After(s, i) <= Len(s) => s[After(s, i)].depth <= s[i].depth
<1>1. \A j \in DOMAIN s : s[j].depth \in Nat
  BY RowsAreTyped
<1>2. DOMAIN s = 1 .. Len(s) /\ Len(s) \in Nat
  BY RowsAreTyped
<1> DEFINE T == {j \in i + 1 .. Len(s) + 1 : j <= Len(s) => s[j].depth <= s[i].depth}
<1>3. T \in SUBSET Nat /\ Len(s) + 1 \in T
  BY <1>2
<1>4. PICK k \in T : \A j \in T : k <= j
  BY <1>3, Least
<1>5. \A j \in i + 1 .. k - 1 : s[j].depth > s[i].depth
  BY <1>1, <1>2, <1>3, <1>4
<1> QED  BY <1>2, <1>4, <1>5 DEF After

-----------------------------------------------------------------------------
(* The operations on trees *)

(* Rows that have the depths of a tree are one, whatever else they say.      *)
LEMMA SameShape ==
    ASSUME NEW s \in Seq(Row), NEW t \in [1 .. Len(s) -> Row], IsTree(s),
           \A i \in 1 .. Len(s) : t[i].depth = s[i].depth
    PROVE  /\ IsTree(t) /\ t \in Seq(Row) /\ Len(t) = Len(s)
           /\ (\A i \in 1 .. Len(s) : t[i].name = s[i].name) =>
                 Repeats(t) = Repeats(s) /\ \A n : Has(s, n) => Has(t, n)
<1>1. t \in Seq(Row) /\ Len(t) = Len(s) /\ DOMAIN t = 1 .. Len(s) /\ DOMAIN s = 1 .. Len(s)
  OBVIOUS
<1>2. t # <<>>
  BY <1>1 DEF IsTree
<1>3. IsTree(t)
  BY <1>1, <1>2 DEF IsTree
<1> QED  BY <1>1, <1>3 DEF Repeats, Has, Named

(* attach puts the child at the end of its parent's subtree.                 *)
LEMMA AttachKeepsTheTree ==
    ASSUME NEW s \in Seq(Row), IsTree(s),
           NEW i \in DOMAIN s, NEW n \in Name, ~Has(s, n)
    PROVE  /\ IsTree(Attached(s, i, n)) /\ Repeats(Attached(s, i, n)) \subseteq Repeats(s)
           /\ \A m : Has(s, m) => Has(Attached(s, i, n), m)
           /\ Has(Attached(s, i, n), n)
<1> DEFINE k == After(s, i)
           t == Attached(s, i, n)
           L == Len(s)
<1>1. /\ k \in i + 1 .. L + 1
      /\ \A j \in i + 1 .. k - 1 : s[j].depth > s[i].depth
      /\ k <= L => s[k].depth <= s[i].depth
  BY AfterIsNext
<1> HIDE DEF k
<1>2. /\ L \in Nat /\ i \in 1 .. L /\ DOMAIN s = 1 .. L
      /\ \A j \in 1 .. L : s[j] \in Row /\ s[j].depth \in Nat
  BY RowsAreTyped
<1>3. NewRow(n, s[i].depth + 1) \in Row /\ NewRow(n, s[i].depth + 1).name = n
      /\ NewRow(n, s[i].depth + 1).depth = s[i].depth + 1
  BY <1>2 DEF NewRow, Row, Level
<1>4. /\ DOMAIN t = 1 .. L + 1
      /\ \A j \in 1 .. L + 1 :
            t[j] = IF j < k THEN s[j] ELSE IF j = k THEN NewRow(n, s[i].depth + 1) ELSE s[j - 1]
  BY DEF Attached, k
<1> HIDE DEF t
<1>5. t \in Seq(Row) /\ Len(t) = L + 1
  <2>1. \A j \in 1 .. L + 1 : t[j] \in Row
    BY <1>1, <1>2, <1>3, <1>4
  <2>2. t = [j \in 1 .. L + 1 |-> t[j]]
    BY <1>4 DEF t, Attached
  <2>3. t \in [1 .. L + 1 -> Row]
    BY <2>1, <2>2
  <2> QED  BY <1>2, <2>3
<1>6. IsTree(t)
  <2>1. t[1].depth = 0 /\ t # <<>>
    BY <1>1, <1>2, <1>4, <1>5 DEF IsTree
  <2>2. ASSUME NEW j \in 2 .. L + 1
        PROVE  1 <= t[j].depth /\ t[j].depth <= t[j - 1].depth + 1
    <3>1. CASE j < k
      <4>1. t[j] = s[j] /\ t[j - 1] = s[j - 1] /\ j \in 2 .. L
        BY <3>1, <1>1, <1>2, <1>4
      <4> QED  BY <4>1 DEF IsTree
    <3>2. CASE j = k
      <4>1. t[j].depth = s[i].depth + 1 /\ t[j - 1] = s[k - 1]
        BY <3>2, <1>1, <1>2, <1>3, <1>4
      <4>2. s[k - 1].depth >= s[i].depth
        <5>1. k - 1 = i \/ k - 1 \in i + 1 .. k - 1
          BY <1>1, <1>2
        <5>2. s[i].depth \in Nat /\ s[k - 1].depth \in Nat
          BY <1>1, <1>2
        <5>3. k - 1 # i => s[k - 1].depth > s[i].depth
          BY <5>1, <1>1
        <5> QED  BY <5>2, <5>3
      <4>3. k - 1 \in 1 .. L
        BY <1>1, <1>2
      <4> QED  BY <4>1, <4>2, <4>3, <1>2
    <3>3. CASE j = k + 1
      <4>1. t[j] = s[k] /\ t[j - 1].depth = s[i].depth + 1 /\ k \in 2 .. L
        BY <3>3, <1>1, <1>2, <1>3, <1>4
      <4>2. 1 <= s[k].depth /\ s[k].depth <= s[i].depth
        BY <4>1, <1>1 DEF IsTree
      <4> QED  BY <4>1, <4>2, <1>2
    <3>4. CASE j > k + 1
      <4>1. t[j] = s[j - 1] /\ t[j - 1] = s[j - 2] /\ j - 1 \in 2 .. L
        BY <3>4, <1>1, <1>2, <1>4
      <4> QED  BY <4>1, <1>2 DEF IsTree
    <3> QED  BY <3>1, <3>2, <3>3, <3>4, <1>1, <1>2
  <2> QED  BY <2>1, <2>2, <1>5 DEF IsTree
<1>7. Repeats(t) \subseteq Repeats(s)
  <2> SUFFICES ASSUME NEW m \in Name, NEW p \in 1 .. L + 1, NEW q \in 1 .. L + 1, p # q,
                      t[p].name = m, t[q].name = m
               PROVE  \E x, y \in Named(s, m) : x # y
    BY <1>4 DEF Repeats, Named
  <2> DEFINE Old(j) == IF j < k THEN j ELSE j - 1
  <2>1. \A j \in 1 .. L : s[j].name # n
    BY <1>2 DEF Has, Named
  <2>2. \A j \in 1 .. L + 1 : j # k => Old(j) \in 1 .. L /\ t[j] = s[Old(j)]
    BY <1>1, <1>2, <1>4
  <2>3. p # k /\ q # k
    <3>1. p = k => t[q] = s[Old(q)] /\ Old(q) \in 1 .. L /\ m = n
      BY <2>2, <1>3, <1>4
    <3>2. q = k => t[p] = s[Old(p)] /\ Old(p) \in 1 .. L /\ m = n
      BY <2>2, <1>3, <1>4
    <3> QED  BY <2>1, <3>1, <3>2
  <2>4. Old(p) # Old(q)
    BY <2>3, <1>1, <1>2
  <2> HIDE DEF Old
  <2> QED  BY <2>2, <2>3, <2>4, <1>2 DEF Named
<1>8. Has(t, n)
  BY <1>1, <1>2, <1>3, <1>4 DEF Has, Named
<1>9. ASSUME NEW m, Has(s, m)
      PROVE  Has(t, m)
  <2> PICK j \in 1 .. L : s[j].name = m
    BY <1>2, <1>9 DEF Has, Named
  <2>1. t[IF j < k THEN j ELSE j + 1] = s[j] /\ (IF j < k THEN j ELSE j + 1) \in 1 .. L + 1
    BY <1>1, <1>2, <1>4
  <2> QED  BY <2>1, <1>4 DEF Has, Named
<1> QED  BY <1>6, <1>7, <1>8, <1>9 DEF t

(* detach takes an object that is not the root with its whole subtree.       *)
LEMMA DetachKeepsTheTree ==
    ASSUME NEW s \in Seq(Row), IsTree(s),
           NEW i \in DOMAIN s, i # 1
    PROVE  /\ IsTree(Detached(s, i)) /\ Repeats(Detached(s, i)) \subseteq Repeats(s)
           /\ \A j \in DOMAIN s : j < i \/ After(s, i) <= j => Has(Detached(s, i), s[j].name)
<1> DEFINE k == After(s, i)
           t == Detached(s, i)
           L == Len(s)
           gone == k - i
           M == L - gone
<1>1. /\ k \in i + 1 .. L + 1
      /\ \A j \in i + 1 .. k - 1 : s[j].depth > s[i].depth
      /\ k <= L => s[k].depth <= s[i].depth
  BY AfterIsNext
<1> HIDE DEF k
<1>2. /\ L \in Nat /\ i \in 2 .. L /\ DOMAIN s = 1 .. L
      /\ \A j \in 1 .. L : s[j] \in Row /\ s[j].depth \in Nat
  BY RowsAreTyped
<1>3. M \in Nat /\ i - 1 <= M /\ gone \in Nat \ {0} /\ k = i + gone /\ M + gone = L
  <2> HIDE DEF L
  <2>1. i \in Int /\ k \in Int /\ L \in Int /\ i < k /\ k <= L + 1 /\ 2 <= i
    BY <1>1, <1>2
  <2>2. \A x, y, z \in Int : x < y /\ y <= z + 1 /\ 2 <= x =>
            /\ z - (y - x) \in Nat /\ x - 1 <= z - (y - x) /\ y - x \in Nat \ {0}
            /\ y = x + (y - x) /\ (z - (y - x)) + (y - x) = z
    OBVIOUS
  <2> QED  BY <2>1, <2>2
<1>4. /\ DOMAIN t = 1 .. M
      /\ \A j \in 1 .. M : t[j] = IF j < i THEN s[j] ELSE s[j + gone]
  BY DEF Detached, k
<1>t. /\ s[1].depth = 0
      /\ \A j \in 2 .. L : 1 <= s[j].depth /\ s[j].depth <= s[j - 1].depth + 1
  BY <1>2 DEF IsTree
<1>a. \A j \in 1 .. M : j < i => t[j] = s[j] /\ j \in 1 .. L
  BY <1>2, <1>3, <1>4
<1>b. \A j \in 1 .. M : j >= i => t[j] = s[j + gone] /\ j + gone \in i + gone .. L
  BY <1>2, <1>3, <1>4
<1> HIDE DEF t, gone, M, L
<1>5. t \in Seq(Row) /\ Len(t) = M
  <2>1. ASSUME NEW j \in 1 .. M PROVE t[j] \in Row
    <3>1. CASE j < i
      BY <1>2, <1>a, <3>1
    <3>2. CASE j >= i
      BY <1>2, <1>3, <1>b, <3>2
    <3> QED  BY <1>3, <3>1, <3>2
  <2>2. t = [j \in 1 .. M |-> t[j]]
    BY <1>4 DEF t, Detached
  <2>3. t \in [1 .. M -> Row]
    BY <2>1, <2>2
  <2> QED  BY <1>3, <2>3
<1>6. IsTree(t)
  <2>1. t[1].depth = 0 /\ t # <<>>
    BY <1>2, <1>3, <1>t, <1>a, <1>4
  <2>2. ASSUME NEW j \in 2 .. M
        PROVE  1 <= t[j].depth /\ t[j].depth <= t[j - 1].depth + 1
    <3>0. j \in 1 .. M /\ j - 1 \in 1 .. M
      BY <1>3
    <3>1. CASE j < i
      <4>1. t[j] = s[j] /\ t[j - 1] = s[j - 1] /\ j \in 2 .. L
        BY <3>0, <3>1, <1>a, <1>2
      <4> QED  BY <4>1, <1>t
    <3>2. CASE j = i
      <4>1. t[j] = s[k] /\ t[j - 1] = s[i - 1] /\ k \in 2 .. L
        BY <3>0, <3>2, <1>2, <1>3, <1>a, <1>b
      <4>2. 1 <= s[k].depth /\ s[k].depth <= s[i].depth
        BY <4>1, <1>1, <1>t, <1>2
      <4>3. s[i].depth <= s[i - 1].depth + 1 /\ i - 1 \in 1 .. L
        BY <1>2, <1>t
      <4>4. s[k].depth \in Nat /\ s[i].depth \in Nat /\ s[i - 1].depth \in Nat
        BY <4>1, <4>3, <1>2
      <4> QED  BY <4>1, <4>2, <4>3, <4>4
    <3>3. CASE j > i
      <4>1. t[j] = s[j + gone] /\ j + gone \in 2 .. L
        BY <3>0, <3>3, <1>2, <1>3, <1>b
      <4>2. t[j - 1] = s[(j - 1) + gone]
        BY <3>0, <3>3, <1>2, <1>b
      <4>3. (j - 1) + gone = (j + gone) - 1
        BY <3>0, <1>3
      <4> QED  BY <4>1, <4>2, <4>3, <1>t
    <3> QED  BY <3>0, <3>1, <3>2, <3>3, <1>2
  <2> QED  BY <2>1, <2>2, <1>5 DEF IsTree
<1>7. Repeats(t) \subseteq Repeats(s)
  <2> SUFFICES ASSUME NEW m \in Name, NEW p \in 1 .. M, NEW q \in 1 .. M, p # q,
                      t[p].name = m, t[q].name = m
               PROVE  \E x, y \in Named(s, m) : x # y
    BY <1>4 DEF Repeats, Named
  <2> DEFINE Old(j) == IF j < i THEN j ELSE j + gone
  <2>1. ASSUME NEW j \in 1 .. M
        PROVE  Old(j) \in 1 .. L /\ t[j] = s[Old(j)]
    <3>1. CASE j < i
      BY <1>a, <3>1
    <3>2. CASE j >= i
      <4>1. t[j] = s[j + gone] /\ j + gone \in i + gone .. L /\ ~(j < i)
        BY <1>2, <1>b, <3>2
      <4> QED  BY <4>1, <1>2, <1>3
    <3> QED  BY <1>2, <3>1, <3>2
  <2>2. Old(p) # Old(q)
    BY <1>2, <1>3
  <2> HIDE DEF Old
  <2> QED  BY <2>1, <2>2, <1>2 DEF Named
<1>8. ASSUME NEW j \in DOMAIN s, j < i \/ k <= j
      PROVE  Has(t, s[j].name)
  <2>1. CASE j < i
    <3>1. j \in 1 .. M /\ t[j] = s[j]
      BY <2>1, <1>2, <1>3, <1>a
    <3> QED  BY <3>1, <1>4 DEF Has, Named
  <2>2. CASE k <= j
    <3>1. j - gone \in 1 .. M /\ j - gone >= i /\ (j - gone) + gone = j
      BY <2>2, <1>2, <1>3
    <3>2. t[j - gone] = s[j]
      BY <3>1, <1>b
    <3> QED  BY <3>1, <3>2, <1>4 DEF Has, Named
  <2> QED  BY <1>8, <2>1, <2>2
<1> QED  BY <1>6, <1>7, <1>8 DEF t, k

-----------------------------------------------------------------------------
(* The commands *)

Bus == [scene : Seq(Row), selected : Name \union {NoName}, state : State]

Good(b) == b \in Bus /\ IsTree(b.scene)

(* The selection is empty or names an object.                                *)
Sound(b) == b.selected = NoName \/ Has(b.scene, b.selected)

(* What every command that edits the scene does, however many are composed.  *)
Edits(b, c) ==
    /\ Good(c)
    /\ Repeats(c.scene) \subseteq Repeats(b.scene)
    /\ Sound(b) => Sound(c)
    /\ c.state = b.state
    /\ b.state = "playing" => c.scene = b.scene

LEMMA EditsCompose ==
    ASSUME NEW b, NEW c, NEW d, Edits(b, c), Edits(c, d)
    PROVE  Edits(b, d)
BY DEF Edits

LEMMA RefusalEdits ==
    ASSUME NEW b, Good(b)
    PROVE  Edits(b, b)
BY DEF Edits

(* A change of the scene and of the selection, while the world does not play. *)
LEMMA WritingEdits ==
    ASSUME NEW b, Good(b), Writable(b), NEW t, IsTree(t), Repeats(t) \subseteq Repeats(b.scene),
           NEW n \in Name \union {NoName},
           Sound(b) => n = NoName \/ Has(t, n)
    PROVE  Edits(b, [b EXCEPT !.scene = t, !.selected = n])
<1>1. t \in Seq(Row)
  BY DEF IsTree
<1> DEFINE c == [b EXCEPT !.scene = t, !.selected = n]
<1>2. c \in Bus /\ c.scene = t /\ c.selected = n /\ c.state = b.state
  BY <1>1 DEF Good, Bus
<1> QED  BY <1>2 DEF Edits, Good, Sound, Writable

(* A row that changes neither its name nor its depth.                        *)
LEMMA RowEdits ==
    ASSUME NEW b, Good(b), Writable(b), NEW t \in [1 .. Len(b.scene) -> Row],
           \A i \in 1 .. Len(b.scene) :
               t[i].depth = b.scene[i].depth /\ t[i].name = b.scene[i].name
    PROVE  Edits(b, [b EXCEPT !.scene = t])
<1>1. b \in Bus /\ b.scene \in Seq(Row) /\ b.selected \in Name \union {NoName}
  BY DEF Good, Bus
<1>2. IsTree(t) /\ Repeats(t) = Repeats(b.scene) /\ \A n : Has(b.scene, n) => Has(t, n)
  BY <1>1, SameShape DEF Good
<1>3. Edits(b, [b EXCEPT !.scene = t, !.selected = b.selected])
  BY <1>1, <1>2, WritingEdits DEF Sound
<1>4. [b EXCEPT !.scene = t, !.selected = b.selected] = [b EXCEPT !.scene = t]
  BY <1>1 DEF Bus
<1> QED  BY <1>3, <1>4

(* The rows that the settings or a component of an object are written to.    *)
LEMMA SettingsUpdate ==
    ASSUME NEW r \in Row, NEW settings \in SUBSET Setting
    PROVE  /\ [r EXCEPT !.set = settings] \in Row
           /\ [r EXCEPT !.set = settings].name = r.name
           /\ [r EXCEPT !.set = settings].depth = r.depth
BY DEF Row

LEMMA ComponentUpdate ==
    ASSUME NEW r \in Row, NEW k \in Kind, NEW level \in Level
    PROVE  /\ [r EXCEPT !.comps[k] = level] \in Row
           /\ [r EXCEPT !.comps[k] = level].name = r.name
           /\ [r EXCEPT !.comps[k] = level].depth = r.depth
<1>1. [r.comps EXCEPT ![k] = level] \in [Kind -> Level]
  BY DEF Row
<1>2. [r EXCEPT !.comps[k] = level] = [r EXCEPT !.comps = [r.comps EXCEPT ![k] = level]]
  BY DEF Row
<1> QED  BY <1>1, <1>2 DEF Row

LEMMA CreateEdits ==
    ASSUME NEW b, Good(b), NEW n \in Name, NEW p
    PROVE  Edits(b, Create(b, n, p))
<1> DEFINE at == IF p = NoName THEN 1 ELSE Found(b.scene, p)
           t == Attached(b.scene, at, n)
<1>1. b \in Bus /\ b.scene \in Seq(Row) /\ b.selected \in Name \union {NoName}
  BY DEF Good, Bus
<1>2. CASE Writable(b) /\ ~Has(b.scene, n) /\ (p # NoName => Has(b.scene, p))
  <2>1. at \in DOMAIN b.scene
    <3>1. 1 \in DOMAIN b.scene
      BY <1>1, RowsAreTyped DEF Good, IsTree
    <3> QED  BY <3>1, <1>1, <1>2, FoundIsNamed
  <2>2. IsTree(t) /\ Repeats(t) \subseteq Repeats(b.scene) /\ \A m : Has(b.scene, m) => Has(t, m)
    BY <1>1, <1>2, <2>1, AttachKeepsTheTree DEF Good
  <2> HIDE DEF t
  <2>3. Edits(b, [b EXCEPT !.scene = t, !.selected = b.selected])
    BY <1>1, <1>2, <2>2, WritingEdits DEF Sound
  <2>4. [b EXCEPT !.scene = t, !.selected = b.selected] = [b EXCEPT !.scene = t]
    BY <1>1 DEF Bus
  <2>5. Create(b, n, p) = [b EXCEPT !.scene = t]
    BY <1>2, NameAssumption DEF Create, t
  <2> QED  BY <2>3, <2>4, <2>5
<1>3. CASE ~(Writable(b) /\ ~Has(b.scene, n) /\ (p # NoName => Has(b.scene, p)))
  <2>1. Create(b, n, p) = b
    BY <1>3 DEF Create
  <2> QED  BY <2>1, RefusalEdits
<1> QED  BY <1>2, <1>3

(* A new name that no object has; the selection goes with its object.        *)
LEMMA RenameEdits ==
    ASSUME NEW b, Good(b), NEW n \in Name, NEW m \in Name
    PROVE  Edits(b, Rename(b, n, m))
<1> DEFINE s == b.scene
           i == Found(s, n)
           t == WithName(s, i, m)
           sel == IF b.selected = n THEN m ELSE b.selected
<1>1. /\ b \in Bus /\ s \in Seq(Row) /\ b.selected \in Name \union {NoName}
      /\ IsTree(s)
  BY DEF Good, Bus
<1>2. CASE Writable(b) /\ ~Has(s, m) /\ Has(s, n)
  <2>1. i \in DOMAIN s /\ s[i].name = n
    BY <1>1, <1>2, FoundIsNamed
  <2>2. DOMAIN s = 1 .. Len(s) /\ \A j \in 1 .. Len(s) : s[j] \in Row
    BY <1>1, RowsAreTyped
  <2> HIDE DEF i, s
  <2>3. /\ t \in [1 .. Len(s) -> Row]
        /\ t[i].name = m
        /\ \A j \in 1 .. Len(s) : t[j].depth = s[j].depth /\ (j # i => t[j].name = s[j].name)
    BY <2>1, <2>2 DEF WithName, Row
  <2> HIDE DEF t
  <2>4. IsTree(t)
    BY <1>1, <2>3, SameShape
  <2>5. Repeats(t) \subseteq Repeats(s)
    <3>1. \A j \in 1 .. Len(s) : s[j].name # m
      BY <1>2, <2>2 DEF Has, Named
    <3> SUFFICES ASSUME NEW l \in Name, NEW p \in 1 .. Len(s), NEW q \in 1 .. Len(s), p # q,
                        t[p].name = l, t[q].name = l
                 PROVE  \E x, y \in Named(s, l) : x # y
      BY <2>3 DEF Repeats, Named
    <3>2. p # i /\ q # i
      BY <2>3, <3>1
    <3> QED  BY <2>2, <2>3, <3>2 DEF Named
  <2>6. Has(t, m) /\ \A l : l # n /\ Has(s, l) => Has(t, l)
    BY <2>1, <2>2, <2>3 DEF Has, Named
  <2>7. Sound(b) => sel = NoName \/ Has(t, sel)
    BY <2>6 DEF Sound, s
  <2>8. Edits(b, [b EXCEPT !.scene = t, !.selected = sel])
    BY <1>1, <1>2, <2>4, <2>5, <2>7, WritingEdits DEF s
  <2>9. Rename(b, n, m) = [b EXCEPT !.scene = t, !.selected = sel]
    BY <1>1, <1>2, NameAssumption DEF Rename, t, i, s, Bus
  <2> QED  BY <2>8, <2>9
<1>3. CASE ~(Writable(b) /\ ~Has(s, m) /\ Has(s, n))
  <2>1. Rename(b, n, m) = b
    BY <1>3 DEF Rename
  <2> QED  BY <2>1, RefusalEdits
<1> QED  BY <1>2, <1>3

LEMMA SetEdits ==
    ASSUME NEW b, Good(b), NEW n, NEW f \in Setting, NEW on \in BOOLEAN
    PROVE  Edits(b, Set(b, n, f, on))
<1>1. CASE Writable(b) /\ Has(b.scene, n)
  <2> DEFINE t == WithSetting(b.scene, Found(b.scene, n), f, on)
  <2>1. b.scene \in Seq(Row) /\ \A j \in 1 .. Len(b.scene) : b.scene[j] \in Row
    BY RowsAreTyped DEF Good, Bus
  <2>2. /\ t \in [1 .. Len(b.scene) -> Row]
        /\ \A j \in 1 .. Len(b.scene) :
              t[j].depth = b.scene[j].depth /\ t[j].name = b.scene[j].name
    <3> DEFINE i == Found(b.scene, n)
    <3>1. \A j \in 1 .. Len(b.scene) : b.scene[j].set \in SUBSET Setting
      BY <2>1 DEF Row
    <3>2. DOMAIN b.scene = 1 .. Len(b.scene)
      BY <2>1
    <3>3. ASSUME NEW j \in 1 .. Len(b.scene)
          PROVE  t[j] \in Row /\ t[j].depth = b.scene[j].depth /\ t[j].name = b.scene[j].name
      <4> DEFINE u == IF on THEN b.scene[j].set \union {f} ELSE b.scene[j].set \ {f}
      <4>1. u \in SUBSET Setting
        BY <3>1
      <4>2. t[j] = IF j = i THEN [b.scene[j] EXCEPT !.set = u] ELSE b.scene[j]
        BY <3>2 DEF WithSetting
      <4>3. b.scene[j] \in Row
        BY <2>1
      <4> DEFINE r == b.scene[j]
      <4> HIDE DEF u, t, i, r
      <4>4. r \in Row
        BY <4>3 DEF r
      <4>5. LET w == [r EXCEPT !.set = u]
            IN  w \in Row /\ w.depth = r.depth /\ w.name = r.name
        BY <4>1, <4>4, SettingsUpdate
      <4>6. t[j] = IF j = i THEN [r EXCEPT !.set = u] ELSE r
        BY <4>2 DEF r
      <4>7. t[j] \in Row /\ t[j].depth = r.depth /\ t[j].name = r.name
        BY <4>4, <4>5, <4>6
      <4> QED  BY <4>7 DEF r
    <3>4. t = [j \in 1 .. Len(b.scene) |-> t[j]]
      BY <3>2 DEF WithSetting
    <3> HIDE DEF t, i
    <3> QED  BY <3>3, <3>4
  <2> HIDE DEF t
  <2>3. Edits(b, [b EXCEPT !.scene = t])
    BY <1>1, <2>2, RowEdits
  <2> QED  BY <1>1, <2>3 DEF Set, t
<1>2. CASE ~(Writable(b) /\ Has(b.scene, n))
  BY <1>2, RefusalEdits DEF Set
<1> QED  BY <1>1, <1>2

LEMMA SetAllEdits ==
    ASSUME NEW b, Good(b), NEW n, NEW settings \in SUBSET Setting
    PROVE  Edits(b, SetAll(b, n, settings))
<1>1. CASE Writable(b) /\ Has(b.scene, n)
  <2> DEFINE t == [b.scene EXCEPT ![Found(b.scene, n)].set = settings]
  <2>1. b.scene \in Seq(Row) /\ \A j \in 1 .. Len(b.scene) : b.scene[j] \in Row
    BY RowsAreTyped DEF Good, Bus
  <2>2. /\ t \in [1 .. Len(b.scene) -> Row]
        /\ \A j \in 1 .. Len(b.scene) :
              t[j].depth = b.scene[j].depth /\ t[j].name = b.scene[j].name
    <3> DEFINE i == Found(b.scene, n)
    <3>1. DOMAIN b.scene = 1 .. Len(b.scene)
      BY <2>1
    <3>2. ASSUME NEW j \in 1 .. Len(b.scene)
          PROVE  t[j] \in Row /\ t[j].depth = b.scene[j].depth /\ t[j].name = b.scene[j].name
      <4>1. t[j] = IF j = i THEN [b.scene[j] EXCEPT !.set = settings] ELSE b.scene[j]
        BY <3>1
      <4> HIDE DEF t, i
      <4> QED  BY <4>1, <2>1, SettingsUpdate
    <3>3. t = [j \in 1 .. Len(b.scene) |-> t[j]]
      BY <3>1
    <3> HIDE DEF t, i
    <3> QED  BY <3>2, <3>3
  <2>3. SetAll(b, n, settings) = [b EXCEPT !.scene = t]
    BY <1>1 DEF SetAll
  <2> HIDE DEF t
  <2>4. Edits(b, [b EXCEPT !.scene = t])
    BY <1>1, <2>2, RowEdits
  <2> QED  BY <2>3, <2>4
<1>2. CASE ~(Writable(b) /\ Has(b.scene, n))
  BY <1>2, RefusalEdits DEF SetAll
<1> QED  BY <1>1, <1>2

(* Adding, tuning and removing a component.                                  *)
LEMMA ComponentEdits ==
    ASSUME NEW b, Good(b), Writable(b), NEW n, NEW k \in Kind, NEW level \in Level
    PROVE  Edits(b, [b EXCEPT !.scene = WithComponent(b.scene, Found(b.scene, n), k, level)])
<1> DEFINE t == WithComponent(b.scene, Found(b.scene, n), k, level)
<1>1. b.scene \in Seq(Row) /\ \A j \in 1 .. Len(b.scene) : b.scene[j] \in Row
  BY RowsAreTyped DEF Good, Bus
<1>2. /\ t \in [1 .. Len(b.scene) -> Row]
      /\ \A j \in 1 .. Len(b.scene) :
            t[j].depth = b.scene[j].depth /\ t[j].name = b.scene[j].name
  <2> DEFINE i == Found(b.scene, n)
  <2>1. DOMAIN b.scene = 1 .. Len(b.scene)
    BY <1>1
  <2>2. ASSUME NEW j \in 1 .. Len(b.scene)
        PROVE  t[j] \in Row /\ t[j].depth = b.scene[j].depth /\ t[j].name = b.scene[j].name
    <3>1. t[j] = IF j = i THEN [b.scene[j] EXCEPT !.comps[k] = level] ELSE b.scene[j]
      BY <2>1 DEF WithComponent
    <3> HIDE DEF t, i
    <3> QED  BY <3>1, <1>1, ComponentUpdate
  <2>3. t = [j \in 1 .. Len(b.scene) |-> t[j]]
    BY <2>1 DEF WithComponent
  <2> HIDE DEF t, i
  <2> QED  BY <2>2, <2>3
<1> HIDE DEF t
<1>3. Edits(b, [b EXCEPT !.scene = t])
  BY <1>2, RowEdits
<1> QED  BY <1>3 DEF t

LEMMA AddRemoveTuneEdit ==
    ASSUME NEW b, Good(b), NEW n, NEW k \in Kind, NEW level \in Level
    PROVE  /\ Edits(b, AddComponent(b, n, k, level))
           /\ Edits(b, RemoveComponent(b, n, k))
           /\ Edits(b, SetFloat(b, n, k, level))
<1>1. Edits(b, AddComponent(b, n, k, level))
  BY ComponentEdits, RefusalEdits DEF AddComponent
<1>2. Edits(b, RemoveComponent(b, n, k))
  BY ComponentEdits, RefusalEdits DEF RemoveComponent, Level
<1>3. Edits(b, SetFloat(b, n, k, level))
  BY ComponentEdits, RefusalEdits DEF SetFloat
<1> QED  BY <1>1, <1>2, <1>3

LEMMA SelectEdits ==
    ASSUME NEW b, Good(b), NEW n \in Name \union {NoName}
    PROVE  Edits(b, Select(b, n))
<1>1. CASE n = NoName \/ Has(b.scene, n)
  <2>1. /\ Select(b, n) \in Bus /\ Select(b, n).scene = b.scene
        /\ Select(b, n).selected = n /\ Select(b, n).state = b.state
    BY <1>1 DEF Select, Good, Bus
  <2> QED  BY <1>1, <2>1 DEF Edits, Good, Sound
<1>2. CASE ~(n = NoName \/ Has(b.scene, n))
  BY <1>2, RefusalEdits DEF Select
<1> QED  BY <1>1, <1>2

-----------------------------------------------------------------------------
(* The steps *)

(* What every step of a client or of a panel keeps.                          *)
Kept ==
    /\ Good(bus)'
    /\ \/ Repeats(bus'.scene) \subseteq Repeats(bus.scene)
       \/ \E f \in Files : bus' = Load(bus, f) /\ Repeats(bus'.scene) \subseteq Repeats(f)
    /\ Sound(bus) => Sound(bus)' \/ LostBelow(bus.selected)
    /\ bus.state = "playing" => bus'.scene = bus.scene \/ SceneLoad

LEMMA EditsAreKept ==
    ASSUME Good(bus), Edits(bus, bus')
    PROVE  Kept
BY DEF Edits, Kept, Good, Sound, Bus

(* An object that leaves with a deleted one is that one or lies below it.    *)
LEMMA DeleteIsKept ==
    ASSUME Good(bus), NEW n \in Name, bus' = Delete(bus, n)
    PROVE  Kept
<1> DEFINE s == bus.scene
           i == Found(s, n)
           t == Detached(s, i)
           sel == IF bus.selected = n THEN NoName ELSE bus.selected
<1>1. /\ bus \in Bus /\ s \in Seq(Row) /\ bus.selected \in Name \union {NoName}
      /\ IsTree(s)
  BY DEF Good, Bus
<1>2. CASE Writable(bus) /\ n # s[1].name /\ Has(s, n)
  <2>1. i \in DOMAIN s /\ s[i].name = n /\ i # 1
    BY <1>1, <1>2, FoundIsNamed
  <2> HIDE DEF i
  <2>2. /\ IsTree(t) /\ Repeats(t) \subseteq Repeats(s)
        /\ \A j \in DOMAIN s : j < i \/ After(s, i) <= j => Has(t, s[j].name)
    BY <1>1, <2>1, DetachKeepsTheTree
  <2>3. bus' = [bus EXCEPT !.scene = t, !.selected = sel]
    BY <1>2 DEF Delete, i
  <2> HIDE DEF t
  <2>4. t \in Seq(Row)
    BY <2>2 DEF IsTree
  <2>5. /\ bus' \in Bus /\ bus'.scene = t /\ bus'.selected = sel /\ bus'.state = bus.state
    BY <1>1, <2>3, <2>4 DEF Bus
  <2>6. Good(bus)'
    BY <2>2, <2>5 DEF Good
  <2>7. ASSUME Sound(bus)
        PROVE  Sound(bus)' \/ LostBelow(bus.selected)
    <3>1. CASE sel = NoName
      BY <3>1, <2>5 DEF Sound
    <3>2. CASE sel # NoName
      <4>1. bus.selected \in Name /\ bus.selected # n /\ Has(s, bus.selected) /\ sel = bus.selected
        BY <3>2, <2>7, <1>1 DEF Sound
      <4> DEFINE j == Found(s, bus.selected)
      <4>2. j \in DOMAIN s /\ s[j].name = bus.selected
        BY <1>1, <4>1, FoundIsNamed
      <4>3. j \in 1 .. Len(s) /\ i \in 1 .. Len(s) /\ j # i
        BY <1>1, <2>1, <4>1, <4>2, RowsAreTyped
      <4>4. After(s, i) \in i + 1 .. Len(s) + 1
        BY <1>1, <2>1, AfterIsNext
      <4> HIDE DEF j
      <4>5. CASE j < i \/ After(s, i) <= j
        BY <4>5, <4>1, <4>2, <2>2, <2>5 DEF Sound
      <4>6. CASE i < j /\ j < After(s, i)
        BY <4>6, <4>1, <1>2 DEF LostBelow, i, j
      <4> HIDE DEF s
      <4>7. (j < i \/ After(s, i) <= j) \/ (i < j /\ j < After(s, i))
        BY <4>3, <4>4
      <4> QED  BY <4>5, <4>6, <4>7
    <3> QED  BY <3>1, <3>2
  <2>8. Repeats(bus'.scene) \subseteq Repeats(bus.scene)
    BY <2>2, <2>5
  <2> QED  BY <1>2, <2>6, <2>7, <2>8 DEF Kept, Writable
<1>3. CASE ~(Writable(bus) /\ n # s[1].name /\ Has(s, n))
  <2>1. bus' = bus
    BY <1>3 DEF Delete
  <2> QED  BY <2>1, RefusalEdits, EditsAreKept
<1> QED  BY <1>2, <1>3

(* A file holds a scene of old, or the one that has just been saved.         *)
LEMMA LoadedIsGood ==
    ASSUME NEW f \in Seq(Row), IsTree(f)
    PROVE  IsTree(FromFile(f)) /\ Repeats(FromFile(f)) = Repeats(f)
<1>1. \A i \in 1 .. Len(f) : f[i] \in Row /\ f[i].comps \in [Kind -> Level]
  BY RowsAreTyped DEF Row
<1>2. \A k, level : level \in Level => Loaded(k, level) \in Level
  BY DEF Loaded, Level
<1> DEFINE t == FromFile(f)
<1>3. DOMAIN f = 1 .. Len(f)
  OBVIOUS
<1>4. ASSUME NEW i \in 1 .. Len(f)
      PROVE  t[i] \in Row /\ t[i].depth = f[i].depth /\ t[i].name = f[i].name
  <2> DEFINE comps == [k \in Kind |-> Loaded(k, f[i].comps[k])]
  <2>1. comps \in [Kind -> Level]
    BY <1>1, <1>2
  <2>2. t[i] = [f[i] EXCEPT !.comps = comps]
    BY <1>3 DEF FromFile
  <2> HIDE DEF comps, t
  <2> QED  BY <1>1, <2>1, <2>2 DEF Row
<1>5. t = [i \in 1 .. Len(f) |-> t[i]]
  BY <1>3 DEF FromFile
<1> HIDE DEF t
<1>6. t \in [1 .. Len(f) -> Row]
  BY <1>4, <1>5
<1>7. IsTree(t) /\ Repeats(t) = Repeats(f)
  BY <1>4, <1>6, SameShape
<1> QED  BY <1>7 DEF t

LEMMA SavedIsGood ==
    ASSUME NEW s \in Seq(Row), IsTree(s)
    PROVE  ToFile(s) \in Seq(Row) /\ IsTree(ToFile(s)) /\ Repeats(ToFile(s)) = Repeats(s)
<1>1. \A i \in 1 .. Len(s) : s[i] \in Row /\ s[i].comps \in [Kind -> Level]
  BY RowsAreTyped DEF Row
<1>2. \A k, level : level \in Level => Dumped(k, level) \in Level
  BY DEF Dumped, Level
<1> DEFINE t == ToFile(s)
<1>3. DOMAIN s = 1 .. Len(s)
  OBVIOUS
<1>4. ASSUME NEW i \in 1 .. Len(s)
      PROVE  t[i] \in Row /\ t[i].depth = s[i].depth /\ t[i].name = s[i].name
  <2> DEFINE comps == [k \in Kind |-> Dumped(k, s[i].comps[k])]
  <2>1. comps \in [Kind -> Level]
    BY <1>1, <1>2
  <2>2. t[i] = [s[i] EXCEPT !.comps = comps]
    BY <1>3 DEF ToFile
  <2> HIDE DEF comps, t
  <2> QED  BY <1>1, <2>1, <2>2 DEF Row
<1>5. t = [i \in 1 .. Len(s) |-> t[i]]
  BY <1>3 DEF ToFile
<1> HIDE DEF t
<1>6. t \in [1 .. Len(s) -> Row]
  BY <1>4, <1>5
<1>7. IsTree(t) /\ Repeats(t) = Repeats(s) /\ t \in Seq(Row)
  BY <1>4, <1>6, SameShape
<1> QED  BY <1>7 DEF t

LEMMA LoadIsGood ==
    ASSUME NEW b \in Bus, NEW f, IsTree(f)
    PROVE  /\ Good(Load(b, f)) /\ Sound(Load(b, f))
           /\ Repeats(Load(b, f).scene) = Repeats(f)
<1>1. IsTree(FromFile(f)) /\ Repeats(FromFile(f)) = Repeats(f) /\ FromFile(f) \in Seq(Row)
  BY LoadedIsGood DEF IsTree
<1>2. /\ Load(b, f) \in Bus /\ Load(b, f).scene = FromFile(f) /\ Load(b, f).selected = NoName
  BY <1>1 DEF Load, Bus
<1> QED  BY <1>1, <1>2 DEF Good, Sound

LEMMA ClientIsKept ==
    ASSUME Good(bus), Next
    PROVE  Kept
<1>1. CASE ObjectCreate
  BY <1>1, CreateEdits, EditsAreKept DEF ObjectCreate, Becomes
<1>2. CASE ObjectDelete
  BY <1>2, DeleteIsKept DEF ObjectDelete, Becomes
<1>3. CASE ObjectRename
  BY <1>3, RenameEdits, EditsAreKept DEF ObjectRename, Becomes
<1>4. CASE ObjectSet
  BY <1>4, SetEdits, EditsAreKept DEF ObjectSet, Becomes
<1>5. CASE ObjectAdd
  BY <1>5, AddRemoveTuneEdit, EditsAreKept DEF ObjectAdd, Becomes, Level
<1>6. CASE ObjectRemoveComponent
  <2>1. "none" \in Level
    BY DEF Level
  <2> QED  BY <1>6, <2>1, AddRemoveTuneEdit, EditsAreKept DEF ObjectRemoveComponent, Becomes
<1>7. CASE ComponentSetFloat
  BY <1>7, AddRemoveTuneEdit, EditsAreKept DEF ComponentSetFloat, Becomes
<1>8. CASE PlayStart \/ PlayPause \/ PlayStop \/ PlayStep
  <2>1. bus' \in Bus /\ bus'.scene = bus.scene /\ bus'.selected = bus.selected
    BY <1>8 DEF PlayStart, PlayPause, PlayStop, PlayStep, Play, Pause, Stop, StepFrames, Becomes,
                Good, Bus, State
  <2> QED  BY <2>1 DEF Kept, Good, Sound
<1>9. CASE EditorSelect
  BY <1>9, SelectEdits, EditsAreKept DEF EditorSelect, Becomes
<1>10. CASE SceneLoad
  <2> PICK f \in Files \union {ToFile(bus.scene)} : bus' = Load(bus, f)
    BY <1>10 DEF SceneLoad, Becomes
  <2>1. IsTree(f) /\ (f \in Files \/ Repeats(f) = Repeats(bus.scene))
    BY FilesAssumption, SavedIsGood DEF Good, IsTree
  <2>2. Good(bus') /\ Sound(bus') /\ Repeats(bus'.scene) = Repeats(f)
    BY <2>1, LoadIsGood DEF Good
  <2>3. \/ Repeats(bus'.scene) \subseteq Repeats(bus.scene)
        \/ \E g \in Files : bus' = Load(bus, g) /\ Repeats(bus'.scene) \subseteq Repeats(g)
    BY <2>1, <2>2
  <2> QED  BY <1>10, <2>2, <2>3 DEF Kept, Good, Sound
<1> QED  BY <1>1, <1>2, <1>3, <1>4, <1>5, <1>6, <1>7, <1>8, <1>9, <1>10 DEF Next

Form == [bound : Name \union {NoName}, hasJump : BOOLEAN]

EditorInv ==
    /\ Good(bus)
    /\ \A i \in DOMAIN rows : rows[i] \in Name
    /\ form \in Form

LEMMA LoadedFormIsTyped ==
    ASSUME NEW b, Good(b)
    PROVE  LoadForm(b) \in Form
BY DEF LoadForm, Form, Good, Bus

LEMMA EditorInitially == EditorInit => EditorInv
<1> SUFFICES ASSUME EditorInit PROVE EditorInv
  OBVIOUS
<1>1. NewBus \in Bus
  <2>1. NewRow(RootName, 0) \in Row
    BY NameAssumption DEF NewRow, Row, Level
  <2> QED  BY <2>1 DEF NewBus, Bus, State
<1>2. Good(Load(NewBus, SampleFile))
  BY <1>1, EditorAssumption, LoadIsGood
<1>3. Good(bus)
  BY <1>2, EditorAssumption, SelectEdits DEF EditorInit, Edits
<1>4. \A i \in DOMAIN bus.scene : bus.scene[i].name \in Name
  BY <1>3, RowsAreTyped DEF Good, Bus
<1>5. form \in Form
  BY <1>3, LoadedFormIsTyped DEF EditorInit
<1> QED  BY <1>3, <1>4, <1>5 DEF EditorInit, EditorInv

(* Apply renames, and then edits whatever now has the name it asked for.     *)
LEMMA ApplyIsKept ==
    ASSUME EditorInv, NEW text \in Name \union {NoName}, NEW settings \in SUBSET Setting,
           NEW motor \in {"plain", "tuned"}, Apply(text, settings, motor)
    PROVE  Kept /\ EditorInv'
<1> DEFINE renames == text \notin {NoName, form.bound}
           own == IF renames THEN text ELSE form.bound
           renamed == IF renames THEN Rename(bus, form.bound, text) ELSE bus
           placed == SetAll(renamed, own, settings)
<1>1. Good(bus) /\ form \in Form /\ form.bound \in Name
  BY DEF EditorInv, Form, Apply
<1>2. Edits(bus, renamed)
  BY <1>1, RenameEdits, RefusalEdits
<1> HIDE DEF renamed
<1>3. Edits(bus, placed)
  BY <1>2, SetAllEdits, EditsCompose DEF Edits
<1>4. own \in Name \union {NoName}
  BY <1>1
<1> HIDE DEF placed, own
<1>5. motor \in Level
  BY DEF Level
<1>6. CASE form.hasJump /\ "JumpMotor" \in Kind
  <2>1. bus' = SetFloat(placed, own, "JumpMotor", motor) /\ form' = [form EXCEPT !.bound = own]
    BY <1>6 DEF Apply, placed, own, renamed
  <2>2. Edits(bus, bus')
    BY <1>3, <1>5, <1>6, <2>1, AddRemoveTuneEdit, EditsCompose DEF Edits
  <2> QED
    BY <1>1, <1>4, <2>1, <2>2, EditsAreKept DEF Apply, EditorInv, Form, Kept
<1>7. CASE ~form.hasJump
  <2>1. bus' = placed /\ form' = [form EXCEPT !.bound = own]
    BY <1>7 DEF Apply, placed, own, renamed
  <2> QED
    BY <1>1, <1>3, <1>4, <2>1, EditsAreKept DEF Apply, EditorInv, Form, Kept
<1> QED  BY <1>1, <1>6, <1>7, EditorAssumption DEF Form

(* The other panels edit what they are bound to and load their form again.   *)
LEMMA ReloadIsTyped ==
    ASSUME EditorInv, Kept, form' = LoadForm(bus'), rows' = rows
    PROVE  EditorInv'
<1>1. form' \in Form
  BY LoadedFormIsTyped DEF Kept, Good
<1> QED  BY <1>1 DEF EditorInv, Kept, Good

LEMMA ClickIsKept ==
    ASSUME EditorInv, NEW i \in DOMAIN rows, ClickRow(i)
    PROVE  Kept /\ EditorInv'
<1>1. Kept
  BY SelectEdits, EditsAreKept DEF EditorInv, ClickRow
<1> QED  BY <1>1, ReloadIsTyped DEF ClickRow

LEMMA CreateEmptyIsKept ==
    ASSUME EditorInv, CreateEmpty
    PROVE  Kept /\ EditorInv'
<1> DEFINE n == NewName(Cardinality({i \in DOMAIN bus.scene : bus.scene[i].depth = 1}))
           made == Create(bus, n, form.bound)
<1>1. Good(bus) /\ n \in Name /\ bus' = Select(made, n)
  BY DEF EditorInv, CreateEmpty
<1> HIDE DEF n
<1>2. Edits(bus, made)
  BY <1>1, CreateEdits
<1> HIDE DEF made
<1>3. Edits(made, bus')
  BY <1>1, <1>2, SelectEdits DEF Edits
<1>4. Kept
  BY <1>1, <1>2, <1>3, EditsCompose, EditsAreKept
<1> QED  BY <1>4, ReloadIsTyped DEF CreateEmpty

LEMMA AddToBoundIsKept ==
    ASSUME EditorInv, NEW k \in Kind, AddToBound(k)
    PROVE  Kept /\ EditorInv'
<1>1. "plain" \in Level
  BY DEF Level
<1>2. Kept
  BY <1>1, AddRemoveTuneEdit, EditsAreKept DEF EditorInv, AddToBound
<1> QED  BY <1>2, ReloadIsTyped DEF AddToBound

LEMMA FrameIsKept ==
    ASSUME EditorInv, NEW down \in BOOLEAN, NEW hit \in BOOLEAN, Frame(down, hit)
    PROVE  Kept /\ EditorInv'
<1>1. Good(bus)
  BY DEF EditorInv
<1>2. Edits(bus, bus')
  <2>1. CASE bus' = bus
    BY <1>1, <2>1, RefusalEdits
  <2>2. CASE \E on \in BOOLEAN : bus' = Set(bus, bus.selected, "moved", on)
    BY <1>1, <2>2, SetEdits, EditorAssumption
  <2> QED  BY <2>1, <2>2 DEF Frame
<1>3. Kept
  BY <1>1, <1>2, EditsAreKept
<1> QED  BY <1>3 DEF Frame, EditorInv, Kept, Good

LEMMA EditorSteps ==
    ASSUME EditorInv, EditorNext
    PROVE  Kept /\ EditorInv'
<1>1. CASE Client
  <2>1. Kept
    BY <1>1, ClientIsKept DEF Client, EditorInv
  <2> QED  BY <1>1, <2>1 DEF Client, EditorInv, Kept, Good
<1>2. CASE \E i \in DOMAIN rows : ClickRow(i)
  BY <1>2, ClickIsKept
<1>3. CASE \E text \in Name \union {NoName}, settings \in SUBSET Setting,
              motor \in {"plain", "tuned"} : Apply(text, settings, motor)
  BY <1>3, ApplyIsKept
<1>4. CASE CreateEmpty
  BY <1>4, CreateEmptyIsKept
<1>5. CASE \E k \in Kind \ {"JumpMotor", "PlatformPad"} : AddToBound(k)
  BY <1>5, AddToBoundIsKept
<1>6. CASE \E down, hit \in BOOLEAN : Frame(down, hit)
  BY <1>6, FrameIsKept
<1> QED  BY <1>1, <1>2, <1>3, <1>4, <1>5, <1>6 DEF EditorNext

LEMMA EditorInvariant == EditorSpec => []EditorInv
<1>1. EditorInv /\ [EditorNext]_editorVars => EditorInv'
  <2>1. EditorInv /\ UNCHANGED editorVars => EditorInv'
    BY DEF EditorInv, editorVars, Good
  <2> QED  BY <2>1, EditorSteps
<1> QED  BY <1>1, EditorInitially, PTL DEF EditorSpec

-----------------------------------------------------------------------------
(* The scene of the editor is the depth-first list of one tree, its          *)
(* selection a name or nothing, its play state one of the three.             *)
THEOREM EditorTyping == EditorSpec => []TypeOK
<1>1. EditorInv => TypeOK
  BY DEF EditorInv, Good, Bus, TypeOK
<1> QED  BY <1>1, EditorInvariant, PTL

(* Whatever the panels and the clients of the bus create, rename, delete,    *)
(* save and load again, objects come to share a name only by a load of a     *)
(* file in which objects share it already.                                   *)
THEOREM EditorRepeatsNoNames == EditorSpec => NamesAreRepeatedOnlyByFiles
<1>1. EditorInv /\ [EditorNext]_editorVars =>
        [\/ Repeats(bus'.scene) \subseteq Repeats(bus.scene)
         \/ \E f \in Files : bus' = Load(bus, f) /\ Repeats(bus'.scene) \subseteq Repeats(f)]_vars
  <2>1. EditorInv /\ EditorNext => Kept
    BY EditorSteps
  <2>2. UNCHANGED editorVars => UNCHANGED vars
    BY DEF editorVars, vars
  <2> QED  BY <2>1, <2>2 DEF Kept
<1> QED  BY <1>1, EditorInvariant, PTL DEF EditorSpec, NamesAreRepeatedOnlyByFiles

(* A selection that names an object goes on naming one, unless an ancestor   *)
(* of the object is deleted.                                                 *)
THEOREM EditorLosesSelectionsOnlyWithAncestors ==
    EditorSpec => SelectionIsLostOnlyWithAnAncestor
<1>1. EditorInv /\ [EditorNext]_editorVars =>
        [\/ bus.selected # NoName /\ ~Has(bus.scene, bus.selected)
         \/ bus'.selected = NoName \/ Has(bus'.scene, bus'.selected)
         \/ LostBelow(bus.selected)]_vars
  <2>1. EditorInv /\ EditorNext => Kept
    BY EditorSteps
  <2>2. UNCHANGED editorVars => UNCHANGED vars
    BY DEF editorVars, vars
  <2> QED  BY <2>1, <2>2 DEF Kept, Sound
<1> QED  BY <1>1, EditorInvariant, PTL DEF EditorSpec, SelectionIsLostOnlyWithAnAncestor

(* However the panels compose their commands, the scene of a playing world   *)
(* is only ever replaced as a whole, by a load.                              *)
THEOREM EditorProtectsAPlayingScene == EditorSpec => PlayingProtectsTheScene
<1>1. EditorInv /\ [EditorNext]_editorVars =>
        [bus.state = "playing" => bus'.scene = bus.scene \/ SceneLoad]_vars
  <2>1. EditorInv /\ EditorNext => Kept
    BY EditorSteps
  <2>2. UNCHANGED editorVars => UNCHANGED vars
    BY DEF editorVars, vars
  <2> QED  BY <2>1, <2>2 DEF Kept
<1> QED  BY <1>1, EditorInvariant, PTL DEF EditorSpec, PlayingProtectsTheScene

(***************************************************************************)
(* The incremental build                                                   *)
(***************************************************************************)

InputTimes == [Input -> Nat]

Job == [at : {"parsed", "planned", "emitting"}, config : Config, forced : BOOLEAN,
        read : InputTimes, since : SUBSET Input, full : BOOLEAN, todo : SUBSET Artifact,
        hydrated : SUBSET Module]

BuildTyping ==
    /\ clock \in Nat
    /\ mtime \in InputTimes
    /\ job = Idle \/ job \in Job
    /\ \A k \in cache : DOMAIN k.sigs \subseteq Module
    /\ \A s \in stamp : s.mtime \in Nat /\ s.mtime <= clock

(* A translation knows what it has read, but for what was edited since: and *)
(* those inputs are newer than every stamp there is.                        *)
ReadsAreKnown ==
    job # Idle =>
        \A f \in Input :
            /\ f \notin job.since => job.read[f] = mtime[f]
            /\ f \in job.since => \A s \in stamp : mtime[f] > s.mtime

Complete == Artifact \subseteq DOMAIN out
Current(f) == Complete /\ \A a \in Artifact : out[a].from[f] = mtime[f]

(* With a stamp there is every artifact, made of the inputs older than it.  *)
StampedAreCurrent ==
    \A s \in stamp :
        Complete /\ \A f \in Input \ late : mtime[f] <= s.mtime => Current(f)

(* A full translation has emitted what is not left to do; any other one     *)
(* was planned when nothing had changed.                                    *)
EmittedAreRead ==
    job # Idle /\ job.at # "parsed" =>
        IF job.full
        THEN /\ job.at = "planned" => job.todo = Module
             /\ job.at = "emitting" =>
                    \A a \in Artifact \ job.todo : a \in DOMAIN out /\ out[a].from = job.read
        ELSE Complete /\ \A f \in Input \ (late \union job.since) : Current(f)

(* A cache holds, for every input that was not edited while it was made,    *)
(* the signatures of the content that its fingerprint names.                *)
SignaturesFitTheFingerprint ==
    \A k \in cache : \A m \in DOMAIN k.sigs : \A f \in Input \ k.raced :
        k.sigs[m][f] = k.fp[f]

BuildInv ==
    /\ BuildTyping
    /\ ReadsAreKnown
    /\ StampedAreCurrent
    /\ EmittedAreRead
    /\ SignaturesFitTheFingerprint

LEMMA BuildInitially == BuildInit => BuildInv
BY DEF BuildInit, BuildInv, BuildTyping, ReadsAreKnown, StampedAreCurrent, EmittedAreRead,
       SignaturesFitTheFingerprint, InputTimes, Idle

(* The plan is full or finds nothing changed: no path starts with "paw".    *)
LEMMA PlanIsFullOrEmpty ==
    ASSUME BuildTyping, NEW forced \in BOOLEAN, ~Full(forced)
    PROVE  /\ Dirty(forced) = {}
           /\ \E s \in stamp : \A f \in Input : mtime[f] <= s.mtime
<1>1. Changed = {}
  BY InputAssumption DEF Full, LeafPath, Changed
<1>2. PICK s \in stamp : TRUE
  BY DEF Full
<1>3. \A f \in Input : mtime[f] <= s.mtime
  BY <1>1, <1>2 DEF Changed, BuildTyping, InputTimes
<1> QED  BY <1>1, <1>3 DEF Dirty

LEMMA EditKeeps ==
    ASSUME BuildInv, NEW g \in Input, Edit(g)
    PROVE  BuildInv'
<1> USE DEF BuildInv, BuildTyping, InputTimes, Edit
<1>0. mtime' \in InputTimes /\ mtime'[g] = clock + 1 /\ \A f \in Input \ {g} : mtime'[f] = mtime[f]
  OBVIOUS
<1>1. job = Idle => job' = Idle
  OBVIOUS
<1>2. ASSUME job # Idle
      PROVE  /\ job' \in Job /\ job' # Idle
             /\ job'.since = job.since \union {g} /\ job'.read = job.read
             /\ job'.at = job.at /\ job'.full = job.full /\ job'.todo = job.todo
  BY <1>2 DEF Job, Idle
<1>3. Complete' = Complete /\ \A f \in Input : Current(f) /\ f # g => Current(f)'
  BY <1>0 DEF Current, Complete
<1>4. BuildTyping'
  BY <1>0, <1>1, <1>2
<1>5. ReadsAreKnown'
  BY <1>0, <1>1, <1>2 DEF ReadsAreKnown
<1>6. StampedAreCurrent'
  BY <1>0, <1>3 DEF StampedAreCurrent
<1>7. EmittedAreRead'
  BY <1>1, <1>2, <1>3 DEF EmittedAreRead
<1>8. SignaturesFitTheFingerprint'
  BY DEF SignaturesFitTheFingerprint
<1> QED  BY <1>4, <1>5, <1>6, <1>7, <1>8

LEMMA PlanKeeps ==
    ASSUME BuildInv, Plan
    PROVE  BuildInv'
<1> USE DEF BuildInv, Plan
<1>1. job \in Job /\ job # Idle
  BY DEF BuildTyping, Idle
<1>2. job.forced \in BOOLEAN /\ Full(job.forced) \in BOOLEAN
  BY <1>1 DEF Job, Full
<1>3. Dirty(job.forced) \subseteq Module
  BY <1>2, PlanIsFullOrEmpty DEF Dirty
<1>4. Hydrated(job.forced) \subseteq Module
  BY DEF Hydrated, Usable, BuildTyping
<1>5. /\ job' \in Job /\ job' # Idle /\ job'.at = "planned"
      /\ job'.since = job.since /\ job'.read = job.read
      /\ job'.full = Full(job.forced) /\ job'.todo = Dirty(job.forced)
  BY <1>1, <1>2, <1>3, <1>4 DEF Job, Idle, Artifact
<1>6. Complete' = Complete /\ \A f : Current(f)' = Current(f)
  BY DEF Current, Complete
<1>7. BuildTyping' /\ ReadsAreKnown' /\ StampedAreCurrent' /\ SignaturesFitTheFingerprint'
  BY <1>1, <1>5, <1>6 DEF BuildTyping, ReadsAreKnown, StampedAreCurrent, SignaturesFitTheFingerprint
<1>8. EmittedAreRead'
  <2>1. CASE Full(job.forced)
    BY <2>1, <1>5 DEF EmittedAreRead, Dirty
  <2>2. CASE ~Full(job.forced)
    <3>1. Complete /\ \A f \in Input \ late : Current(f)
      BY <2>2, <1>2, PlanIsFullOrEmpty DEF StampedAreCurrent
    <3> QED  BY <3>1, <2>2, <1>5, <1>6 DEF EmittedAreRead
  <2> QED  BY <2>1, <2>2
<1> QED  BY <1>7, <1>8

LEMMA StoreKeeps ==
    ASSUME BuildInv, StoreSignatures
    PROVE  BuildInv'
<1> USE DEF BuildInv, StoreSignatures
<1>1. job \in Job /\ job # Idle
  BY DEF BuildTyping, Idle
<1>2. /\ job' \in Job /\ job' # Idle /\ job'.at = "emitting"
      /\ job'.since = job.since /\ job'.read = job.read
      /\ job'.full = job.full /\ job'.todo = job.todo \union {Umbrella}
  BY <1>1 DEF Job, Idle, Artifact
<1>3. Complete' = Complete /\ \A f : Current(f)' = Current(f)
  BY DEF Current, Complete
<1>4. \A k \in NewCache :
          /\ DOMAIN k.sigs \subseteq Module
          /\ \A m \in DOMAIN k.sigs : \A f \in Input \ k.raced : k.sigs[m][f] = k.fp[f]
  <2>1. \A f \in Input \ job.since : job.read[f] = mtime[f]
    BY <1>1 DEF ReadsAreKnown
  <2>2. Stored \subseteq Module
    BY DEF Stored
  <2>3. /\ DOMAIN Fresh.sigs \subseteq Module
        /\ \A m \in DOMAIN Fresh.sigs : \A f \in Input \ Fresh.raced : Fresh.sigs[m][f] = Fresh.fp[f]
    BY <2>1, <2>2 DEF Fresh
  <2>4. ASSUME NEW k \in Usable
        PROVE  /\ DOMAIN Merged(k).sigs \subseteq Module
               /\ \A m \in DOMAIN Merged(k).sigs : \A f \in Input \ Merged(k).raced :
                     Merged(k).sigs[m][f] = Merged(k).fp[f]
    BY <2>1, <2>2 DEF Merged, Usable, BuildTyping, SignaturesFitTheFingerprint
  <2> QED  BY <2>3, <2>4 DEF NewCache
<1>5. BuildTyping' /\ SignaturesFitTheFingerprint'
  BY <1>2, <1>4 DEF BuildTyping, SignaturesFitTheFingerprint
<1>6. ReadsAreKnown' /\ StampedAreCurrent'
  BY <1>1, <1>2, <1>3 DEF ReadsAreKnown, StampedAreCurrent
<1>7. EmittedAreRead'
  BY <1>1, <1>2, <1>3 DEF EmittedAreRead, Artifact
<1> QED  BY <1>5, <1>6, <1>7

LEMMA EmitKeeps ==
    ASSUME BuildInv, NEW b \in Artifact, Emit(b)
    PROVE  BuildInv'
<1> USE DEF BuildInv, Emit
<1>1. job \in Job /\ job # Idle
  BY DEF BuildTyping, Idle
<1>2. /\ job' \in Job /\ job' # Idle /\ job'.at = "emitting"
      /\ job'.since = job.since /\ job'.read = job.read
      /\ job'.full = job.full /\ job'.todo = job.todo \ {b}
  BY <1>1 DEF Job, Idle
<1>3. /\ DOMAIN out' = DOMAIN out \union {b} /\ out'[b].from = job.read
      /\ \A a \in DOMAIN out \ {b} : out'[a] = out[a]
  OBVIOUS
<1>c. Complete => Complete'
  BY <1>3 DEF Complete
<1>4. ASSUME NEW f \in Input \ job.since, Current(f)
      PROVE  Current(f)'
  BY <1>1, <1>3, <1>4 DEF Current, Complete, ReadsAreKnown
<1>5. BuildTyping' /\ ReadsAreKnown' /\ SignaturesFitTheFingerprint'
  BY <1>1, <1>2 DEF BuildTyping, ReadsAreKnown, SignaturesFitTheFingerprint
<1>6. StampedAreCurrent'
  <2> SUFFICES ASSUME NEW s \in stamp, NEW f \in Input \ late, mtime[f] <= s.mtime
               PROVE  Current(f)'
    BY <1>c DEF StampedAreCurrent
  <2>1. f \notin job.since
    BY <1>1 DEF ReadsAreKnown, BuildTyping, InputTimes
  <2> QED  BY <2>1, <1>4 DEF StampedAreCurrent
<1>7. EmittedAreRead'
  BY <1>1, <1>2, <1>3, <1>c, <1>4 DEF EmittedAreRead
<1> QED  BY <1>5, <1>6, <1>7

LEMMA WriteStampKeeps ==
    ASSUME BuildInv, WriteStamp
    PROVE  BuildInv'
<1> USE DEF BuildInv, WriteStamp
<1>1. job \in Job /\ job # Idle
  BY DEF BuildTyping, Idle
<1>2. job' = Idle /\ \A s \in stamp' : s.mtime = clock + 1
  OBVIOUS
<1>3. BuildTyping' /\ ReadsAreKnown' /\ EmittedAreRead' /\ SignaturesFitTheFingerprint'
  BY <1>2 DEF BuildTyping, ReadsAreKnown, EmittedAreRead, SignaturesFitTheFingerprint
<1>4. StampedAreCurrent'
  <2> SUFFICES ASSUME NEW f \in Input, f \notin late'
               PROVE  Current(f)
    <3>1. Complete
      BY <1>1 DEF EmittedAreRead, Complete
    <3> QED  BY <1>2, <3>1 DEF StampedAreCurrent, Current, Complete
  <2>1. f \notin job.since
    OBVIOUS
  <2>2. CASE job.full
    BY <2>1, <2>2, <1>1 DEF EmittedAreRead, ReadsAreKnown, Current, Complete
  <2>3. CASE ~job.full
    BY <2>1, <2>3, <1>1 DEF EmittedAreRead
  <2> QED  BY <2>2, <2>3
<1> QED  BY <1>3, <1>4

LEMMA BuildSteps == BuildInv /\ [BuildNext]_buildVars => BuildInv'
<1> SUFFICES ASSUME BuildInv, [BuildNext]_buildVars  PROVE BuildInv'
  OBVIOUS
<1>1. CASE \E f \in Input : Edit(f)
  BY <1>1, EditKeeps
<1>2. CASE Clean
  BY <1>2 DEF Clean, BuildInv, BuildTyping, ReadsAreKnown, StampedAreCurrent, EmittedAreRead,
              SignaturesFitTheFingerprint
<1>3. CASE \E c \in Config, forced \in BOOLEAN : Translate(c, forced)
  <2> PICK c \in Config, forced \in BOOLEAN : Translate(c, forced)
    BY <1>3
  <2>1. /\ job' \in Job /\ job'.at = "parsed" /\ job'.read = mtime /\ job'.since = {}
    BY DEF Translate, Job, BuildInv, BuildTyping
  <2>2. BuildTyping' /\ ReadsAreKnown'
    BY <2>1 DEF Translate, BuildInv, BuildTyping, ReadsAreKnown
  <2>3. StampedAreCurrent' /\ EmittedAreRead' /\ SignaturesFitTheFingerprint'
    BY <2>1 DEF Translate, BuildInv, StampedAreCurrent, Current, Complete, EmittedAreRead,
                SignaturesFitTheFingerprint
  <2> QED  BY <2>2, <2>3 DEF BuildInv
<1>4. CASE Plan
  BY <1>4, PlanKeeps
<1>5. CASE StoreSignatures
  BY <1>5, StoreKeeps
<1>6. CASE \E a \in Artifact : Emit(a)
  BY <1>6, EmitKeeps
<1>7. CASE WriteStamp
  BY <1>7, WriteStampKeeps
<1>8. CASE Fail
  BY <1>8 DEF Fail, BuildInv, BuildTyping, ReadsAreKnown, StampedAreCurrent, Current, Complete,
              EmittedAreRead, SignaturesFitTheFingerprint
<1>9. CASE UNCHANGED buildVars
  BY <1>9 DEF buildVars, BuildInv, BuildTyping, ReadsAreKnown, StampedAreCurrent, Current, Complete,
              EmittedAreRead, SignaturesFitTheFingerprint
<1> QED  BY <1>1, <1>2, <1>3, <1>4, <1>5, <1>6, <1>7, <1>8, <1>9 DEF BuildNext

LEMMA BuildInvariant == BuildSpec => []BuildInv
BY BuildInitially, BuildSteps, PTL DEF BuildSpec

(* A build that should_skip_translate skips leaves every artifact in place and *)
(* made of the inputs as they are, whichever builds died before it: for any    *)
(* modules, inputs and number of edits and builds.                             *)
THEOREM BuildSkipsOnlyWhenCurrent == BuildSpec => []SkippedBuildIsCurrent
<1>1. BuildInv => SkippedBuildIsCurrent
  <2> SUFFICES ASSUME BuildInv, NEW c \in Config, ShouldSkip(c)
               PROVE  Complete /\ \A f \in Input \ late : Current(f)
    BY DEF SkippedBuildIsCurrent, Current, Complete
  <2> PICK s \in stamp : TRUE
    BY DEF ShouldSkip
  <2>1. \A f \in Input : mtime[f] <= s.mtime
    BY DEF ShouldSkip, Changed, BuildInv, BuildTyping, InputTimes
  <2> QED  BY <2>1 DEF BuildInv, StampedAreCurrent
<1> QED  BY <1>1, BuildInvariant, PTL

(* A cache that load_analysis_cache accepts holds the signatures of the inputs *)
(* as they are, however many builds have merged theirs into it.                *)
THEOREM BuildCacheIsCurrent == BuildSpec => []CachedSignaturesAreCurrent
<1>1. BuildInv => CachedSignaturesAreCurrent
  BY DEF BuildInv, SignaturesFitTheFingerprint, CachedSignaturesAreCurrent, Usable
<1> QED  BY <1>1, BuildInvariant, PTL

(***************************************************************************)
(* The counting loops                                                      *)
(***************************************************************************)

(* A counter that fits an int is not changed by the wrapping addition.       *)
LEMMA FittingStays == ASSUME NEW i \in CppInts PROVE Wrapped(i) = i
<1> DEFINE n == i + MaxInt + 1
           m == 2 * MaxInt + 2
<1>1. n \in 0 .. m - 1 /\ m \in Nat \ {0}
  BY LoopAssumption DEF CppInts
<1>2. n % m = n
  <2> HIDE DEF n, m
  <2> QED  BY <1>1
<1> QED  BY <1>2, LoopAssumption DEF Wrapped, CppInts

LEMMA WrappedIsInt == ASSUME NEW i \in Int PROVE Wrapped(i) \in Int
<1> DEFINE n == i + MaxInt + 1
           m == 2 * MaxInt + 2
<1>1. n \in Int /\ m \in Nat \ {0}
  BY LoopAssumption
<1>2. n % m \in Int
  <2> HIDE DEF n, m
  <2> QED  BY <1>1
<1> QED  BY <1>2, LoopAssumption DEF Wrapped

(* Division rounds down.                                                     *)
LEMMA Quotient ==
    ASSUME NEW k \in Nat, NEW s \in Nat \ {0}, NEW n \in Int, n <= k * s, n > (k - 1) * s
    PROVE  (n + s - 1) \div s = k
<1> DEFINE a == n + s - 1
           q == a \div s
<1>1. a \in Int /\ q \in Int /\ q * s <= a /\ a < (q + 1) * s
  <2> HIDE DEF a
  <2>1. a \in Int  BY DEF a
  <2>2. a = s * (a \div s) + (a % s) /\ a % s \in 0 .. s - 1 /\ a \div s \in Int
    BY <2>1
  <2> QED  BY <2>1, <2>2
<1>2. q * s < (k + 1) * s
  BY <1>1
<1>3. k * s < (q + 1) * s
  BY <1>1
<1> HIDE DEF q, a
<1>4. \A x, y \in Int : x * s < y * s => x < y
  OBVIOUS
<1>5. q < k + 1 /\ k < q + 1
  BY <1>1, <1>2, <1>3, <1>4
<1> QED  BY <1>1, <1>5 DEF q, a

(* The length of a range is the number of steps that end it.                 *)
LEMMA LengthIsRounds ==
    ASSUME NEW r, r.start \in Int, r.stop \in Int, r.step \in Int \ {0}, NEW k \in Nat,
           LET at == r.start + k * r.step
           IN  IF r.step < 0 THEN /\ at <= r.stop
                                  /\ k > 0 => at - r.step > r.stop
               ELSE /\ at >= r.stop
                    /\ k > 0 => at - r.step < r.stop
    PROVE  RangeLen(r) = k
<1>1. CASE r.step > 0
  <2> DEFINE s == r.step
             n == r.stop - r.start
  <2>1. s \in Nat \ {0} /\ n \in Int
    BY <1>1
  <2>2. n <= k * s /\ (k > 0 => n > (k - 1) * s)
    BY <1>1
  <2> SUFFICES IF n <= 0 THEN k = 0 ELSE (n + s - 1) \div s = k
    BY <1>1 DEF RangeLen
  <2> HIDE DEF s, n
  <2>3. CASE n <= 0
    <3>1. k > 0 => (k - 1) * s >= 0
      BY <2>1
    <3> QED  BY <2>1, <2>2, <2>3, <3>1
  <2>4. CASE n > 0
    <3>1. k # 0
      BY <2>1, <2>2, <2>4
    <3> QED  BY <2>1, <2>2, <2>4, <3>1, Quotient
  <2> QED  BY <2>1, <2>3, <2>4
<1>2. CASE r.step < 0
  <2> DEFINE s == - r.step
             n == r.start - r.stop
  <2>1. s \in Nat \ {0} /\ n \in Int
    BY <1>2
  <2>2. n <= k * s /\ (k > 0 => n > (k - 1) * s)
    <3>1. \A x \in Int : k * (-x) = -(k * x) /\ (k - 1) * (-x) = x - k * x
      OBVIOUS
    <3>2. k * s = -(k * r.step) /\ (k - 1) * s = r.step - k * r.step
      BY <3>1
    <3> DEFINE p == k * r.step
    <3>3. p \in Int /\ r.start + p <= r.stop /\ (k > 0 => r.start + p - r.step > r.stop)
      BY <1>2
    <3>4. k * s = -p /\ (k - 1) * s = r.step - p
      BY <3>2
    <3> HIDE DEF p
    <3>5. n = r.start - r.stop
      OBVIOUS
    <3> HIDE DEF n, s
    <3> QED  BY <3>3, <3>4, <3>5
  <2> SUFFICES IF n <= 0 THEN k = 0 ELSE (n + s - 1) \div s = k
    BY <1>2 DEF RangeLen
  <2> HIDE DEF s, n
  <2>3. CASE n <= 0
    <3>1. k > 0 => (k - 1) * s >= 0
      BY <2>1
    <3> QED  BY <2>1, <2>2, <2>3, <3>1
  <2>4. CASE n > 0
    <3>1. k # 0
      BY <2>1, <2>2, <2>4
    <3> QED  BY <2>1, <2>2, <2>4, <3>1, Quotient
  <2> QED  BY <2>1, <2>3, <2>4
<1> QED  BY <1>1, <1>2

Ranges == [start : CppInts, stop : CppInts, step : CppInts \ {0}]

LoopTyping ==
    /\ loop \in Forms /\ len \in 0 .. MaxLen /\ body \in BOOLEAN
    /\ rng \in [start : CppInts, stop : CppInts, step : CppInts]
    /\ body => cpp.on

CppTyping ==
    /\ cpp = [at |-> cpp.at, got |-> cpp.got, item |-> cpp.item, on |-> cpp.on,
              down |-> cpp.down]
    /\ cpp.at \in Int /\ cpp.got \in Nat /\ cpp.on \in BOOLEAN

PyTyping ==
    /\ py = [at |-> py.at, got |-> py.got, item |-> py.item, on |-> py.on, of |-> py.of,
             held |-> py.held]
    /\ py.at \in Int /\ py.got \in Nat /\ py.on \in BOOLEAN /\ py.of \in Ranges

LoopEdits == [n : Nat, grew : BOOLEAN, shrank : BOOLEAN, rebound : BOOLEAN, bound : BOOLEAN,
              assigned : BOOLEAN, wrapped : BOOLEAN]

EditsTyping == edits \in LoopEdits

Typing == LoopTyping /\ CppTyping /\ PyTyping /\ EditsTyping

(* Where the counter stands against the iterator, in each form of the loop:  *)
(* the iterator moves with the heads, the counter at the end of the body.    *)
ListPosition ==
    loop \in {"list", "enumerate"} /\ Harmless =>
        /\ py.at \in 0 .. MaxLen
        /\ cpp.at = IF body THEN py.at - 1 ELSE py.at
        /\ loop = "enumerate" => py.got = py.at /\ py.of.start = rng.start

ReversedPosition ==
    loop = "reversed" /\ Harmless =>
        py.at \in -1 .. len - 1 /\ cpp.at = IF body THEN py.at + 1 ELSE py.at

EnumeratedReversedPosition ==
    loop = "enumerate_reversed" /\ Harmless =>
        /\ py.got \in 0 .. len /\ py.at = len - 1 - py.got /\ py.of.start = rng.start
        /\ cpp.at = IF body THEN py.got - 1 ELSE py.got

(* The iterator of a range has made as many steps as rounds were begun, each *)
(* from a place where the test held.                                         *)
RangePosition ==
    loop = "range" /\ Harmless =>
        /\ py.of.stop = rng.stop /\ py.of.step = rng.step /\ cpp.down = (py.of.step < 0)
        /\ py.got = cpp.got /\ py.at = py.of.start + py.got * py.of.step
        /\ cpp.at = IF body THEN py.at - py.of.step ELSE py.at
        /\ py.got > 0 => CppTest(py.at - py.of.step)
        /\ ~cpp.on => ~CppTest(py.at)

Together == Harmless => cpp.on = py.on /\ cpp.item = py.item

LoopInv ==
    /\ Typing /\ ListPosition /\ ReversedPosition /\ EnumeratedReversedPosition
    /\ RangePosition /\ Together

LEMMA LoopStart == LoopInit => LoopInv
<1> SUFFICES ASSUME LoopInit PROVE LoopInv
  OBVIOUS
<1> USE LoopAssumption DEF LoopInit, CppStart, PyStart, Forms, Enumerates
<1>0. rng \in Ranges
  BY DEF Ranges
<1>1. Typing
  <2>1. LoopTyping
    BY <1>0 DEF LoopTyping, Ranges
  <2>2. CppTyping
    BY <1>0 DEF CppTyping, Ranges, CppInts
  <2>3. PyTyping
    BY <1>0 DEF PyTyping, Ranges, CppInts
  <2>4. EditsTyping
    BY DEF EditsTyping, LoopEdits
  <2> QED  BY <2>1, <2>2, <2>3, <2>4 DEF Typing
<1>2. ListPosition /\ ReversedPosition /\ EnumeratedReversedPosition
  BY DEF ListPosition, ReversedPosition, EnumeratedReversedPosition
<1>3. RangePosition
  BY <1>0 DEF RangePosition, Ranges, CppInts
<1>4. Together
  BY DEF Together
<1> QED  BY <1>1, <1>2, <1>3, <1>4 DEF LoopInv

LEMMA EditsAreCounted ==
    ASSUME NEW e \in LoopEdits
    PROVE  /\ [e EXCEPT !.n = @ + 1, !.grew = TRUE] \in LoopEdits
           /\ [e EXCEPT !.n = @ + 1, !.shrank = TRUE] \in LoopEdits
           /\ [e EXCEPT !.n = @ + 1, !.rebound = TRUE] \in LoopEdits
           /\ [e EXCEPT !.n = @ + 1, !.assigned = TRUE] \in LoopEdits
           /\ \A b \in BOOLEAN : [e EXCEPT !.n = @ + 1, !.bound = b] \in LoopEdits
           /\ \A w \in BOOLEAN : [e EXCEPT !.wrapped = w] \in LoopEdits
<1>1. e.n + 1 \in Nat
  BY DEF LoopEdits
<1>2. \A n \in Nat, b \in BOOLEAN :
          /\ [e EXCEPT !.n = n, !.grew = b] \in LoopEdits
          /\ [e EXCEPT !.n = n, !.shrank = b] \in LoopEdits
          /\ [e EXCEPT !.n = n, !.rebound = b] \in LoopEdits
  BY Zenon DEF LoopEdits
<1>3. \A n \in Nat, b \in BOOLEAN :
          /\ [e EXCEPT !.n = n, !.assigned = b] \in LoopEdits
          /\ [e EXCEPT !.n = n, !.bound = b] \in LoopEdits
  BY Zenon DEF LoopEdits
<1>4. \A w \in BOOLEAN : [e EXCEPT !.wrapped = w] \in LoopEdits
  BY Zenon DEF LoopEdits
<1> QED  BY <1>1, <1>2, <1>3, <1>4

LEMMA StepsKeepTypes == LoopInv /\ [LoopNext]_loopVars => Typing'
<1> SUFFICES ASSUME LoopInv, [LoopNext]_loopVars PROVE Typing'
  OBVIOUS
<1> USE LoopAssumption DEF LoopInv, Typing
<1>1. CppNext(cpp.at) \in Int /\ Wrapped(CppNext(cpp.at)) \in Int
  <2>1. CppNext(cpp.at) \in Int
    BY DEF CppNext, CppTyping, LoopTyping, CppInts
  <2> QED  BY <2>1, WrappedIsInt
<1>2. PyNext(py) \in Int
  BY DEF PyNext, PyTyping, Ranges, CppInts
<1> USE DEF MayEdit
<1>3. CASE Heads
  <2>2. CppTyping'
    <3>1. CASE CppTest(cpp.at)
      <4>1. cpp' = [at |-> cpp.at, got |-> cpp.got + 1,
                    item |-> CppItem(cpp.at), on |-> cpp.on, down |-> cpp.down]
        BY <1>3, <3>1 DEF Heads, CppTyping
      <4> QED  BY <1>1, <4>1 DEF CppTyping
    <3>2. CASE ~CppTest(cpp.at)
      <4>1. cpp' = [at |-> cpp.at, got |-> cpp.got, item |-> <<>>, on |-> FALSE,
                    down |-> cpp.down]
        BY <1>3, <3>2 DEF Heads, CppTyping
      <4> QED  BY <4>1 DEF CppTyping
    <3> QED  BY <3>1, <3>2
  <2>1. LoopTyping'
    <3>1. body' \in BOOLEAN /\ (body' => cpp'.on)
      BY <1>3, Zenon DEF Heads
    <3> QED  BY <1>3, <3>1 DEF Heads, LoopTyping
  <2>3. PyTyping'
    <3>1. CASE PyHas(py)
      <4>1. py' = [at |-> PyNext(py), got |-> py.got + 1, item |-> PyItem(py),
                   on |-> py.on, of |-> py.of, held |-> py.held]
        BY <1>3, <3>1 DEF Heads, PyTyping
      <4> QED  BY <1>2, <4>1 DEF PyTyping
    <3>2. CASE ~PyHas(py)
      <4>1. py' = [at |-> py.at, got |-> py.got, item |-> <<>>, on |-> FALSE,
                   of |-> py.of, held |-> py.held]
        BY <1>3, <3>2 DEF Heads, PyTyping
      <4> QED  BY <4>1 DEF PyTyping
    <3> QED  BY <3>1, <3>2
  <2>4. EditsTyping'
    <3>1. PICK w \in BOOLEAN : edits' = [edits EXCEPT !.wrapped = w]
      BY <1>3, Zenon DEF Heads
    <3> QED  BY <3>1, EditsAreCounted DEF EditsTyping
  <2> QED  BY <2>1, <2>2, <2>3, <2>4
<1>4. CASE Grow \/ Shrink \/ UNCHANGED loopVars
  <2> USE DEF Grow, Shrink, loopVars
  <2>1. CppTyping' /\ PyTyping' /\ LoopTyping'
    BY <1>4 DEF CppTyping, PyTyping, LoopTyping
  <2>2. EditsTyping'
    BY <1>4, EditsAreCounted DEF EditsTyping
  <2> QED  BY <2>1, <2>2
<1>5. CASE Rebind
  <2>1. py' = [at |-> py.at, got |-> py.got, item |-> py.item, on |-> py.on, of |-> py.of,
               held |-> Held]
    BY <1>5 DEF Rebind, PyTyping
  <2>2. CppTyping' /\ PyTyping' /\ LoopTyping'
    BY <1>5, <2>1 DEF Rebind, CppTyping, PyTyping, LoopTyping
  <2>3. EditsTyping'
    BY <1>5, EditsAreCounted DEF Rebind, EditsTyping
  <2> QED  BY <2>2, <2>3
<1>6. CASE SetBound
  <2>1. CppTyping' /\ PyTyping'
    BY <1>6 DEF SetBound, CppTyping, PyTyping
  <2>2. LoopTyping'
    BY <1>6 DEF SetBound, LoopTyping
  <2>3. PICK b \in BOOLEAN : edits' = [edits EXCEPT !.n = @ + 1, !.bound = b]
    <3>1. edits.bound \in BOOLEAN
      BY DEF EditsTyping, LoopEdits
    <3>2. \A field : (edits.bound \/ loop # "range" \/ field # "start") \in BOOLEAN
      BY <3>1, Zenon
    <3> QED  BY <1>6, <3>2, Zenon DEF SetBound
  <2> QED  BY <2>1, <2>2, <2>3, EditsAreCounted DEF EditsTyping
<1>7. CASE AssignTarget
  <2>1. PICK v \in Bounds : cpp' = [cpp EXCEPT !.at = v]
    BY <1>7 DEF AssignTarget
  <2>2. cpp' = [at |-> v, got |-> cpp.got, item |-> cpp.item, on |-> cpp.on,
                down |-> cpp.down]
    BY <2>1 DEF CppTyping
  <2>3. v \in Int
    BY DEF CppInts
  <2>4. CppTyping' /\ PyTyping' /\ LoopTyping'
    BY <1>7, <2>2, <2>3 DEF AssignTarget, CppTyping, PyTyping, LoopTyping
  <2>5. EditsTyping'
    BY <1>7, EditsAreCounted DEF AssignTarget, EditsTyping
  <2> QED  BY <2>4, <2>5
<1>8. CASE EndBody
  <2>1. cpp' = [at |-> Wrapped(CppNext(cpp.at)), got |-> cpp.got, item |-> cpp.item,
                on |-> cpp.on, down |-> cpp.down]
    BY <1>8 DEF EndBody, CppTyping
  <2>2. CppTyping' /\ PyTyping' /\ LoopTyping'
    BY <1>1, <1>8, <2>1 DEF EndBody, CppTyping, PyTyping, LoopTyping
  <2>3. PICK w \in BOOLEAN : edits' = [edits EXCEPT !.wrapped = w]
    BY <1>8, Zenon DEF EndBody
  <2> QED  BY <2>2, <2>3, EditsAreCounted DEF EditsTyping
<1> QED  BY <1>3, <1>4, <1>5, <1>6, <1>7, <1>8 DEF LoopNext

(* What an edit leaves is harmless only if what it found was.                *)
LEMMA EditsKeepPositions ==
    ASSUME LoopInv,
           Grow \/ Shrink \/ Rebind \/ SetBound \/ AssignTarget \/ UNCHANGED loopVars
    PROVE  /\ ListPosition' /\ ReversedPosition' /\ EnumeratedReversedPosition'
           /\ RangePosition' /\ Together'
<1> USE DEF LoopInv, Typing, LoopTyping, EditsTyping, LoopEdits, MayEdit, Harmless, ListPosition,
            ReversedPosition, EnumeratedReversedPosition, RangePosition, Together, CppTest
<1>1. CASE Grow
  BY <1>1 DEF Grow
<1>2. CASE Shrink
  BY <1>2 DEF Shrink
<1>3. CASE SetBound
  <2>1. PICK field \in {"start", "stop", "step"}, v \in Bounds :
            /\ loop = "range" \/ (loop \in Enumerates /\ field = "start")
            /\ rng' = [rng EXCEPT ![field] = v]
            /\ edits' = [edits EXCEPT !.n = @ + 1,
                                      !.bound = @ \/ loop # "range" \/ field # "start"]
    BY <1>3 DEF SetBound
  <2>2. CASE loop # "range" \/ field # "start"
    <3>1. edits'.bound = TRUE
      BY <2>1, <2>2
    <3> QED  BY <3>1
  <2>3. CASE loop = "range" /\ field = "start"
    <3>1. rng'.stop = rng.stop /\ rng'.step = rng.step
      BY <2>1, <2>3
    <3>2. /\ edits'.rebound = edits.rebound /\ edits'.bound = edits.bound
          /\ edits'.assigned = edits.assigned /\ edits'.wrapped = edits.wrapped
      BY <2>1, <2>3
    <3> QED  BY <1>3, <2>3, <3>1, <3>2 DEF SetBound
  <2> QED  BY <2>2, <2>3
<1>4. CASE Rebind
  <2>1. edits'.rebound = TRUE
    BY <1>4 DEF Rebind
  <2> QED  BY <2>1
<1>5. CASE AssignTarget
  <2>1. edits'.assigned = TRUE
    BY <1>5 DEF AssignTarget
  <2> QED  BY <2>1
<1>6. CASE UNCHANGED loopVars
  BY <1>6 DEF loopVars
<1> QED  BY <1>1, <1>2, <1>3, <1>4, <1>5, <1>6

(* The end of the body: the counter catches up with the iterator.            *)
LEMMA EndKeepsPositions ==
    ASSUME LoopInv, EndBody
    PROVE  /\ ListPosition' /\ ReversedPosition' /\ EnumeratedReversedPosition'
           /\ RangePosition' /\ Together'
<1> SUFFICES ASSUME Harmless'
             PROVE  /\ ListPosition' /\ ReversedPosition' /\ EnumeratedReversedPosition'
                    /\ RangePosition' /\ Together'
  BY DEF ListPosition, ReversedPosition, EnumeratedReversedPosition, RangePosition, Together
<1> USE LoopAssumption DEF LoopInv, Typing
<1>1. /\ edits' = [edits EXCEPT !.wrapped = @ \/ CppNext(cpp.at) \notin CppInts]
      /\ body /\ cpp.on /\ body' = FALSE
      /\ cpp' = [cpp EXCEPT !.at = Wrapped(CppNext(@))]
      /\ loop' = loop /\ len' = len /\ rng' = rng /\ py' = py
  BY DEF EndBody, LoopTyping
<1>2. edits'.wrapped = (edits.wrapped \/ CppNext(cpp.at) \notin CppInts)
  BY <1>1 DEF EditsTyping, LoopEdits
<1>3. ~edits.wrapped /\ CppNext(cpp.at) \in CppInts
  BY <1>2, Zenon DEF Harmless
<1>4. Harmless
  BY <1>1, <1>3 DEF Harmless, EditsTyping, LoopEdits
<1>5. /\ cpp'.at = CppNext(cpp.at) /\ cpp'.got = cpp.got /\ cpp'.item = cpp.item
      /\ cpp'.on = cpp.on /\ cpp'.down = cpp.down
  BY <1>1, <1>3, FittingStays DEF CppTyping
<1>6. ListPosition' /\ ReversedPosition' /\ EnumeratedReversedPosition'
  BY <1>1, <1>4, <1>5 DEF ListPosition, ReversedPosition, EnumeratedReversedPosition, CppNext,
     PyTyping, LoopTyping
<1>7. RangePosition'
  BY <1>1, <1>4, <1>5 DEF RangePosition, CppNext, CppTest, PyTyping, LoopTyping, Ranges, CppInts
<1>8. Together'
  BY <1>1, <1>4, <1>5 DEF Together
<1> QED  BY <1>6, <1>7, <1>8

(* Where both heads deliver an item, or both leave, what they deliver is the *)
(* same and what they count follows the operators of the two loops.          *)
LEMMA HeadsMove ==
    ASSUME LoopInv, Heads, CppTest(cpp.at) <=> PyHas(py), Harmless'
    PROVE  /\ CppTest(cpp.at) =>
                /\ cpp'.got = cpp.got + 1 /\ cpp'.item = CppItem(cpp.at) /\ cpp'.on = TRUE
                /\ py'.at = PyNext(py) /\ py'.got = py.got + 1
                /\ py'.item = PyItem(py) /\ py'.on = TRUE /\ body' = TRUE
                /\ loop \in Enumerates => rng.start + cpp.at \in CppInts
           /\ ~CppTest(cpp.at) =>
                /\ cpp'.got = cpp.got /\ py'.at = py.at /\ py'.got = py.got
                /\ cpp'.item = py'.item /\ cpp'.on = FALSE /\ py'.on = FALSE /\ body' = FALSE
           /\ cpp'.at = cpp.at /\ cpp'.down = cpp.down /\ py'.of = py.of
           /\ loop' = loop /\ len' = len /\ rng' = rng
           /\ Harmless /\ body = FALSE /\ cpp.on
<1> USE LoopAssumption DEF LoopInv, Typing, CppTyping, PyTyping
<1>1. /\ cpp'.at = cpp.at /\ cpp'.down = cpp.down /\ py'.of = py.of
      /\ loop' = loop /\ len' = len /\ rng' = rng /\ body = FALSE /\ cpp.on
  BY DEF Heads, LoopTyping
<1>2. edits'.wrapped =
          (edits.wrapped \/ (loop \in Enumerates /\ body' /\ rng.start + cpp.at \notin CppInts))
  BY DEF Heads, EditsTyping, LoopEdits
<1>3. ~edits.wrapped /\ ~(loop \in Enumerates /\ body' /\ rng.start + cpp.at \notin CppInts)
  BY <1>2, Zenon DEF Harmless
<1>4. Harmless
  BY <1>1, <1>3 DEF Harmless, Heads, EditsTyping, LoopEdits
<1>5. CASE CppTest(cpp.at)
  <2>1. /\ cpp' = [cpp EXCEPT !.item = CppItem(cpp.at), !.got = @ + 1]
        /\ py' = [py EXCEPT !.item = PyItem(py), !.got = @ + 1, !.at = PyNext(py)]
        /\ cpp.on = TRUE /\ py.on = TRUE
    BY <1>5 DEF Heads
  <2>2. cpp'.on = TRUE /\ py'.on = TRUE
    BY <2>1
  <2>3. body' = TRUE
    BY <2>2, Zenon DEF Heads
  <2>4. loop \in Enumerates => rng.start + cpp.at \in CppInts
    BY <1>3, <2>3, Zenon
  <2>5. cpp'.got = cpp.got + 1 /\ cpp'.item = CppItem(cpp.at)
    BY <2>1
  <2>6. py'.at = PyNext(py) /\ py'.got = py.got + 1 /\ py'.item = PyItem(py)
    BY <2>1
  <2> QED  BY <1>1, <1>4, <1>5, <2>2, <2>3, <2>4, <2>5, <2>6
<1>6. CASE ~CppTest(cpp.at)
  <2>1. /\ cpp' = [cpp EXCEPT !.on = FALSE, !.item = <<>>]
        /\ py' = [py EXCEPT !.on = FALSE, !.item = <<>>]
    BY <1>6 DEF Heads
  <2>2. cpp'.on = FALSE
    BY <2>1
  <2>3. body' = FALSE
    BY <2>2, Zenon DEF Heads
  <2> QED  BY <1>1, <1>4, <1>6, <2>1, <2>3
<1> QED  BY <1>5, <1>6

LEMMA ListHeads ==
    ASSUME LoopInv, Heads, loop \in {"list", "enumerate"}, Harmless', Harmless
    PROVE  ListPosition' /\ Together'
<1> USE LoopAssumption DEF LoopInv, ListPosition
<1>1. /\ cpp.at \in 0 .. MaxLen /\ py.at = cpp.at /\ len \in 0 .. MaxLen /\ Held = len
      /\ loop = "enumerate" => py.got = cpp.at /\ py.of.start = rng.start
  BY DEF Typing, LoopTyping, Heads, Held, Harmless
<1>2. CppTest(cpp.at) <=> PyHas(py)
  BY <1>1 DEF CppTest, PyHas
<1>3. CASE CppTest(cpp.at)
  <2>1. PyNext(py) = cpp.at + 1 /\ PyNext(py) \in 0 .. MaxLen
    BY <1>1, <1>3 DEF PyNext, CppTest
  <2>2. Item(cpp.at) = cpp.at
    BY <1>1, <1>3 DEF Item, CppTest
  <2>3. loop = "enumerate" => Wrapped(rng.start + cpp.at) = py.of.start + py.got
    <3>1. loop = "enumerate" => rng.start + cpp.at \in CppInts
      BY <1>2, <1>3, HeadsMove DEF Enumerates
    <3> QED  BY <1>1, <3>1, FittingStays
  <2>4. CppItem(cpp.at) = PyItem(py)
    BY <1>1, <2>2, <2>3 DEF CppItem, PyItem, Enumerates
  <2>5. /\ cpp'.at = cpp.at /\ cpp'.on = TRUE /\ py'.on = TRUE /\ body' = TRUE
        /\ py'.at = PyNext(py) /\ py'.got = py.got + 1 /\ cpp'.item = py'.item
        /\ loop' = loop /\ len' = len /\ rng' = rng /\ py'.of = py.of
    BY <1>2, <1>3, <2>4, HeadsMove
  <2>6. Together'
    BY <2>5 DEF Together
  <2>7. ListPosition'
    BY <1>1, <2>1, <2>5
  <2> QED  BY <2>6, <2>7
<1>4. CASE ~CppTest(cpp.at)
  BY <1>1, <1>2, <1>4, HeadsMove DEF Together
<1> QED  BY <1>3, <1>4

LEMMA ReversedHeads ==
    ASSUME LoopInv, Heads, loop = "reversed", Harmless', Harmless
    PROVE  ReversedPosition' /\ Together'
<1> USE LoopAssumption DEF LoopInv, ReversedPosition
<1>1. cpp.at \in -1 .. len - 1 /\ py.at = cpp.at /\ len \in 0 .. MaxLen /\ Held = len
  BY DEF Typing, LoopTyping, Heads, Held, Harmless
<1>2. CppTest(cpp.at) <=> PyHas(py)
  BY <1>1 DEF CppTest, PyHas
<1>3. CASE CppTest(cpp.at)
  <2>1. PyNext(py) = cpp.at - 1 /\ PyNext(py) \in -1 .. len - 1
    BY <1>1, <1>3 DEF PyNext, CppTest
  <2>2. Item(cpp.at) = cpp.at
    BY <1>1, <1>3 DEF Item, CppTest
  <2>3. CppItem(cpp.at) = PyItem(py)
    BY <1>1, <2>2 DEF CppItem, PyItem, Enumerates
  <2>5. /\ cpp'.at = cpp.at /\ cpp'.on = TRUE /\ py'.on = TRUE /\ body' = TRUE
        /\ py'.at = PyNext(py) /\ py'.got = py.got + 1 /\ cpp'.item = py'.item
        /\ loop' = loop /\ len' = len /\ rng' = rng /\ py'.of = py.of
    BY <1>2, <1>3, <2>3, HeadsMove
  <2>6. Together'
    BY <2>5 DEF Together
  <2>7. ReversedPosition'
    BY <1>1, <2>1, <2>5
  <2> QED  BY <2>6, <2>7
<1>4. CASE ~CppTest(cpp.at)
  BY <1>1, <1>2, <1>4, HeadsMove DEF Together
<1> QED  BY <1>3, <1>4

LEMMA EnumeratedReversedHeads ==
    ASSUME LoopInv, Heads, loop = "enumerate_reversed", Harmless', Harmless
    PROVE  EnumeratedReversedPosition' /\ Together'
<1> USE LoopAssumption DEF LoopInv, EnumeratedReversedPosition
<1>1. /\ cpp.at \in 0 .. len /\ py.at = len - 1 - cpp.at /\ py.got = cpp.at
      /\ len \in 0 .. MaxLen /\ Held = len /\ py.of.start = rng.start
  BY DEF Typing, LoopTyping, Heads, Held, Harmless
<1>2. CppTest(cpp.at) <=> PyHas(py)
  BY <1>1 DEF CppTest, PyHas
<1>3. CASE CppTest(cpp.at)
  <2>1. PyNext(py) = len - 1 - (cpp.at + 1) /\ cpp.at + 1 \in 0 .. len
    BY <1>1, <1>3 DEF PyNext, CppTest
  <2>2. Item(len - 1 - cpp.at) = py.at
    BY <1>1, <1>3 DEF Item, CppTest
  <2>3. Wrapped(rng.start + cpp.at) = py.of.start + py.got
    <3>1. rng.start + cpp.at \in CppInts
      BY <1>2, <1>3, HeadsMove DEF Enumerates
    <3> QED  BY <1>1, <3>1, FittingStays
  <2>4. CppItem(cpp.at) = PyItem(py)
    BY <1>1, <2>2, <2>3 DEF CppItem, PyItem, Enumerates
  <2>5. /\ cpp'.at = cpp.at /\ cpp'.on = TRUE /\ py'.on = TRUE /\ body' = TRUE
        /\ py'.at = PyNext(py) /\ py'.got = py.got + 1 /\ cpp'.item = py'.item
        /\ loop' = loop /\ len' = len /\ rng' = rng /\ py'.of = py.of
    BY <1>2, <1>3, <2>4, HeadsMove
  <2>6. Together'
    BY <2>5 DEF Together
  <2>7. EnumeratedReversedPosition'
    BY <1>1, <2>1, <2>5
  <2> QED  BY <2>6, <2>7
<1>4. CASE ~CppTest(cpp.at)
  BY <1>1, <1>2, <1>4, HeadsMove DEF Together
<1> QED  BY <1>3, <1>4

LEMMA RangeHeads ==
    ASSUME LoopInv, Heads, loop = "range", Harmless', Harmless
    PROVE  RangePosition' /\ Together'
<1> USE LoopAssumption DEF LoopInv
<1>1. /\ py.of.stop = rng.stop /\ py.of.step = rng.step /\ cpp.down = (py.of.step < 0)
      /\ cpp.at = py.at /\ cpp.got = py.got /\ cpp.on
      /\ py.at = py.of.start + py.got * py.of.step
      /\ cpp.at \in Int /\ py.got \in Nat
      /\ py.of.start \in Int /\ py.of.stop \in Int /\ py.of.step \in Int
  BY DEF RangePosition, Typing, CppTyping, PyTyping, LoopTyping, Ranges, CppInts, Heads
<1>2. CppTest(cpp.at) <=> PyHas(py)
  BY <1>1 DEF CppTest, PyHas
<1>3. CASE CppTest(cpp.at)
  <2>1. PyNext(py) = cpp.at + py.of.step
    BY <1>1 DEF PyNext
  <2>2. CppItem(cpp.at) = PyItem(py)
    BY <1>1 DEF CppItem, PyItem, Enumerates
  <2>3. PyNext(py) = py.of.start + (py.got + 1) * py.of.step
    <3>1. (py.got + 1) * py.of.step = py.got * py.of.step + py.of.step
      BY <1>1
    <3>2. py.got * py.of.step \in Int
      BY <1>1
    <3> QED  BY <1>1, <2>1, <3>1, <3>2
  <2>4. PyNext(py) - py.of.step = cpp.at
    BY <1>1, <2>1
  <2> QED
    BY <1>1, <1>2, <1>3, <2>2, <2>3, <2>4, HeadsMove DEF Together, RangePosition, CppTest
<1>4. CASE ~CppTest(cpp.at)
  BY <1>1, <1>2, <1>4, HeadsMove DEF Together, RangePosition, CppTest
<1> QED  BY <1>3, <1>4

LEMMA HeadsKeepPositions ==
    ASSUME LoopInv, Heads
    PROVE  /\ ListPosition' /\ ReversedPosition' /\ EnumeratedReversedPosition'
           /\ RangePosition' /\ Together'
<1> USE DEF LoopInv, ListPosition, ReversedPosition, EnumeratedReversedPosition, RangePosition
<1>1. loop' = loop /\ loop \in Forms
  BY DEF Heads, Typing, LoopTyping
<1>2. CASE ~Harmless'
  BY <1>2 DEF Together
<1>3. CASE Harmless'
  <2>1. Harmless
    <3>1. edits.wrapped => edits'.wrapped
      BY DEF Heads, Typing, EditsTyping, LoopEdits
    <3> QED  BY <1>1, <1>3, <3>1 DEF Harmless, Heads, Typing, EditsTyping, LoopEdits
  <2>2. CASE loop \in {"list", "enumerate"}
    BY <1>1, <1>3, <2>1, <2>2, ListHeads
  <2>3. CASE loop = "reversed"
    BY <1>1, <1>3, <2>1, <2>3, ReversedHeads
  <2>4. CASE loop = "enumerate_reversed"
    BY <1>1, <1>3, <2>1, <2>4, EnumeratedReversedHeads
  <2>5. CASE loop = "range"
    BY <1>1, <1>3, <2>1, <2>5, RangeHeads
  <2> QED  BY <1>1, <2>2, <2>3, <2>4, <2>5 DEF Forms, Enumerates
<1> QED  BY <1>2, <1>3

LEMMA LoopStep == LoopInv /\ [LoopNext]_loopVars => LoopInv'
<1> SUFFICES ASSUME LoopInv, [LoopNext]_loopVars PROVE LoopInv'
  OBVIOUS
<1>1. Typing'
  BY StepsKeepTypes
<1>2. CASE Heads
  BY <1>1, <1>2, HeadsKeepPositions DEF LoopInv
<1>3. CASE Grow \/ Shrink \/ Rebind \/ SetBound \/ AssignTarget \/ UNCHANGED loopVars
  BY <1>1, <1>3, EditsKeepPositions DEF LoopInv
<1>4. CASE EndBody
  BY <1>1, <1>4, EndKeepsPositions DEF LoopInv
<1> QED  BY <1>2, <1>3, <1>4 DEF LoopNext

(* For lists of any length, any bounds and any int: a counting loop delivers *)
(* what the Python iterator delivers and ends when it ends, whatever changes *)
(* the body makes short of those that Harmless names, and the len of a range *)
(* is the number of its rounds (_emit_index_for_loop, emit_range_len_expr).  *)
THEOREM LoopsFollowTheIterator == LoopSpec => []CountingLoopsFollowTheIterator
<1>1. LoopInv => CountingLoopsFollowTheIterator
  <2> SUFFICES ASSUME LoopInv, Harmless, loop = "range", ~cpp.on
               PROVE  cpp.got = RangeLen(py.of)
    BY DEF LoopInv, Together, CountingLoopsFollowTheIterator
  <2>1. /\ py.of.start \in Int /\ py.of.stop \in Int /\ py.of.step \in Int \ {0}
        /\ py.got \in Nat /\ py.at \in Int
    BY LoopAssumption DEF LoopInv, Typing, PyTyping, Ranges, CppInts
  <2>2. /\ py.at = py.of.start + py.got * py.of.step /\ cpp.down = (py.of.step < 0)
        /\ py.got > 0 => CppTest(py.at - py.of.step)
        /\ ~CppTest(py.at) /\ py.of.stop = rng.stop /\ cpp.got = py.got
    BY DEF LoopInv, RangePosition
  <2>3. IF py.of.step < 0
        THEN py.at <= py.of.stop /\ (py.got > 0 => py.at - py.of.step > py.of.stop)
        ELSE py.at >= py.of.stop /\ (py.got > 0 => py.at - py.of.step < py.of.stop)
    <3>1. \A i \in Int : CppTest(i) <=> IF py.of.step < 0 THEN i > py.of.stop ELSE i < py.of.stop
      BY <2>2 DEF CppTest
    <3>2. py.at - py.of.step \in Int
      BY <2>1
    <3> QED  BY <2>1, <2>2, <3>1, <3>2
  <2> QED  BY <2>1, <2>2, <2>3, LengthIsRounds
<1> QED  BY <1>1, LoopStart, LoopStep, PTL DEF LoopSpec

(***************************************************************************)
(* The moved-use check                                                     *)
(***************************************************************************)

(* A set of numbers up to N with 0 in it, and with the successors of its     *)
(* members, has them all.                                                    *)
LEMMA Induction ==
    ASSUME NEW N \in Nat, NEW A, 0 \in A, \A n \in 1 .. N : n - 1 \in A => n \in A
    PROVE  \A n \in 0 .. N : n \in A
<1> DEFINE T == {n \in 0 .. N : n \notin A}
<1>1. SUFFICES ASSUME T # {} PROVE FALSE
  OBVIOUS
<1>2. PICK n \in T : \A y \in T : n <= y
  <2>1. T \in SUBSET Nat
    OBVIOUS
  <2> HIDE DEF T
  <2> QED  BY <1>1, <2>1, Least
<1>3. n \in 1 .. N /\ n - 1 \in 0 .. N /\ n - 1 \notin T
  BY <1>2
<1> QED  BY <1>2, <1>3

(* A recursive function over 0 .. N from a by G.                             *)
Unrolls(f, N, a, G) == f = [n \in 0 .. N |-> IF n = 0 THEN a ELSE G[n][f[n - 1]]]

(* A recursive function over 0 .. N, whose value at n is made by G[n] of the *)
(* one before and is in S[n], exists.                                        *)
LEMMA Recursion ==
    ASSUME NEW N \in Nat, NEW S, NEW a, NEW G, a \in S[0],
           \A n \in 1 .. N : \A x \in S[n - 1] : G[n][x] \in S[n]
    PROVE  \E f : Unrolls(f, N, a, G) /\ \A n \in 0 .. N : f[n] \in S[n]
<1> DEFINE Unfolds(f, m) == Unrolls(f, m, a, G) /\ \A n \in 0 .. m : f[n] \in S[n]
           A == {m \in 0 .. N : \E f : Unfolds(f, m)}
<1>1. 0 \in A
  <2> DEFINE f == [n \in 0 .. 0 |-> a]
  <2>1. f[0] = a /\ 0 .. 0 = {0} /\ 0 \in 0 .. N
    OBVIOUS
  <2>2. Unrolls(f, 0, a, G)
    BY DEF Unrolls
  <2> HIDE DEF f
  <2> QED  BY <2>1, <2>2
<1>2. ASSUME NEW m \in 1 .. N, m - 1 \in A
      PROVE  m \in A
  <2>1. m - 1 \in 0 .. N /\ m \in 0 .. N /\ m # 0 /\ m \in Int
    BY <1>2
  <2> HIDE DEF Unfolds
  <2>2. PICK g : Unfolds(g, m - 1)
    BY <1>2
  <2> DEFINE f == [n \in 0 .. m |-> IF n = m THEN G[m][g[m - 1]] ELSE g[n]]
  <2>3. \A n \in 0 .. m :
          f[n] \in S[n] /\ f[n] = IF n = 0 THEN a ELSE G[n][f[n - 1]]
    <3> TAKE n \in 0 .. m
    <3>1. CASE n = m
      <4>1. f[n] = G[m][g[m - 1]] /\ f[n - 1] = g[m - 1] /\ m - 1 \in 0 .. m - 1
        BY <2>1, <3>1
      <4>2. g[m - 1] \in S[m - 1]
        BY <2>2, <4>1 DEF Unfolds, Unrolls
      <4> HIDE DEF f
      <4> QED  BY <2>1, <3>1, <4>1, <4>2
    <3>2. CASE n # m
      <4>1. n \in 0 .. m - 1 /\ (n # 0 => n - 1 \in 0 .. m - 1)
        BY <2>1, <3>2
      <4>2. g[n] \in S[n] /\ g[n] = IF n = 0 THEN a ELSE G[n][g[n - 1]]
        BY <2>2, <4>1 DEF Unfolds, Unrolls
      <4>3. f[n] = g[n] /\ (n # 0 => f[n - 1] = g[n - 1])
        BY <2>1, <3>2, <4>1
      <4> HIDE DEF f
      <4> QED  BY <4>2, <4>3
    <3> QED  BY <3>1, <3>2
  <2>4. Unfolds(f, m)
    <3>1. f = [n \in 0 .. m |-> f[n]]
      OBVIOUS
    <3> HIDE DEF f
    <3> QED  BY <2>3, <3>1 DEF Unfolds, Unrolls
  <2> QED  BY <2>1, <2>4
<1>3. N \in A
  <2>1. N \in 0 .. N
    OBVIOUS
  <2> HIDE DEF A
  <2> QED  BY <1>1, <1>2, <2>1, Induction
<1> HIDE DEF Unfolds
<1>4. \E f : Unfolds(f, N)
  BY <1>3
<1> QED  BY <1>4 DEF Unfolds

(* The states of a walk over a body, before and after each statement.        *)
CheckingFrom(ss, st, walk, F) ==
    /\ F \in [0 .. Len(ss) -> Checks]
    /\ F[0] = st
    /\ \A n \in 1 .. Len(ss) : F[n] = Check(ss[n], F[n - 1], walk)
    /\ CheckBody(ss, st, walk) = F[Len(ss)]

RunningFrom(ss, st, walk, F) ==
    /\ F \in [0 .. Len(ss) -> SUBSET Runs]
    /\ F[0] = {st}
    /\ \A n \in 1 .. Len(ss) : F[n] = UNION {Run(ss[n], next, walk) : next \in F[n - 1]}
    /\ RunBody(ss, st, walk) = F[Len(ss)]

(* CheckBody goes over the statements one by one,                            *)
LEMMA CheckBodyUnfolds ==
    ASSUME NEW ss, NEW st \in Checks, NEW walk, Len(ss) \in Nat,
           \A i \in 1 .. Len(ss), c \in Checks : Check(ss[i], c, walk) \in Checks
    PROVE  \E F : CheckingFrom(ss, st, walk, F)
<1> DEFINE N == Len(ss)
           O(n, v) == Check(ss[n], v, walk)
           Unfolds(f) == f = [n \in 0 .. N |-> IF n = 0 THEN st ELSE O(n, f[n - 1])]
<1>1. CheckBody(ss, st, walk) = (CHOOSE f : Unfolds(f))[N]
  BY DEF CheckBody
<1>2. /\ \A n \in 1 .. N : \A v \in Checks : O(n, v) \in Checks
      /\ st \in Checks /\ N \in Nat
  OBVIOUS
<1>3. \A n \in 1 .. N : n - 1 \in 0 .. N /\ n \in 0 .. N /\ n # 0 /\ 0 \in 0 .. N
  BY <1>2
<1> HIDE DEF O, N
<1>4. PICK f : Unfolds(f)
  <2> DEFINE S == [n \in 0 .. N |-> Checks]
             G == [n \in 1 .. N |-> [v \in Checks |-> O(n, v)]]
  <2>1. \A n \in 0 .. N : S[n] = Checks
    OBVIOUS
  <2>2. \A n \in 1 .. N : \A v \in Checks : G[n][v] = O(n, v)
    OBVIOUS
  <2>3. 0 \in 0 .. N
    BY <1>2
  <2> HIDE DEF S, G
  <2>4. PICK f : /\ Unrolls(f, N, st, G)
                 /\ \A n \in 0 .. N : f[n] \in S[n]
    <3>1. \A n \in 1 .. N : \A v \in S[n - 1] : G[n][v] \in S[n]
      BY <1>2, <1>3, <2>1, <2>2
    <3>2. st \in S[0]
      BY <1>2, <2>1, <2>3
    <3> QED  BY <1>2, <3>1, <3>2, Recursion
  <2>5. \A n \in 0 .. N : n # 0 => n \in 1 .. N /\ G[n][f[n - 1]] = O(n, f[n - 1])
    BY <1>2, <1>3, <2>1, <2>2, <2>4
  <2>6. f = [n \in 0 .. N |-> IF n = 0 THEN st ELSE O(n, f[n - 1])]
    BY <2>4, <2>5 DEF Unrolls
  <2> QED  BY <2>6
<1> DEFINE F == CHOOSE u : Unfolds(u)
<1>5. Unfolds(F)
  <2> HIDE DEF Unfolds
  <2> QED  BY <1>4
<1> HIDE DEF F
<1>6. F[0] = st /\ \A n \in 1 .. N : F[n] = O(n, F[n - 1])
  <2>1. F[0] = st
    BY <1>2, <1>5
  <2>2. ASSUME NEW n \in 1 .. N PROVE F[n] = O(n, F[n - 1])
    BY <1>3, <1>5
  <2> QED  BY <2>1, <2>2
<1>7. \A n \in 0 .. N : F[n] \in Checks
  <2> DEFINE A == {n \in 0 .. N : F[n] \in Checks}
  <2>1. 0 \in A /\ \A n \in 1 .. N : n - 1 \in A => n \in A
    BY <1>2, <1>3, <1>6
  <2>2. \A n \in 0 .. N : n \in A
    <3> HIDE DEF A
    <3> QED  BY <1>2, <2>1, Induction
  <2> QED  BY <2>2
<1>8. F \in [0 .. N -> Checks]
  BY <1>5, <1>7
<1> QED  BY <1>1, <1>6, <1>8 DEF F, N, O, CheckingFrom

(* ... RunBody does,                                                          *)
LEMMA RunBodyUnfolds ==
    ASSUME NEW ss, NEW st \in Runs, NEW walk, Len(ss) \in Nat,
           \A i \in 1 .. Len(ss), r \in Runs : Run(ss[i], r, walk) \in SUBSET Runs
    PROVE  \E F : RunningFrom(ss, st, walk, F)
<1> DEFINE N == Len(ss)
           O(n, v) == UNION {Run(ss[n], next, walk) : next \in v}
           Unfolds(f) == f = [n \in 0 .. N |-> IF n = 0 THEN {st} ELSE O(n, f[n - 1])]
<1>1. RunBody(ss, st, walk) = (CHOOSE f : Unfolds(f))[N]
  BY DEF RunBody
<1>2. /\ \A n \in 1 .. N : \A v \in SUBSET Runs : O(n, v) \in SUBSET Runs
      /\ {st} \in SUBSET Runs /\ N \in Nat
  OBVIOUS
<1>3. \A n \in 1 .. N : n - 1 \in 0 .. N /\ n \in 0 .. N /\ n # 0 /\ 0 \in 0 .. N
  BY <1>2
<1> HIDE DEF O, N
<1>4. PICK f : Unfolds(f)
  <2> DEFINE S == [n \in 0 .. N |-> SUBSET Runs]
             G == [n \in 1 .. N |-> [v \in SUBSET Runs |-> O(n, v)]]
  <2>1. \A n \in 0 .. N : S[n] = SUBSET Runs
    OBVIOUS
  <2>2. \A n \in 1 .. N : \A v \in SUBSET Runs : G[n][v] = O(n, v)
    OBVIOUS
  <2>3. 0 \in 0 .. N
    BY <1>2
  <2> HIDE DEF S, G
  <2>4. PICK f : /\ Unrolls(f, N, {st}, G)
                 /\ \A n \in 0 .. N : f[n] \in S[n]
    <3>1. \A n \in 1 .. N : \A v \in S[n - 1] : G[n][v] \in S[n]
      BY <1>2, <1>3, <2>1, <2>2
    <3>2. {st} \in S[0]
      BY <1>2, <2>1, <2>3
    <3> QED  BY <1>2, <3>1, <3>2, Recursion
  <2>5. \A n \in 0 .. N : n # 0 => n \in 1 .. N /\ G[n][f[n - 1]] = O(n, f[n - 1])
    BY <1>2, <1>3, <2>1, <2>2, <2>4
  <2>6. f = [n \in 0 .. N |-> IF n = 0 THEN {st} ELSE O(n, f[n - 1])]
    BY <2>4, <2>5 DEF Unrolls
  <2> QED  BY <2>6
<1> DEFINE F == CHOOSE u : Unfolds(u)
<1>5. Unfolds(F)
  <2> HIDE DEF Unfolds
  <2> QED  BY <1>4
<1> HIDE DEF F
<1>6. F[0] = {st} /\ \A n \in 1 .. N : F[n] = O(n, F[n - 1])
  <2>1. F[0] = {st}
    BY <1>2, <1>5
  <2>2. ASSUME NEW n \in 1 .. N PROVE F[n] = O(n, F[n - 1])
    BY <1>3, <1>5
  <2> QED  BY <2>1, <2>2
<1>7. \A n \in 0 .. N : F[n] \in SUBSET Runs
  <2> DEFINE A == {n \in 0 .. N : F[n] \in SUBSET Runs}
  <2>1. 0 \in A /\ \A n \in 1 .. N : n - 1 \in A => n \in A
    BY <1>2, <1>3, <1>6
  <2>2. \A n \in 0 .. N : n \in A
    <3> HIDE DEF A
    <3> QED  BY <1>2, <2>1, Induction
  <2> QED  BY <2>2
<1>8. F \in [0 .. N -> SUBSET Runs]
  BY <1>5, <1>7
<1> QED  BY <1>1, <1>6, <1>8 DEF F, N, O, RunningFrom

(* The states in which the test of a loop has been evaluated again, after a  *)
(* round that began in one of the states.                                    *)
Tested(s, walk, states) ==
    {Read(s.reads, next) : next \in {end \in From(states, s.body, walk) : ~end.done}}

(* What the rounds T, the states after each evaluation of the test, end in.  *)
LoopEnds(s, walk, T) ==
    (UNION {From(T[n], s.orelse, walk) : n \in 0 .. MaxRounds})
    \union {end \in UNION {From(T[n], s.body, walk) : n \in 0 .. MaxRounds - 1} : end.done}

(* ... and Rounds goes from test to test.                                     *)
LEMMA RoundsUnfold ==
    ASSUME NEW s, NEW st, NEW walk, Read(s.reads, st) \in Runs,
           \A X \in SUBSET Runs : Tested(s, walk, X) \in SUBSET Runs
    PROVE  \E F \in [0 .. MaxRounds -> SUBSET Runs] :
             /\ F[0] = {Read(s.reads, st)}
             /\ \A n \in 1 .. MaxRounds : F[n] = Tested(s, walk, F[n - 1])
             /\ Rounds(s, st, walk) = LoopEnds(s, walk, F)
<1> DEFINE N == MaxRounds
           O(n, v) == Tested(s, walk, v)
           Unfolds(f) == f = [n \in 0 .. N |-> IF n = 0 THEN {Read(s.reads, st)} ELSE O(n, f[n - 1])]
<1>1. Rounds(s, st, walk) = LoopEnds(s, walk, CHOOSE f : Unfolds(f))
  BY DEF Rounds, LoopEnds, Tested
<1>2. /\ \A n \in 1 .. N : \A v \in SUBSET Runs : O(n, v) \in SUBSET Runs
      /\ {Read(s.reads, st)} \in SUBSET Runs /\ N \in Nat
  BY MovedAssumption
<1>3. \A n \in 1 .. N : n - 1 \in 0 .. N /\ n \in 0 .. N /\ n # 0 /\ 0 \in 0 .. N
  BY <1>2
<1> HIDE DEF O, N
<1>4. PICK f : Unfolds(f)
  <2> DEFINE S == [n \in 0 .. N |-> SUBSET Runs]
             G == [n \in 1 .. N |-> [v \in SUBSET Runs |-> O(n, v)]]
  <2>1. \A n \in 0 .. N : S[n] = SUBSET Runs
    OBVIOUS
  <2>2. \A n \in 1 .. N : \A v \in SUBSET Runs : G[n][v] = O(n, v)
    OBVIOUS
  <2>3. 0 \in 0 .. N
    BY <1>2
  <2> HIDE DEF S, G
  <2>4. PICK f : /\ Unrolls(f, N, {Read(s.reads, st)}, G)
                 /\ \A n \in 0 .. N : f[n] \in S[n]
    <3>1. \A n \in 1 .. N : \A v \in S[n - 1] : G[n][v] \in S[n]
      BY <1>2, <1>3, <2>1, <2>2
    <3>2. {Read(s.reads, st)} \in S[0]
      BY <1>2, <2>1, <2>3
    <3> QED  BY <1>2, <3>1, <3>2, Recursion
  <2>5. \A n \in 0 .. N : n # 0 => n \in 1 .. N /\ G[n][f[n - 1]] = O(n, f[n - 1])
    BY <1>2, <1>3, <2>1, <2>2, <2>4
  <2>6. f = [n \in 0 .. N |-> IF n = 0 THEN {Read(s.reads, st)} ELSE O(n, f[n - 1])]
    BY <2>4, <2>5 DEF Unrolls
  <2> QED  BY <2>6
<1> DEFINE F == CHOOSE u : Unfolds(u)
<1>5. Unfolds(F)
  <2> HIDE DEF Unfolds
  <2> QED  BY <1>4
<1> HIDE DEF F
<1>6. F[0] = {Read(s.reads, st)} /\ \A n \in 1 .. N : F[n] = O(n, F[n - 1])
  <2>1. F[0] = {Read(s.reads, st)}
    BY <1>2, <1>5
  <2>2. ASSUME NEW n \in 1 .. N PROVE F[n] = O(n, F[n - 1])
    BY <1>3, <1>5
  <2> QED  BY <2>1, <2>2
<1>7. \A n \in 0 .. N : F[n] \in SUBSET Runs
  <2> DEFINE A == {n \in 0 .. N : F[n] \in SUBSET Runs}
  <2>1. 0 \in A /\ \A n \in 1 .. N : n - 1 \in A => n \in A
    BY <1>2, <1>3, <1>6
  <2>2. \A n \in 0 .. N : n \in A
    <3> HIDE DEF A
    <3> QED  BY <1>2, <2>1, Induction
  <2> QED  BY <2>2
<1>8. F \in [0 .. N -> SUBSET Runs]
  BY <1>5, <1>7
<1> QED  BY <1>1, <1>6, <1>8 DEF F, N, O

(* The bodies, level by level.                                               *)
LEMMA BodyUnfolds ==
    /\ Body[0] = {<<>>}
    /\ \A n \in 1 .. MaxDepth : Body[n] = Seq(Statement(Body[n - 1]))
<1> DEFINE N == MaxDepth
           O(n, v) == IF n = 0 THEN {<<>>} ELSE Seq(Statement(v))
           Unfolds(f, m) == f = [n \in 0 .. m |-> O(n, f[n - 1])]
<1>1. Body = CHOOSE f : Unfolds(f, N)
  BY DEF Body
<1>2. N \in Nat
  BY MovedAssumption
<1>3. \A u, v : O(0, u) = O(0, v)
  OBVIOUS
<1> HIDE DEF O, N
<1>4. \A m \in 0 .. N : \E f : Unfolds(f, m)
  <2> DEFINE A == {m \in 0 .. N : \E f : Unfolds(f, m)}
  <2> HIDE DEF Unfolds
  <2>1. 0 \in A
    <3>1. Unfolds([n \in 0 .. 0 |-> O(0, 0)], 0)
      BY <1>3 DEF Unfolds
    <3> QED  BY <1>2, <3>1
  <2>2. ASSUME NEW m \in 1 .. N, m - 1 \in A
        PROVE  m \in A
    <3>1. m - 1 \in 0 .. N /\ m \in 0 .. N /\ m # 0 /\ m \in Int
      BY <1>2, <2>2
    <3>2. PICK g : Unfolds(g, m - 1)
      BY <2>2
    <3> DEFINE f == [n \in 0 .. m |-> IF n = m THEN O(m, g[m - 1]) ELSE g[n]]
    <3>3. ASSUME NEW n \in 0 .. m
          PROVE  f[n] = O(n, f[n - 1])
      <4>1. CASE n = m
        <5>1. f[n] = O(m, g[m - 1]) /\ f[n - 1] = g[m - 1]
          BY <3>1, <4>1
        <5> QED  BY <4>1, <5>1
      <4>2. CASE n # m
        <5>1. n \in 0 .. m - 1 /\ (n # 0 => n - 1 \in 0 .. m - 1)
          BY <3>1, <4>2
        <5>2. g[n] = O(n, g[n - 1])
          BY <3>2, <5>1 DEF Unfolds
        <5>3. f[n] = g[n] /\ (n # 0 => f[n - 1] = g[n - 1])
          BY <3>1, <4>2, <5>1
        <5> HIDE DEF f
        <5> QED  BY <1>3, <5>2, <5>3
      <4> QED  BY <4>1, <4>2
    <3>4. Unfolds(f, m)
      <4>1. f = [n \in 0 .. m |-> f[n]]
        OBVIOUS
      <4> HIDE DEF f
      <4> QED  BY <3>3, <4>1 DEF Unfolds
    <3> QED  BY <3>1, <3>4
  <2>3. \A m \in 0 .. N : m \in A
    <3> HIDE DEF A
    <3> QED  BY <1>2, <2>1, <2>2, Induction
  <2> QED  BY <2>3
<1> DEFINE F == CHOOSE f : Unfolds(f, N)
<1>5. Unfolds(F, N)
  <2>1. N \in 0 .. N
    BY <1>2
  <2> HIDE DEF Unfolds
  <2> QED  BY <1>4, <2>1
<1> HIDE DEF F
<1>6. \A n \in 0 .. N : F[n] = O(n, F[n - 1])
  BY <1>5
<1>7. Body = F
  BY <1>1 DEF F
<1>8. 0 \in 0 .. N /\ \A n \in 1 .. N : n \in 0 .. N /\ n # 0
  BY <1>2
<1>9. Body[0] = {<<>>}
  BY <1>6, <1>7, <1>8 DEF O
<1>10. ASSUME NEW n \in 1 .. N PROVE Body[n] = Seq(Statement(Body[n - 1]))
  BY <1>6, <1>7, <1>8 DEF O
<1> QED  BY <1>9, <1>10 DEF N

(* The visitor,                                                              *)
LEMMA CheckSeqUnfolds ==
    /\ CheckSeq[0] = [ss \in Body[0] |-> [st \in Checks |-> st]]
    /\ \A n \in 1 .. MaxDepth : CheckSeq[n] = [ss \in Body[n] |-> [st \in Checks |-> CheckBody(ss, st, CheckSeq[n - 1])]]
<1> DEFINE N == MaxDepth
           O(n, v) == [ss \in Body[n] |-> [st \in Checks |-> IF n = 0 THEN st ELSE CheckBody(ss, st, v)]]
           Unfolds(f, m) == f = [n \in 0 .. m |-> O(n, f[n - 1])]
<1>1. CheckSeq = CHOOSE f : Unfolds(f, N)
  BY DEF CheckSeq
<1>2. N \in Nat
  BY MovedAssumption
<1>3. \A u, v : O(0, u) = O(0, v)
  OBVIOUS
<1> HIDE DEF O, N
<1>4. \A m \in 0 .. N : \E f : Unfolds(f, m)
  <2> DEFINE A == {m \in 0 .. N : \E f : Unfolds(f, m)}
  <2> HIDE DEF Unfolds
  <2>1. 0 \in A
    <3>1. Unfolds([n \in 0 .. 0 |-> O(0, 0)], 0)
      BY <1>3 DEF Unfolds
    <3> QED  BY <1>2, <3>1
  <2>2. ASSUME NEW m \in 1 .. N, m - 1 \in A
        PROVE  m \in A
    <3>1. m - 1 \in 0 .. N /\ m \in 0 .. N /\ m # 0 /\ m \in Int
      BY <1>2, <2>2
    <3>2. PICK g : Unfolds(g, m - 1)
      BY <2>2
    <3> DEFINE f == [n \in 0 .. m |-> IF n = m THEN O(m, g[m - 1]) ELSE g[n]]
    <3>3. ASSUME NEW n \in 0 .. m
          PROVE  f[n] = O(n, f[n - 1])
      <4>1. CASE n = m
        <5>1. f[n] = O(m, g[m - 1]) /\ f[n - 1] = g[m - 1]
          BY <3>1, <4>1
        <5> QED  BY <4>1, <5>1
      <4>2. CASE n # m
        <5>1. n \in 0 .. m - 1 /\ (n # 0 => n - 1 \in 0 .. m - 1)
          BY <3>1, <4>2
        <5>2. g[n] = O(n, g[n - 1])
          BY <3>2, <5>1 DEF Unfolds
        <5>3. f[n] = g[n] /\ (n # 0 => f[n - 1] = g[n - 1])
          BY <3>1, <4>2, <5>1
        <5> HIDE DEF f
        <5> QED  BY <1>3, <5>2, <5>3
      <4> QED  BY <4>1, <4>2
    <3>4. Unfolds(f, m)
      <4>1. f = [n \in 0 .. m |-> f[n]]
        OBVIOUS
      <4> HIDE DEF f
      <4> QED  BY <3>3, <4>1 DEF Unfolds
    <3> QED  BY <3>1, <3>4
  <2>3. \A m \in 0 .. N : m \in A
    <3> HIDE DEF A
    <3> QED  BY <1>2, <2>1, <2>2, Induction
  <2> QED  BY <2>3
<1> DEFINE F == CHOOSE f : Unfolds(f, N)
<1>5. Unfolds(F, N)
  <2>1. N \in 0 .. N
    BY <1>2
  <2> HIDE DEF Unfolds
  <2> QED  BY <1>4, <2>1
<1> HIDE DEF F
<1>6. \A n \in 0 .. N : F[n] = O(n, F[n - 1])
  BY <1>5
<1>7. CheckSeq = F
  BY <1>1 DEF F
<1>8. 0 \in 0 .. N /\ \A n \in 1 .. N : n \in 0 .. N /\ n # 0
  BY <1>2
<1>9. CheckSeq[0] = [ss \in Body[0] |-> [st \in Checks |-> st]]
  BY <1>6, <1>7, <1>8 DEF O
<1>10. ASSUME NEW n \in 1 .. N PROVE CheckSeq[n] = [ss \in Body[n] |-> [st \in Checks |-> CheckBody(ss, st, CheckSeq[n - 1])]]
  BY <1>6, <1>7, <1>8 DEF O
<1> QED  BY <1>9, <1>10 DEF N

(* ... the runs,                                                             *)
LEMMA RunSeqUnfolds ==
    /\ RunSeq[0] = [ss \in Body[0] |-> [st \in Runs |-> {st}]]
    /\ \A n \in 1 .. MaxDepth : RunSeq[n] = [ss \in Body[n] |-> [st \in Runs |-> RunBody(ss, st, RunSeq[n - 1])]]
<1> DEFINE N == MaxDepth
           O(n, v) == [ss \in Body[n] |-> [st \in Runs |-> IF n = 0 THEN {st} ELSE RunBody(ss, st, v)]]
           Unfolds(f, m) == f = [n \in 0 .. m |-> O(n, f[n - 1])]
<1>1. RunSeq = CHOOSE f : Unfolds(f, N)
  BY DEF RunSeq
<1>2. N \in Nat
  BY MovedAssumption
<1>3. \A u, v : O(0, u) = O(0, v)
  OBVIOUS
<1> HIDE DEF O, N
<1>4. \A m \in 0 .. N : \E f : Unfolds(f, m)
  <2> DEFINE A == {m \in 0 .. N : \E f : Unfolds(f, m)}
  <2> HIDE DEF Unfolds
  <2>1. 0 \in A
    <3>1. Unfolds([n \in 0 .. 0 |-> O(0, 0)], 0)
      BY <1>3 DEF Unfolds
    <3> QED  BY <1>2, <3>1
  <2>2. ASSUME NEW m \in 1 .. N, m - 1 \in A
        PROVE  m \in A
    <3>1. m - 1 \in 0 .. N /\ m \in 0 .. N /\ m # 0 /\ m \in Int
      BY <1>2, <2>2
    <3>2. PICK g : Unfolds(g, m - 1)
      BY <2>2
    <3> DEFINE f == [n \in 0 .. m |-> IF n = m THEN O(m, g[m - 1]) ELSE g[n]]
    <3>3. ASSUME NEW n \in 0 .. m
          PROVE  f[n] = O(n, f[n - 1])
      <4>1. CASE n = m
        <5>1. f[n] = O(m, g[m - 1]) /\ f[n - 1] = g[m - 1]
          BY <3>1, <4>1
        <5> QED  BY <4>1, <5>1
      <4>2. CASE n # m
        <5>1. n \in 0 .. m - 1 /\ (n # 0 => n - 1 \in 0 .. m - 1)
          BY <3>1, <4>2
        <5>2. g[n] = O(n, g[n - 1])
          BY <3>2, <5>1 DEF Unfolds
        <5>3. f[n] = g[n] /\ (n # 0 => f[n - 1] = g[n - 1])
          BY <3>1, <4>2, <5>1
        <5> HIDE DEF f
        <5> QED  BY <1>3, <5>2, <5>3
      <4> QED  BY <4>1, <4>2
    <3>4. Unfolds(f, m)
      <4>1. f = [n \in 0 .. m |-> f[n]]
        OBVIOUS
      <4> HIDE DEF f
      <4> QED  BY <3>3, <4>1 DEF Unfolds
    <3> QED  BY <3>1, <3>4
  <2>3. \A m \in 0 .. N : m \in A
    <3> HIDE DEF A
    <3> QED  BY <1>2, <2>1, <2>2, Induction
  <2> QED  BY <2>3
<1> DEFINE F == CHOOSE f : Unfolds(f, N)
<1>5. Unfolds(F, N)
  <2>1. N \in 0 .. N
    BY <1>2
  <2> HIDE DEF Unfolds
  <2> QED  BY <1>4, <2>1
<1> HIDE DEF F
<1>6. \A n \in 0 .. N : F[n] = O(n, F[n - 1])
  BY <1>5
<1>7. RunSeq = F
  BY <1>1 DEF F
<1>8. 0 \in 0 .. N /\ \A n \in 1 .. N : n \in 0 .. N /\ n # 0
  BY <1>2
<1>9. RunSeq[0] = [ss \in Body[0] |-> [st \in Runs |-> {st}]]
  BY <1>6, <1>7, <1>8 DEF O
<1>10. ASSUME NEW n \in 1 .. N PROVE RunSeq[n] = [ss \in Body[n] |-> [st \in Runs |-> RunBody(ss, st, RunSeq[n - 1])]]
  BY <1>6, <1>7, <1>8 DEF O
<1> QED  BY <1>9, <1>10 DEF N

(* ... and the parts of a body.                                              *)
LEMMA PartsUnfolds ==
    /\ Parts[0] = [ss \in Body[0] |-> {}]
    /\ \A n \in 1 .. MaxDepth : Parts[n] = [ss \in Body[n] |-> UNION {PartsOf(ss[i], Parts[n - 1]) : i \in DOMAIN ss}]
<1> DEFINE N == MaxDepth
           O(n, v) == [ss \in Body[n] |-> IF n = 0 THEN {} ELSE UNION {PartsOf(ss[i], v) : i \in DOMAIN ss}]
           Unfolds(f, m) == f = [n \in 0 .. m |-> O(n, f[n - 1])]
<1>1. Parts = CHOOSE f : Unfolds(f, N)
  BY DEF Parts
<1>2. N \in Nat
  BY MovedAssumption
<1>3. \A u, v : O(0, u) = O(0, v)
  OBVIOUS
<1> HIDE DEF O, N
<1>4. \A m \in 0 .. N : \E f : Unfolds(f, m)
  <2> DEFINE A == {m \in 0 .. N : \E f : Unfolds(f, m)}
  <2> HIDE DEF Unfolds
  <2>1. 0 \in A
    <3>1. Unfolds([n \in 0 .. 0 |-> O(0, 0)], 0)
      BY <1>3 DEF Unfolds
    <3> QED  BY <1>2, <3>1
  <2>2. ASSUME NEW m \in 1 .. N, m - 1 \in A
        PROVE  m \in A
    <3>1. m - 1 \in 0 .. N /\ m \in 0 .. N /\ m # 0 /\ m \in Int
      BY <1>2, <2>2
    <3>2. PICK g : Unfolds(g, m - 1)
      BY <2>2
    <3> DEFINE f == [n \in 0 .. m |-> IF n = m THEN O(m, g[m - 1]) ELSE g[n]]
    <3>3. ASSUME NEW n \in 0 .. m
          PROVE  f[n] = O(n, f[n - 1])
      <4>1. CASE n = m
        <5>1. f[n] = O(m, g[m - 1]) /\ f[n - 1] = g[m - 1]
          BY <3>1, <4>1
        <5> QED  BY <4>1, <5>1
      <4>2. CASE n # m
        <5>1. n \in 0 .. m - 1 /\ (n # 0 => n - 1 \in 0 .. m - 1)
          BY <3>1, <4>2
        <5>2. g[n] = O(n, g[n - 1])
          BY <3>2, <5>1 DEF Unfolds
        <5>3. f[n] = g[n] /\ (n # 0 => f[n - 1] = g[n - 1])
          BY <3>1, <4>2, <5>1
        <5> HIDE DEF f
        <5> QED  BY <1>3, <5>2, <5>3
      <4> QED  BY <4>1, <4>2
    <3>4. Unfolds(f, m)
      <4>1. f = [n \in 0 .. m |-> f[n]]
        OBVIOUS
      <4> HIDE DEF f
      <4> QED  BY <3>3, <4>1 DEF Unfolds
    <3> QED  BY <3>1, <3>4
  <2>3. \A m \in 0 .. N : m \in A
    <3> HIDE DEF A
    <3> QED  BY <1>2, <2>1, <2>2, Induction
  <2> QED  BY <2>3
<1> DEFINE F == CHOOSE f : Unfolds(f, N)
<1>5. Unfolds(F, N)
  <2>1. N \in 0 .. N
    BY <1>2
  <2> HIDE DEF Unfolds
  <2> QED  BY <1>4, <2>1
<1> HIDE DEF F
<1>6. \A n \in 0 .. N : F[n] = O(n, F[n - 1])
  BY <1>5
<1>7. Parts = F
  BY <1>1 DEF F
<1>8. 0 \in 0 .. N /\ \A n \in 1 .. N : n \in 0 .. N /\ n # 0
  BY <1>2
<1>9. Parts[0] = [ss \in Body[0] |-> {}]
  BY <1>6, <1>7, <1>8 DEF O
<1>10. ASSUME NEW n \in 1 .. N PROVE Parts[n] = [ss \in Body[n] |-> UNION {PartsOf(ss[i], Parts[n - 1]) : i \in DOMAIN ss}]
  BY <1>6, <1>7, <1>8 DEF O
<1> QED  BY <1>9, <1>10 DEF N

(* Nothing inside moves or assigns.                                          *)
Still(parts) == \A p \in parts : p.s.k \notin {"move", "assign"}

(* All that the check holds for moved is moved in some of the runs.          *)
Covers(c, X) == \A v \in c.moved : \E r \in X : v \in r.moved

Ends(g, X) == UNION {g[r] : r \in X}

(* What f makes of the check is right for a run that g lets go on: when it   *)
(* is not refused, nothing moved was used, and it knows of all that is moved. *)
Safe(c, r) == ~r.used /\ (r.done \/ r.moved \subseteq c.moved)

SoundWalk(f, g) ==
    \A c \in Checks, r \in Runs :
        Safe(c, r) /\ ~f[c].refused => \A x \in g[r] : Safe(f[c], x)

(* When it is refused, there is a run that uses what was moved.              *)
Live(c, X) == X # {} /\ (\A r \in X : ~r.done) /\ Covers(c, X)

CompleteWalk(f, g) ==
    \A c \in Checks, X \in SUBSET Runs :
        ~c.refused /\ Live(c, X) =>
            IF f[c].refused THEN \E x \in Ends(g, X) : x.used ELSE Covers(f[c], Ends(g, X))

(* A statement or a body, by what the visitor makes of it, its runs and its  *)
(* parts.                                                                    *)
GoodWalk(f, g, parts) ==
    /\ f \in [Checks -> Checks]
    /\ g \in [Runs -> SUBSET Runs]
    /\ \A p \in parts : p = [s |-> p.s, looped |-> p.looped]
    /\ \A c \in Checks : c.refused => f[c].refused
    /\ \A r \in Runs : g[r] # {} /\ (r.used => \A x \in g[r] : x.used)
    /\ \A r \in Runs : r.done => g[r] = {r}
    /\ Still(parts) => /\ \A c \in Checks : f[c].moved = c.moved
                       /\ \A r \in Runs : \A x \in g[r] : x.moved = r.moved
    /\ NoMore(parts) => \A r \in Runs : ~r.done => \A x \in g[r] : ~x.done
    /\ Seen(parts) => SoundWalk(f, g)
    /\ Seen(parts) /\ NoMore(parts) => CompleteWalk(f, g)

AllGood(B, C, R, P) == \A s \in B : GoodWalk(C[s], R[s], P[s])

(* The fields of the kinds of statements.                                    *)
LEMMA Fields ==
    ASSUME NEW B, NEW s \in Statement(B)
    PROVE  /\ s.k \in {"use", "moved", "move", "assign", "augment", "if", "loop", "return"}
           /\ s.k \in {"use", "moved"} => s.v \in Var
           /\ s.k \in {"move", "assign", "augment"} => s.t \in Var
           /\ s.k = "move" => s.r \in Var /\ s.ann \in BOOLEAN
           /\ s.k \in {"assign", "if", "loop", "return"} => s.reads \in SUBSET Var
           /\ s.k = "if" => s.then \in B /\ s.orelse \in B
           /\ s.k = "loop" => s.body \in B /\ s.orelse \in B
BY DEF Statement

LEMMA CheckLoadIs ==
    ASSUME NEW reads, NEW c \in Checks
    PROVE  /\ CheckLoad(reads, c) \in Checks
           /\ CheckLoad(reads, c).moved = c.moved
           /\ CheckLoad(reads, c).refused <=> (c.refused \/ reads \cap c.moved # {})
BY DEF CheckLoad, Checks

LEMMA ReadIs ==
    ASSUME NEW reads, NEW r \in Runs
    PROVE  /\ Read(reads, r) \in Runs
           /\ Read(reads, r).moved = r.moved
           /\ Read(reads, r).used <=> (r.used \/ reads \cap r.moved # {})
           /\ Read(reads, r).done = r.done
BY DEF Read, Runs

LEMMA ReadRecord ==
    ASSUME NEW reads, NEW r \in Runs
    PROVE  Read(reads, r) = [moved |-> r.moved, used |-> r.used \/ reads \cap r.moved # {},
                             done |-> r.done]
<1>1. r = [moved |-> r.moved, used |-> r.used, done |-> r.done] /\ r.used \in BOOLEAN
  BY DEF Runs
<1>2. CASE reads \cap r.moved = {}
  <2>1. (r.used \/ reads \cap r.moved # {}) = r.used
    BY <1>1, <1>2
  <2> QED  BY <1>1, <1>2, <2>1 DEF Read
<1>3. CASE reads \cap r.moved # {}
  <2>1. (r.used \/ reads \cap r.moved # {}) = TRUE
    BY <1>1, <1>3
  <2> QED  BY <1>1, <1>3, <2>1 DEF Read, Runs
<1> QED  BY <1>2, <1>3

(* A test that is not refused uses nothing that was moved, and one that is   *)
(* does in one of the runs.                                                  *)
LEMMA TestIsSound ==
    ASSUME NEW reads, NEW c \in Checks, NEW r \in Runs, Safe(c, r), ~r.done,
           ~CheckLoad(reads, c).refused
    PROVE  Safe(CheckLoad(reads, c), Read(reads, r))
<1>1. reads \cap c.moved = {} /\ r.moved \subseteq c.moved /\ ~r.used
  BY CheckLoadIs DEF Safe
<1>2. reads \cap r.moved = {}
  BY <1>1
<1>3. ~Read(reads, r).used /\ Read(reads, r).moved \subseteq CheckLoad(reads, c).moved
  <2>1. Read(reads, r).moved = r.moved /\ ~Read(reads, r).used
    BY <1>1, <1>2, ReadIs
  <2>2. CheckLoad(reads, c).moved = c.moved
    BY CheckLoadIs
  <2> QED  BY <1>1, <2>1, <2>2
<1> QED  BY <1>3 DEF Safe

LEMMA TestIsComplete ==
    ASSUME NEW reads, NEW c \in Checks, NEW X \in SUBSET Runs, Live(c, X), ~c.refused
    PROVE  /\ CheckLoad(reads, c).refused => \E r \in X : Read(reads, r).used
           /\ Live(CheckLoad(reads, c), {Read(reads, r) : r \in X})
           /\ {Read(reads, r) : r \in X} \in SUBSET Runs
<1>1. ASSUME CheckLoad(reads, c).refused
      PROVE  \E r \in X : Read(reads, r).used
  <2>1. reads \cap c.moved # {}
    BY <1>1, CheckLoadIs
  <2>2. PICK v : v \in reads /\ v \in c.moved
    BY <2>1
  <2>3. PICK r \in X : v \in r.moved
    BY <2>2 DEF Live, Covers
  <2>4. r \in Runs /\ reads \cap r.moved # {}
    BY <2>2, <2>3
  <2> QED  BY <2>4, ReadIs
<1>2. \A r \in X : /\ Read(reads, r).moved = r.moved
                   /\ Read(reads, r).done = r.done
                   /\ Read(reads, r) \in Runs
  BY ReadIs
<1>3. CheckLoad(reads, c).moved = c.moved
  BY CheckLoadIs
<1> QED  BY <1>1, <1>2, <1>3 DEF Live, Covers

(* A statement without a body: the check refuses what was moved of loads,    *)
(* the run reads reads; either then takes out taken and puts in in.          *)
AfterCheck(c, loads, taken, in) ==
    IF c.refused THEN c
    ELSE [moved |-> (c.moved \ taken) \union in, refused |-> loads \cap c.moved # {}]

AfterRun(r, reads, taken, in, returns) ==
    IF r.done THEN r
    ELSE [moved |-> (r.moved \union in) \ taken,
          used |-> r.used \/ reads \cap r.moved # {},
          done |-> returns]

Checked(loads, taken, in) == [c \in Checks |-> AfterCheck(c, loads, taken, in)]
Ran(reads, taken, in, returns) == [r \in Runs |-> {AfterRun(r, reads, taken, in, returns)}]

(* What makes such a statement good.                                         *)
Matches(parts, loads, taken, in, reads, left, returns) ==
    /\ \A p \in parts : p = [s |-> p.s, looped |-> p.looped]
    /\ loads \in SUBSET Var /\ taken \in SUBSET Var /\ in \in SUBSET Var
    /\ reads \in SUBSET Var /\ left \in SUBSET Var /\ returns \in BOOLEAN
    /\ Still(parts) => taken = {} /\ in = {} /\ left = {}
    /\ NoMore(parts) => ~returns
    /\ Seen(parts) => loads = reads /\ taken \subseteq left
    /\ Seen(parts) /\ NoMore(parts) => taken = left /\ in \cap left = {}

LEMMA StraightIsGood ==
    ASSUME NEW parts, NEW loads, NEW taken, NEW in, NEW reads, NEW left, NEW returns,
           Matches(parts, loads, taken, in, reads, left, returns)
    PROVE  GoodWalk(Checked(loads, taken, in), Ran(reads, left, in, returns), parts)
<1> DEFINE f == [c \in Checks |-> AfterCheck(c, loads, taken, in)]
           h(r) == AfterRun(r, reads, left, in, returns)
           g == [r \in Runs |-> {h(r)}]
<1> USE DEF Matches
<1>1. \A c \in Checks :
        /\ f[c] \in Checks
        /\ c.refused => f[c] = c
        /\ ~c.refused => f[c].moved = (c.moved \ taken) \union in
        /\ ~c.refused => (f[c].refused <=> loads \cap c.moved # {})
  BY DEF AfterCheck, Checks
<1>2. \A r \in Runs : /\ h(r) \in Runs
                      /\ r.done => h(r) = r
                      /\ ~r.done => /\ h(r).moved = (r.moved \union in) \ left
                                    /\ h(r).used <=> r.used \/ reads \cap r.moved # {}
                                    /\ h(r).done = returns
  BY DEF AfterRun, Runs
<1>3. \A r \in Runs : g[r] = {h(r)}
  OBVIOUS
<1>4. f \in [Checks -> Checks] /\ g \in [Runs -> SUBSET Runs]
  <2>1. f = [c \in Checks |-> f[c]] /\ g = [r \in Runs |-> g[r]]
    OBVIOUS
  <2> HIDE DEF f, g, h
  <2> QED  BY <1>1, <1>2, <1>3, <2>1
<1> HIDE DEF f, g, h
<1>5. \A c \in Checks : c.refused => f[c].refused
  BY <1>1
<1>6. ASSUME NEW r \in Runs
      PROVE  g[r] # {} /\ (r.used => \A x \in g[r] : x.used)
  <2>1. r.used => h(r).used
    BY <1>2
  <2> QED  BY <1>3, <2>1
<1>7. ASSUME NEW r \in Runs, r.done
      PROVE  g[r] = {r}
  BY <1>2, <1>3, <1>7
<1>8. ASSUME Still(parts)
      PROVE  /\ \A c \in Checks : f[c].moved = c.moved
             /\ \A r \in Runs : \A x \in g[r] : x.moved = r.moved
  <2>1. ASSUME NEW c \in Checks PROVE f[c].moved = c.moved
    <3>1. (c.moved \ taken) \union in = c.moved
      BY <1>8
    <3> QED  BY <1>1, <3>1
  <2>2. ASSUME NEW r \in Runs PROVE h(r).moved = r.moved
    BY <1>2, <1>8
  <2> QED  BY <1>3, <2>1, <2>2
<1>9. ASSUME NoMore(parts), NEW r \in Runs, ~r.done
      PROVE  \A x \in g[r] : ~x.done
  <2>1. h(r).done = FALSE
    BY <1>2, <1>9
  <2> QED  BY <1>3, <2>1
<1>10. ASSUME Seen(parts), NEW c \in Checks, NEW r \in Runs, Safe(c, r), ~f[c].refused
       PROVE  Safe(f[c], h(r))
  <2>1. CASE r.done
    BY <1>2, <1>10, <2>1 DEF Safe
  <2>2. CASE ~r.done
    <3>1. ~c.refused /\ loads \cap c.moved = {} /\ f[c].moved = (c.moved \ taken) \union in
      BY <1>1, <1>10
    <3>2. ~r.used /\ r.moved \subseteq c.moved
      BY <1>10, <2>2 DEF Safe
    <3>3. reads \cap r.moved = {}
      BY <1>10, <3>1, <3>2
    <3>4. ~h(r).used /\ h(r).moved = (r.moved \union in) \ left
      BY <1>2, <2>2, <3>2, <3>3
    <3>5. h(r).moved \subseteq f[c].moved
      BY <1>10, <3>1, <3>2, <3>4
    <3> QED  BY <3>4, <3>5 DEF Safe
  <2> QED  BY <2>1, <2>2
<1>11. ASSUME Seen(parts), NoMore(parts), NEW c \in Checks, NEW X \in SUBSET Runs,
              ~c.refused, Live(c, X)
       PROVE  IF f[c].refused THEN \E x \in Ends(g, X) : x.used
              ELSE Covers(f[c], Ends(g, X))
  <2>1. \A r \in X : h(r) \in Ends(g, X) /\ ~r.done
    BY <1>3, <1>11 DEF Ends, Live
  <2>2. CASE f[c].refused
    <3>1. PICK v : v \in loads /\ v \in c.moved
      BY <1>1, <1>11, <2>2
    <3>2. PICK r \in X : v \in r.moved
      BY <1>11, <3>1 DEF Live, Covers
    <3>3. h(r).used
      <4>1. reads \cap r.moved # {}
        BY <1>11, <3>1, <3>2
      <4> QED  BY <1>2, <2>1, <4>1
    <3> QED  BY <2>1, <2>2, <3>3
  <2>3. CASE ~f[c].refused
    <3>1. ASSUME NEW v \in f[c].moved
          PROVE  \E x \in Ends(g, X) : v \in x.moved
      <4>1. v \in in \/ (v \in c.moved /\ v \notin left)
        BY <1>1, <1>11
      <4>2. PICK r \in X : v \in in \/ (v \in r.moved /\ v \notin left)
        BY <1>11, <4>1 DEF Live, Covers
      <4>3. v \in h(r).moved
        BY <1>2, <1>11, <2>1, <4>2
      <4> QED  BY <2>1, <4>3
    <3> QED  BY <2>3, <3>1 DEF Covers
  <2> QED  BY <2>2, <2>3
<1>12. Seen(parts) => SoundWalk(f, g)
  BY <1>3, <1>10 DEF SoundWalk
<1>13. Seen(parts) /\ NoMore(parts) => CompleteWalk(f, g)
  BY <1>11 DEF CompleteWalk
<1>14. GoodWalk(f, g, parts)
  BY <1>4, <1>5, <1>6, <1>7, <1>8, <1>9, <1>12, <1>13 DEF GoodWalk
<1> QED  BY <1>14 DEF f, g, h, Checked, Ran

(* One statement by itself.                                                  *)
CheckOf(s, C) == [c \in Checks |-> Check(s, c, C)]
RunOf(s, R) == [r \in Runs |-> Run(s, r, R)]

(* The statements without bodies.                                            *)
LEMMA SimpleIsGood ==
    ASSUME NEW B, NEW C, NEW R, NEW P, NEW s \in Statement(B), s.k \notin {"if", "loop"}
    PROVE  GoodWalk(CheckOf(s, C), RunOf(s, R), PartsOf(s, P))
<1> DEFINE parts == PartsOf(s, P)
<1>1. parts = {[s |-> s, looped |-> FALSE]}
  BY DEF PartsOf
<1>2. /\ Still(parts) => s.k \notin {"move", "assign"}
      /\ NoMore(parts) => s.k # "return" /\ (s.k = "move" => ~s.ann /\ s.t # s.r)
      /\ Seen(parts) => s.k # "augment" /\ (s.k = "assign" => s.t \notin s.reads)
  BY <1>1 DEF Still, NoMore, Seen
<1>0. \A p \in parts : p = [s |-> p.s, looped |-> p.looped]
  BY <1>1
<1> HIDE DEF parts
<1> DEFINE Taken == IF s.ann THEN {} ELSE {s.t}
<1>4. CASE s.k = "use"
  <2>1. s.v \in Var
    BY <1>4, Fields
  <2>2. ASSUME NEW c \in Checks
        PROVE  Check(s, c, C) = AfterCheck(c, {s.v}, {}, {})
    <3>1. Check(s, c, C) = IF c.refused THEN c ELSE CheckLoad({s.v}, c)
      BY <1>4 DEF Check
    <3> QED  BY <3>1 DEF AfterCheck, CheckMove, CheckLoad, Checks
  <2>3. ASSUME NEW r \in Runs
        PROVE  Run(s, r, R) = {AfterRun(r, {s.v}, {}, {}, FALSE)}
    <3>1. Run(s, r, R) = IF r.done THEN {r} ELSE {Read({s.v}, r)}
      BY <1>4 DEF Run
    <3>2. ~r.done => r.done = FALSE
      BY DEF Runs
    <3>3. CASE r.done
      BY <3>1, <3>3 DEF AfterRun
    <3>4. CASE ~r.done
      BY <3>1, <3>2, <3>4, ReadRecord DEF AfterRun
    <3> QED  BY <3>3, <3>4
  <2>4. /\ CheckOf(s, C) = Checked({s.v}, {}, {})
        /\ RunOf(s, R) = Ran({s.v}, {}, {}, FALSE)
    BY <2>2, <2>3 DEF CheckOf, RunOf, Checked, Ran
  <2>5. /\ {s.v} \in SUBSET Var /\ {} \in SUBSET Var /\ {} \in SUBSET Var
        /\ {s.v} \in SUBSET Var /\ {} \in SUBSET Var /\ FALSE \in BOOLEAN
    BY <2>1
  <2>6. /\ Still(parts) => {} = {} /\ {} = {} /\ {} = {}
        /\ NoMore(parts) => ~FALSE
        /\ Seen(parts) => {s.v} = {s.v} /\ {} \subseteq {}
        /\ Seen(parts) /\ NoMore(parts) => {} = {} /\ {} \cap {} = {}
    BY <1>2, <1>4
  <2>7. GoodWalk(Checked({s.v}, {}, {}), Ran({s.v}, {}, {}, FALSE), parts)
    <3>1. Matches(parts, {s.v}, {}, {}, {s.v}, {}, FALSE)
      BY <1>0, <2>5, <2>6 DEF Matches
    <3> QED  BY <3>1, StraightIsGood
  <2> QED  BY <2>4, <2>7 DEF parts
<1>5. CASE s.k = "moved"
  <2>1. TRUE
    BY <1>5, Fields
  <2>2. ASSUME NEW c \in Checks
        PROVE  Check(s, c, C) = AfterCheck(c, {}, {}, {})
    <3>1. Check(s, c, C) = IF c.refused THEN c ELSE c
      BY <1>5 DEF Check
    <3> QED  BY <3>1 DEF AfterCheck, CheckMove, CheckLoad, Checks
  <2>3. ASSUME NEW r \in Runs
        PROVE  Run(s, r, R) = {AfterRun(r, {}, {}, {}, FALSE)}
    <3>1. Run(s, r, R) = IF r.done THEN {r} ELSE {r}
      BY <1>5 DEF Run
    <3>2. ~r.done => r.done = FALSE
      BY DEF Runs
    <3>3. CASE r.done
      BY <3>1, <3>3 DEF AfterRun
    <3>4. CASE ~r.done
      <4>1. Read({}, r) = r
        BY DEF Read
      <4> QED  BY <3>1, <3>2, <3>4, <4>1, ReadRecord DEF AfterRun
    <3> QED  BY <3>3, <3>4
  <2>4. /\ CheckOf(s, C) = Checked({}, {}, {})
        /\ RunOf(s, R) = Ran({}, {}, {}, FALSE)
    BY <2>2, <2>3 DEF CheckOf, RunOf, Checked, Ran
  <2>5. /\ {} \in SUBSET Var /\ {} \in SUBSET Var /\ {} \in SUBSET Var
        /\ {} \in SUBSET Var /\ {} \in SUBSET Var /\ FALSE \in BOOLEAN
    BY <2>1
  <2>6. /\ Still(parts) => {} = {} /\ {} = {} /\ {} = {}
        /\ NoMore(parts) => ~FALSE
        /\ Seen(parts) => {} = {} /\ {} \subseteq {}
        /\ Seen(parts) /\ NoMore(parts) => {} = {} /\ {} \cap {} = {}
    BY <1>2, <1>5
  <2>7. GoodWalk(Checked({}, {}, {}), Ran({}, {}, {}, FALSE), parts)
    <3>1. Matches(parts, {}, {}, {}, {}, {}, FALSE)
      BY <1>0, <2>5, <2>6 DEF Matches
    <3> QED  BY <3>1, StraightIsGood
  <2> QED  BY <2>4, <2>7 DEF parts
<1>6. CASE s.k = "augment"
  <2>1. s.t \in Var
    BY <1>6, Fields
  <2>2. ASSUME NEW c \in Checks
        PROVE  Check(s, c, C) = AfterCheck(c, {}, {}, {})
    <3>1. Check(s, c, C) = IF c.refused THEN c ELSE c
      BY <1>6 DEF Check
    <3> QED  BY <3>1 DEF AfterCheck, CheckMove, CheckLoad, Checks
  <2>3. ASSUME NEW r \in Runs
        PROVE  Run(s, r, R) = {AfterRun(r, {s.t}, {}, {}, FALSE)}
    <3>1. Run(s, r, R) = IF r.done THEN {r} ELSE {Read({s.t}, r)}
      BY <1>6 DEF Run
    <3>2. ~r.done => r.done = FALSE
      BY DEF Runs
    <3>3. CASE r.done
      BY <3>1, <3>3 DEF AfterRun
    <3>4. CASE ~r.done
      BY <3>1, <3>2, <3>4, ReadRecord DEF AfterRun
    <3> QED  BY <3>3, <3>4
  <2>4. /\ CheckOf(s, C) = Checked({}, {}, {})
        /\ RunOf(s, R) = Ran({s.t}, {}, {}, FALSE)
    BY <2>2, <2>3 DEF CheckOf, RunOf, Checked, Ran
  <2>5. /\ {} \in SUBSET Var /\ {} \in SUBSET Var /\ {} \in SUBSET Var
        /\ {s.t} \in SUBSET Var /\ {} \in SUBSET Var /\ FALSE \in BOOLEAN
    BY <2>1
  <2>6. /\ Still(parts) => {} = {} /\ {} = {} /\ {} = {}
        /\ NoMore(parts) => ~FALSE
        /\ Seen(parts) => {} = {s.t} /\ {} \subseteq {}
        /\ Seen(parts) /\ NoMore(parts) => {} = {} /\ {} \cap {} = {}
    BY <1>2, <1>6
  <2>7. GoodWalk(Checked({}, {}, {}), Ran({s.t}, {}, {}, FALSE), parts)
    <3>1. Matches(parts, {}, {}, {}, {s.t}, {}, FALSE)
      BY <1>0, <2>5, <2>6 DEF Matches
    <3> QED  BY <3>1, StraightIsGood
  <2> QED  BY <2>4, <2>7 DEF parts
<1>7. CASE s.k = "return"
  <2>1. s.reads \in SUBSET Var
    BY <1>7, Fields
  <2>2. ASSUME NEW c \in Checks
        PROVE  Check(s, c, C) = AfterCheck(c, s.reads, {}, {})
    <3>1. Check(s, c, C) = IF c.refused THEN c ELSE CheckLoad(s.reads, c)
      BY <1>7 DEF Check
    <3> QED  BY <3>1 DEF AfterCheck, CheckMove, CheckLoad, Checks
  <2>3. ASSUME NEW r \in Runs
        PROVE  Run(s, r, R) = {AfterRun(r, s.reads, {}, {}, TRUE)}
    <3>1. Run(s, r, R) = IF r.done THEN {r} ELSE {[Read(s.reads, r) EXCEPT !.done = TRUE]}
      BY <1>7 DEF Run
    <3>2. ~r.done => r.done = FALSE
      BY DEF Runs
    <3>3. CASE r.done
      BY <3>1, <3>3 DEF AfterRun
    <3>4. CASE ~r.done
      BY <3>1, <3>2, <3>4, ReadRecord DEF AfterRun
    <3> QED  BY <3>3, <3>4
  <2>4. /\ CheckOf(s, C) = Checked(s.reads, {}, {})
        /\ RunOf(s, R) = Ran(s.reads, {}, {}, TRUE)
    BY <2>2, <2>3 DEF CheckOf, RunOf, Checked, Ran
  <2>5. /\ s.reads \in SUBSET Var /\ {} \in SUBSET Var /\ {} \in SUBSET Var
        /\ s.reads \in SUBSET Var /\ {} \in SUBSET Var /\ TRUE \in BOOLEAN
    BY <2>1
  <2>6. /\ Still(parts) => {} = {} /\ {} = {} /\ {} = {}
        /\ NoMore(parts) => ~TRUE
        /\ Seen(parts) => s.reads = s.reads /\ {} \subseteq {}
        /\ Seen(parts) /\ NoMore(parts) => {} = {} /\ {} \cap {} = {}
    BY <1>2, <1>7
  <2>7. GoodWalk(Checked(s.reads, {}, {}), Ran(s.reads, {}, {}, TRUE), parts)
    <3>1. Matches(parts, s.reads, {}, {}, s.reads, {}, TRUE)
      BY <1>0, <2>5, <2>6 DEF Matches
    <3> QED  BY <3>1, StraightIsGood
  <2> QED  BY <2>4, <2>7 DEF parts
<1>8. CASE s.k = "assign"
  <2>1. s.t \in Var /\ s.reads \in SUBSET Var
    BY <1>8, Fields
  <2>2. ASSUME NEW c \in Checks
        PROVE  Check(s, c, C) = AfterCheck(c, s.reads \ {s.t}, {s.t}, {})
    <3>1. Check(s, c, C) = IF c.refused THEN c ELSE CheckLoad(s.reads, [c EXCEPT !.moved = @ \ {s.t}])
      BY <1>8 DEF Check
    <3> QED  BY <3>1 DEF AfterCheck, CheckMove, CheckLoad, Checks
  <2>3. ASSUME NEW r \in Runs
        PROVE  Run(s, r, R) = {AfterRun(r, s.reads, {s.t}, {}, FALSE)}
    <3>1. Run(s, r, R) = IF r.done THEN {r} ELSE {[Read(s.reads, r) EXCEPT !.moved = @ \ {s.t}]}
      BY <1>8 DEF Run
    <3>2. ~r.done => r.done = FALSE
      BY DEF Runs
    <3>3. CASE r.done
      BY <3>1, <3>3 DEF AfterRun
    <3>4. CASE ~r.done
      <4> DEFINE q == Read(s.reads, r)
      <4>1. q \in Runs /\ q.moved = r.moved /\ q.done = FALSE
        BY <3>2, <3>4, ReadIs
      <4>2. q.used = (r.used \/ s.reads \cap r.moved # {})
        BY ReadRecord
      <4> HIDE DEF q
      <4>3. [q EXCEPT !.moved = @ \ {s.t}]
              = [moved |-> r.moved \ {s.t}, used |-> q.used, done |-> FALSE]
        <5> DEFINE N == q.moved \ {s.t}
        <5>1. N \in SUBSET Var
          BY <2>1, <4>1 DEF Runs
        <5> HIDE DEF N
        <5>2. [q EXCEPT !.moved = N] = [moved |-> N, used |-> q.used, done |-> q.done]
          BY <4>1, <5>1 DEF Runs
        <5> QED  BY <4>1, <5>2 DEF N
      <4>4. r.moved \ {s.t} = (r.moved \union {}) \ {s.t}
        OBVIOUS
      <4>5. [q EXCEPT !.moved = @ \ {s.t}] = AfterRun(r, s.reads, {s.t}, {}, FALSE)
        BY <3>4, <4>2, <4>3, <4>4 DEF AfterRun
      <4> QED  BY <3>1, <3>4, <4>5 DEF q
    <3> QED  BY <3>3, <3>4
  <2>4. /\ CheckOf(s, C) = Checked(s.reads \ {s.t}, {s.t}, {})
        /\ RunOf(s, R) = Ran(s.reads, {s.t}, {}, FALSE)
    BY <2>2, <2>3 DEF CheckOf, RunOf, Checked, Ran
  <2>5. /\ s.reads \ {s.t} \in SUBSET Var /\ {s.t} \in SUBSET Var /\ {} \in SUBSET Var
        /\ s.reads \in SUBSET Var /\ {s.t} \in SUBSET Var /\ FALSE \in BOOLEAN
    BY <2>1
  <2>6. /\ Still(parts) => {s.t} = {} /\ {} = {} /\ {s.t} = {}
        /\ NoMore(parts) => ~FALSE
        /\ Seen(parts) => s.reads \ {s.t} = s.reads /\ {s.t} \subseteq {s.t}
        /\ Seen(parts) /\ NoMore(parts) => {s.t} = {s.t} /\ {} \cap {s.t} = {}
    BY <1>2, <1>8
  <2>7. GoodWalk(Checked(s.reads \ {s.t}, {s.t}, {}), Ran(s.reads, {s.t}, {}, FALSE), parts)
    <3>1. Matches(parts, s.reads \ {s.t}, {s.t}, {}, s.reads, {s.t}, FALSE)
      BY <1>0, <2>5, <2>6 DEF Matches
    <3> QED  BY <3>1, StraightIsGood
  <2> QED  BY <2>4, <2>7 DEF parts
<1>9. CASE s.k = "move"
  <2>1. s.t \in Var /\ s.r \in Var /\ s.ann \in BOOLEAN
    BY <1>9, Fields
  <2>2. ASSUME NEW c \in Checks
        PROVE  Check(s, c, C) = AfterCheck(c, {s.r}, Taken, {s.r})
    <3>1. Check(s, c, C) = IF c.refused THEN c ELSE CheckMove(s, c)
      BY <1>9 DEF Check
    <3> QED  BY <3>1 DEF AfterCheck, CheckMove, CheckLoad, Checks
  <2>3. ASSUME NEW r \in Runs
        PROVE  Run(s, r, R) = {AfterRun(r, {s.r}, {s.t}, {s.r}, FALSE)}
    <3>1. Run(s, r, R) = IF r.done THEN {r} ELSE {[Read({s.r}, r) EXCEPT !.moved = (@ \union {s.r}) \ {s.t}]}
      BY <1>9 DEF Run
    <3>2. ~r.done => r.done = FALSE
      BY DEF Runs
    <3>3. CASE r.done
      BY <3>1, <3>3 DEF AfterRun
    <3>4. CASE ~r.done
      <4> DEFINE q == Read({s.r}, r)
      <4>1. q \in Runs /\ q.moved = r.moved /\ q.done = FALSE
        BY <3>2, <3>4, ReadIs
      <4>2. q.used = (r.used \/ {s.r} \cap r.moved # {})
        BY ReadRecord
      <4> HIDE DEF q
      <4>3. [q EXCEPT !.moved = (@ \union {s.r}) \ {s.t}]
              = [moved |-> (r.moved \union {s.r}) \ {s.t}, used |-> q.used, done |-> FALSE]
        <5> DEFINE N == (q.moved \union {s.r}) \ {s.t}
        <5>1. N \in SUBSET Var
          BY <2>1, <4>1 DEF Runs
        <5> HIDE DEF N
        <5>2. [q EXCEPT !.moved = N] = [moved |-> N, used |-> q.used, done |-> q.done]
          BY <4>1, <5>1 DEF Runs
        <5> QED  BY <4>1, <5>2 DEF N
      <4>4. (r.moved \union {s.r}) \ {s.t} = (r.moved \union {s.r}) \ {s.t}
        OBVIOUS
      <4>5. [q EXCEPT !.moved = (@ \union {s.r}) \ {s.t}] = AfterRun(r, {s.r}, {s.t}, {s.r}, FALSE)
        BY <3>4, <4>2, <4>3, <4>4 DEF AfterRun
      <4> QED  BY <3>1, <3>4, <4>5 DEF q
    <3> QED  BY <3>3, <3>4
  <2>4. /\ CheckOf(s, C) = Checked({s.r}, Taken, {s.r})
        /\ RunOf(s, R) = Ran({s.r}, {s.t}, {s.r}, FALSE)
    BY <2>2, <2>3 DEF CheckOf, RunOf, Checked, Ran
  <2>5. /\ {s.r} \in SUBSET Var /\ Taken \in SUBSET Var /\ {s.r} \in SUBSET Var
        /\ {s.r} \in SUBSET Var /\ {s.t} \in SUBSET Var /\ FALSE \in BOOLEAN
    BY <2>1
  <2>6. /\ Still(parts) => Taken = {} /\ {s.r} = {} /\ {s.t} = {}
        /\ NoMore(parts) => ~FALSE
        /\ Seen(parts) => {s.r} = {s.r} /\ Taken \subseteq {s.t}
        /\ Seen(parts) /\ NoMore(parts) => Taken = {s.t} /\ {s.r} \cap {s.t} = {}
    BY <1>2, <1>9
  <2>7. GoodWalk(Checked({s.r}, Taken, {s.r}), Ran({s.r}, {s.t}, {s.r}, FALSE), parts)
    <3>1. Matches(parts, {s.r}, Taken, {s.r}, {s.r}, {s.t}, FALSE)
      BY <1>0, <2>5, <2>6 DEF Matches
    <3> QED  BY <3>1, StraightIsGood
  <2> QED  BY <2>4, <2>7 DEF parts
<1> QED  BY <1>4, <1>5, <1>6, <1>7, <1>8, <1>9, Fields

(* The parts of an if, and of a loop.                                        *)
LEMMA IfParts ==
    ASSUME NEW s, NEW P, s.k = "if",
           \A p \in P[s.then] \union P[s.orelse] : p = [s |-> p.s, looped |-> p.looped]
    PROVE  LET parts == PartsOf(s, P)
           IN  /\ \A p \in parts : p = [s |-> p.s, looped |-> p.looped]
               /\ Still(parts) => Still(P[s.then]) /\ Still(P[s.orelse])
               /\ NoMore(parts) => NoMore(P[s.then]) /\ NoMore(P[s.orelse])
               /\ Seen(parts) => Seen(P[s.then]) /\ Seen(P[s.orelse])
<1>1. PartsOf(s, P) = {[s |-> s, looped |-> FALSE]} \union (P[s.then] \union P[s.orelse])
  BY DEF PartsOf
<1>2. P[s.then] \subseteq PartsOf(s, P) /\ P[s.orelse] \subseteq PartsOf(s, P)
  BY <1>1
<1>3. \A p \in PartsOf(s, P) : p = [s |-> p.s, looped |-> p.looped]
  BY <1>1
<1> QED  BY <1>2, <1>3 DEF Still, NoMore, Seen

LEMMA LoopParts ==
    ASSUME NEW s, NEW P, s.k = "loop",
           \A p \in P[s.body] \union P[s.orelse] : p = [s |-> p.s, looped |-> p.looped]
    PROVE  LET parts == PartsOf(s, P)
           IN  /\ \A p \in parts : p = [s |-> p.s, looped |-> p.looped]
               /\ Still(parts) => Still(P[s.body]) /\ Still(P[s.orelse])
               /\ NoMore(parts) => NoMore(P[s.body]) /\ NoMore(P[s.orelse])
               /\ Seen(parts) => Seen(P[s.body]) /\ Still(P[s.body]) /\ Seen(P[s.orelse])
<1> DEFINE Inside(p) == [s |-> p.s, looped |-> TRUE]
           inner == {Inside(p) : p \in P[s.body]}
<1>1. PartsOf(s, P) = {[s |-> s, looped |-> FALSE]} \union (inner \union P[s.orelse])
  BY DEF PartsOf
<1>2. P[s.orelse] \subseteq PartsOf(s, P) /\ \A p \in P[s.body] : Inside(p) \in PartsOf(s, P)
  BY <1>1
<1>3. \A p \in PartsOf(s, P) : p = [s |-> p.s, looped |-> p.looped]
  BY <1>1
<1>4. \A p : Inside(p).s = p.s /\ Inside(p).looped
  OBVIOUS
<1> HIDE DEF Inside
<1> QED  BY <1>2, <1>3, <1>4 DEF Still, NoMore, Seen

(* An if is as good as its branches.                                         *)
LEMMA IfIsGood ==
    ASSUME NEW B, NEW C, NEW R, NEW P, NEW s \in Statement(B), s.k = "if",
           AllGood(B, C, R, P)
    PROVE  GoodWalk(CheckOf(s, C), RunOf(s, R), PartsOf(s, P))
<1> DEFINE f == CheckOf(s, C)
           g == RunOf(s, R)
           parts == PartsOf(s, P)
           f1 == C[s.then]
           f2 == C[s.orelse]
           g1 == R[s.then]
           g2 == R[s.orelse]
           p1 == P[s.then]
           p2 == P[s.orelse]
           test(c) == CheckLoad(s.reads, c)
           read(r) == Read(s.reads, r)
<1>1. GoodWalk(f1, g1, p1) /\ GoodWalk(f2, g2, p2)
  BY Fields DEF AllGood
<1>2. /\ \A p \in parts : p = [s |-> p.s, looped |-> p.looped]
      /\ Still(parts) => Still(p1) /\ Still(p2)
      /\ NoMore(parts) => NoMore(p1) /\ NoMore(p2)
      /\ Seen(parts) => Seen(p1) /\ Seen(p2)
  <2>1. \A p \in p1 \union p2 : p = [s |-> p.s, looped |-> p.looped]
    BY <1>1 DEF GoodWalk
  <2> QED  BY <2>1, IfParts
<1>3. \A c \in Checks : test(c) \in Checks /\ test(c).moved = c.moved
  BY CheckLoadIs
<1>4. \A r \in Runs : /\ read(r) \in Runs /\ read(r).moved = r.moved
                      /\ read(r).done = r.done /\ (r.used => read(r).used)
  BY ReadIs
<1>5. /\ f1 \in [Checks -> Checks] /\ f2 \in [Checks -> Checks]
      /\ g1 \in [Runs -> SUBSET Runs] /\ g2 \in [Runs -> SUBSET Runs]
  BY <1>1 DEF GoodWalk
<1>6. ASSUME NEW c \in Checks
      PROVE  /\ f[c] \in Checks
             /\ c.refused => f[c] = c
             /\ ~c.refused => /\ f[c].moved = f1[test(c)].moved \union f2[test(c)].moved
                              /\ f[c].refused <=> f1[test(c)].refused \/ f2[test(c)].refused
  <2> DEFINE t == test(c)
  <2>1. f[c] = IF c.refused THEN c
               ELSE [moved |-> f1[t].moved \union f2[t].moved,
                     refused |-> f1[t].refused \/ f2[t].refused]
    BY DEF CheckOf, Check, CheckIf
  <2>2. f1[t] \in Checks /\ f2[t] \in Checks
    BY <1>3, <1>5
  <2> HIDE DEF t, f1, f2, f
  <2> QED  BY <2>1, <2>2 DEF Checks, t
<1>7. ASSUME NEW r \in Runs
      PROVE  /\ r.done => g[r] = {r}
             /\ ~r.done => g[r] = g1[read(r)] \union g2[read(r)]
  BY DEF RunOf, Run
<1>8. f = [c \in Checks |-> f[c]] /\ g = [r \in Runs |-> g[r]]
  BY DEF CheckOf, RunOf
<1> HIDE DEF f, g, parts, f1, f2, g1, g2, p1, p2, test, read
<1>9. f \in [Checks -> Checks] /\ g \in [Runs -> SUBSET Runs]
  <2>1. ASSUME NEW r \in Runs PROVE g[r] \in SUBSET Runs
    BY <1>4, <1>5, <1>7
  <2> QED  BY <1>6, <1>8, <2>1
<1>10. ASSUME NEW r \in Runs
       PROVE  g[r] # {} /\ (r.used => \A x \in g[r] : x.used)
  <2>1. CASE r.done
    BY <1>7, <2>1
  <2>2. CASE ~r.done
    <3>1. g1[read(r)] # {} /\ (r.used => \A x \in g1[read(r)] \union g2[read(r)] : x.used)
      BY <1>1, <1>4 DEF GoodWalk
    <3> QED  BY <1>7, <2>2, <3>1
  <2> QED  BY <2>1, <2>2
<1>11. ASSUME Still(parts)
       PROVE  /\ \A c \in Checks : f[c].moved = c.moved
              /\ \A r \in Runs : \A x \in g[r] : x.moved = r.moved
  <2>1. ASSUME NEW c \in Checks PROVE f[c].moved = c.moved
    <3>1. f1[test(c)].moved = c.moved /\ f2[test(c)].moved = c.moved
      BY <1>1, <1>2, <1>3, <1>11 DEF GoodWalk
    <3>2. CASE c.refused
      BY <1>6, <3>2
    <3>3. CASE ~c.refused
      <4>1. f[c].moved = c.moved \union c.moved
        BY <1>6, <3>1, <3>3
      <4> QED  BY <4>1
    <3> QED  BY <3>2, <3>3
  <2>2. ASSUME NEW r \in Runs, NEW x \in g[r] PROVE x.moved = r.moved
    <3>1. \A y \in g1[read(r)] \union g2[read(r)] : y.moved = r.moved
      BY <1>1, <1>2, <1>4, <1>11 DEF GoodWalk
    <3> QED  BY <1>7, <2>2, <3>1
  <2> QED  BY <2>1, <2>2
<1>12. ASSUME NoMore(parts), NEW r \in Runs, ~r.done
       PROVE  \A x \in g[r] : ~x.done
  <2>1. \A y \in g1[read(r)] \union g2[read(r)] : ~y.done
    BY <1>1, <1>2, <1>4, <1>12 DEF GoodWalk
  <2> QED  BY <1>7, <1>12, <2>1
<1>13. ASSUME Seen(parts), NEW c \in Checks, NEW r \in Runs, Safe(c, r), ~f[c].refused,
              NEW x \in g[r]
       PROVE  Safe(f[c], x)
  <2>1. CASE r.done
    <3>1. x = r
      BY <1>7, <2>1
    <3> QED  BY <1>13, <2>1, <3>1 DEF Safe
  <2>2. CASE ~r.done
    <3> DEFINE t == test(c)
    <3>1. ~c.refused /\ t \in Checks /\ ~f1[t].refused /\ ~f2[t].refused
      BY <1>3, <1>6, <1>13
    <3>2. ~t.refused
      BY <1>1, <3>1 DEF GoodWalk
    <3>3. Safe(t, read(r)) /\ read(r) \in Runs
      BY <1>4, <1>13, <2>2, <3>2, TestIsSound DEF test, read
    <3> HIDE DEF t
    <3>4. x \in g1[read(r)] \/ x \in g2[read(r)]
      BY <1>7, <1>13, <2>2
    <3>5. SoundWalk(f1, g1) /\ SoundWalk(f2, g2)
      BY <1>1, <1>2, <1>13 DEF GoodWalk
    <3>6. Safe(f1[t], x) \/ Safe(f2[t], x)
      BY <3>1, <3>3, <3>4, <3>5 DEF SoundWalk
    <3>7. f[c].moved = f1[t].moved \union f2[t].moved
      BY <1>6, <3>1 DEF t
    <3> QED  BY <3>6, <3>7 DEF Safe
  <2> QED  BY <2>1, <2>2
<1>14. ASSUME Seen(parts), NoMore(parts), NEW c \in Checks, NEW X \in SUBSET Runs,
              ~c.refused, Live(c, X)
       PROVE  IF f[c].refused THEN \E x \in Ends(g, X) : x.used
              ELSE Covers(f[c], Ends(g, X))
  <2> DEFINE t == test(c)
             Y == {read(r) : r \in X}
  <2>1. /\ t \in Checks
        /\ f[c].moved = f1[t].moved \union f2[t].moved
        /\ f[c].refused <=> f1[t].refused \/ f2[t].refused
    BY <1>3, <1>6, <1>14
  <2>2. /\ t.refused => \E r \in X : read(r).used
        /\ Live(t, Y)
        /\ Y \in SUBSET Runs
    BY <1>14, TestIsComplete DEF test, read
  <2>3. \A r \in X : r \in Runs /\ g[r] = g1[read(r)] \union g2[read(r)]
    BY <1>7, <1>14 DEF Live
  <2>4. \A x \in Ends(g1, Y) \union Ends(g2, Y) : x \in Ends(g, X)
    BY <2>3 DEF Ends
  <2>5. CompleteWalk(f1, g1) /\ CompleteWalk(f2, g2)
    BY <1>1, <1>2, <1>14 DEF GoodWalk
  <2> HIDE DEF t, Y
  <2>6. CASE t.refused
    <3>1. PICK r \in X : read(r).used
      BY <2>2, <2>6
    <3>2. read(r) \in Runs
      BY <1>4, <3>1
    <3>3. \E x \in g1[read(r)] : x.used
      BY <1>1, <3>1, <3>2 DEF GoodWalk
    <3>4. \E x \in Ends(g, X) : x.used
      BY <2>3, <3>3 DEF Ends
    <3>5. f[c].refused
      BY <1>1, <2>1, <2>6 DEF GoodWalk
    <3> QED  BY <3>4, <3>5
  <2>7. CASE ~t.refused
    <3>1. /\ IF f1[t].refused THEN \E x \in Ends(g1, Y) : x.used
             ELSE Covers(f1[t], Ends(g1, Y))
          /\ IF f2[t].refused THEN \E x \in Ends(g2, Y) : x.used
             ELSE Covers(f2[t], Ends(g2, Y))
      BY <2>1, <2>2, <2>5, <2>7 DEF CompleteWalk
    <3> QED  BY <2>1, <2>4, <3>1 DEF Covers
  <2> QED  BY <2>6, <2>7
<1>15. Seen(parts) => SoundWalk(f, g)
  BY <1>13 DEF SoundWalk
<1>16. Seen(parts) /\ NoMore(parts) => CompleteWalk(f, g)
  BY <1>14 DEF CompleteWalk
<1>17. \A c \in Checks : c.refused => f[c].refused
  BY <1>6
<1>18. GoodWalk(f, g, parts)
  BY <1>2, <1>7, <1>9, <1>10, <1>11, <1>12, <1>15, <1>16, <1>17 DEF GoodWalk
<1> QED  BY <1>18 DEF f, g, parts

(* Whatever holds of the states after each evaluation of the test, the rounds *)
(* end in from there.                                                         *)
LEMMA RoundsEnd ==
    ASSUME NEW s, NEW walk, NEW st \in Runs,
           walk[s.body] \in [Runs -> SUBSET Runs], walk[s.orelse] \in [Runs -> SUBSET Runs]
    PROVE  /\ Rounds(s, st, walk) \in SUBSET Runs
           /\ walk[s.orelse][Read(s.reads, st)] \subseteq Rounds(s, st, walk)
           /\ \A y \in walk[s.body][Read(s.reads, st)] :
                ~y.done => walk[s.orelse][Read(s.reads, y)] \subseteq Rounds(s, st, walk)
           /\ \A I \in SUBSET Runs :
                /\ Read(s.reads, st) \in I
                /\ \A x \in I : \A y \in walk[s.body][x] : ~y.done => Read(s.reads, y) \in I
                => \A e \in Rounds(s, st, walk) :
                     \E x \in I : e \in walk[s.orelse][x] \/ (e.done /\ e \in walk[s.body][x])
<1> DEFINE q == Read(s.reads, st)
           b == walk[s.body]
           o == walk[s.orelse]
<1>1. q \in Runs /\ \A y \in Runs : Read(s.reads, y) \in Runs
  BY ReadIs
<1>2. \A X \in SUBSET Runs : Tested(s, walk, X) \in SUBSET Runs
  BY <1>1 DEF Tested, From
<1>3. PICK T \in [0 .. MaxRounds -> SUBSET Runs] :
        /\ T[0] = {q}
        /\ \A n \in 1 .. MaxRounds : T[n] = Tested(s, walk, T[n - 1])
        /\ Rounds(s, st, walk) = LoopEnds(s, walk, T)
  BY <1>1, <1>2, RoundsUnfold
<1>4. MaxRounds \in Nat /\ 0 \in 0 .. MaxRounds /\ 1 \in 0 .. MaxRounds /\ 1 \in 1 .. MaxRounds
      /\ 0 \in 0 .. MaxRounds - 1
  BY MovedAssumption
<1>5. \A e : e \in Rounds(s, st, walk) <=>
               \/ \E n \in 0 .. MaxRounds : \E x \in T[n] : e \in o[x]
               \/ e.done /\ \E n \in 0 .. MaxRounds - 1 : \E x \in T[n] : e \in b[x]
  <2> DEFINE ends == UNION {From(T[n], s.orelse, walk) : n \in 0 .. MaxRounds}
             inside == UNION {From(T[n], s.body, walk) : n \in 0 .. MaxRounds - 1}
  <2>1. Rounds(s, st, walk) = ends \union {e \in inside : e.done}
    <3>1. LoopEnds(s, walk, T) = ends \union {e \in inside : e.done}
      BY DEF LoopEnds
    <3> QED  BY <1>3, <3>1
  <2>3. \A e : e \in ends <=> \E n \in 0 .. MaxRounds : e \in From(T[n], s.orelse, walk)
    OBVIOUS
  <2>4. \A e : e \in inside <=> \E n \in 0 .. MaxRounds - 1 : e \in From(T[n], s.body, walk)
    OBVIOUS
  <2> HIDE DEF ends, inside, b, o
  <2>5. \A e : e \in Rounds(s, st, walk) <=> e \in ends \/ (e.done /\ e \in inside)
    BY <2>1
  <2>6. \A e : e \in ends <=> \E n \in 0 .. MaxRounds : \E x \in T[n] : e \in o[x]
    <3> TAKE e
    <3>1. e \in ends <=> \E n \in 0 .. MaxRounds : e \in From(T[n], s.orelse, walk)
      BY <2>3
    <3>2. \A n : e \in From(T[n], s.orelse, walk) <=> \E x \in T[n] : e \in o[x]
      BY DEF From, o
    <3> QED  BY <3>1, <3>2
  <2>7. \A e : e \in inside <=> \E n \in 0 .. MaxRounds - 1 : \E x \in T[n] : e \in b[x]
    <3> TAKE e
    <3>1. e \in inside <=> \E n \in 0 .. MaxRounds - 1 : e \in From(T[n], s.body, walk)
      BY <2>4
    <3>2. \A n : e \in From(T[n], s.body, walk) <=> \E x \in T[n] : e \in b[x]
      BY DEF From, b
    <3> QED  BY <3>1, <3>2
  <2> QED  BY <2>5, <2>6, <2>7
<1>6. \A n \in 1 .. MaxRounds : \A z :
        z \in T[n] <=> \E x \in T[n - 1] : \E y \in b[x] : ~y.done /\ z = Read(s.reads, y)
  BY <1>3 DEF Tested, From
<1>7. Rounds(s, st, walk) \in SUBSET Runs
  <2>1. 0 .. MaxRounds - 1 \subseteq 0 .. MaxRounds
    BY <1>4
  <2>2. \A n \in 0 .. MaxRounds : T[n] \subseteq Runs
    BY <1>3
  <2>3. \A x \in Runs : o[x] \subseteq Runs /\ b[x] \subseteq Runs
    OBVIOUS
  <2> HIDE DEF b, o
  <2> QED  BY <1>5, <2>1, <2>2, <2>3
<1>8. o[q] \subseteq Rounds(s, st, walk)
  BY <1>3, <1>4, <1>5
<1>9. ASSUME NEW y \in b[q], ~y.done
      PROVE  o[Read(s.reads, y)] \subseteq Rounds(s, st, walk)
  <2>1. Read(s.reads, y) \in T[1]
    <3>1. y \in b[q] /\ q \in T[1 - 1]
      BY <1>3, <1>9
    <3> HIDE DEF b
    <3> QED  BY <1>4, <1>6, <1>9, <3>1
  <2> HIDE DEF o
  <2> QED  BY <1>4, <1>5, <2>1
<1>10. ASSUME NEW I \in SUBSET Runs, q \in I,
              \A x \in I : \A y \in b[x] : ~y.done => Read(s.reads, y) \in I,
              NEW e \in Rounds(s, st, walk)
       PROVE  \E x \in I : e \in o[x] \/ (e.done /\ e \in b[x])
  <2> DEFINE A == {n \in 0 .. MaxRounds : T[n] \subseteq I}
  <2> HIDE DEF b, o, q
  <2>1. 0 \in A
    BY <1>3, <1>4, <1>10
  <2>2. ASSUME NEW n \in 1 .. MaxRounds, n - 1 \in A
        PROVE  n \in A
    <3>1. n \in 0 .. MaxRounds
      BY <1>4
    <3>2. \A z \in T[n] : z \in I
      BY <1>6, <1>10, <2>2
    <3> QED  BY <3>1, <3>2
  <2>3. \A n \in 0 .. MaxRounds : n \in A
    <3> HIDE DEF A
    <3> QED  BY <1>4, <2>1, <2>2, Induction
  <2>4. 0 .. MaxRounds - 1 \subseteq 0 .. MaxRounds
    BY <1>4
  <2> QED  BY <1>5, <1>10, <2>3, <2>4
<1> QED  BY <1>7, <1>8, <1>9, <1>10

(* A loop is as good as its bodies.                                          *)
LEMMA LoopIsGood ==
    ASSUME NEW B, NEW C, NEW R, NEW P, NEW s \in Statement(B), s.k = "loop",
           AllGood(B, C, R, P)
    PROVE  GoodWalk(CheckOf(s, C), RunOf(s, R), PartsOf(s, P))
<1> DEFINE f == CheckOf(s, C)
           g == RunOf(s, R)
           parts == PartsOf(s, P)
           f1 == C[s.body]
           f2 == C[s.orelse]
           g1 == R[s.body]
           g2 == R[s.orelse]
           p1 == P[s.body]
           p2 == P[s.orelse]
           test(c) == CheckLoad(s.reads, c)
           read(r) == Read(s.reads, r)
<1>1. GoodWalk(f1, g1, p1) /\ GoodWalk(f2, g2, p2)
  BY Fields DEF AllGood
<1>2. /\ \A p \in parts : p = [s |-> p.s, looped |-> p.looped]
      /\ Still(parts) => Still(p1) /\ Still(p2)
      /\ NoMore(parts) => NoMore(p1) /\ NoMore(p2)
      /\ Seen(parts) => Seen(p1) /\ Still(p1) /\ Seen(p2)
  <2>1. \A p \in p1 \union p2 : p = [s |-> p.s, looped |-> p.looped]
    BY <1>1 DEF GoodWalk
  <2> QED  BY <2>1, LoopParts
<1>3. \A c \in Checks : test(c) \in Checks /\ test(c).moved = c.moved
                       /\ (test(c).refused <=> c.refused \/ s.reads \cap c.moved # {})
  BY CheckLoadIs
<1>4. \A r \in Runs : /\ read(r) \in Runs /\ read(r).moved = r.moved
                      /\ read(r).done = r.done
                      /\ read(r).used <=> r.used \/ s.reads \cap r.moved # {}
  BY ReadIs
<1>5. /\ f1 \in [Checks -> Checks] /\ f2 \in [Checks -> Checks]
      /\ g1 \in [Runs -> SUBSET Runs] /\ g2 \in [Runs -> SUBSET Runs]
  BY <1>1 DEF GoodWalk
<1>6. ASSUME NEW c \in Checks
      PROVE  /\ c.refused => f[c] = c
             /\ ~c.refused => f[c] = f2[f1[test(c)]]
             /\ f[c] \in Checks
  <2>1. f[c] = IF c.refused THEN c ELSE f2[f1[test(c)]]
    BY DEF CheckOf, Check
  <2> HIDE DEF f, f1, f2, test
  <2> QED  BY <1>3, <1>5, <2>1
<1>7. ASSUME NEW r \in Runs
      PROVE  /\ r.done => g[r] = {r}
             /\ ~r.done => g[r] = Rounds(s, r, R)
  BY DEF RunOf, Run
<1>8. ASSUME NEW r \in Runs
      PROVE  /\ Rounds(s, r, R) \in SUBSET Runs
             /\ g2[read(r)] \subseteq Rounds(s, r, R)
             /\ \A y \in g1[read(r)] : ~y.done => g2[read(y)] \subseteq Rounds(s, r, R)
  BY <1>5, RoundsEnd
<1>9. ASSUME NEW r \in Runs, NEW I \in SUBSET Runs, read(r) \in I,
             \A x \in I : \A y \in g1[x] : ~y.done => read(y) \in I
      PROVE  \A e \in Rounds(s, r, R) : \E x \in I : e \in g2[x] \/ (e.done /\ e \in g1[x])
  BY <1>5, <1>9, RoundsEnd
<1>10. f = [c \in Checks |-> f[c]] /\ g = [r \in Runs |-> g[r]]
  BY DEF CheckOf, RunOf
<1> HIDE DEF f, g, parts, f1, f2, g1, g2, p1, p2, test, read
<1>11. f \in [Checks -> Checks] /\ g \in [Runs -> SUBSET Runs]
  <2>1. ASSUME NEW r \in Runs PROVE g[r] \in SUBSET Runs
    BY <1>7, <1>8
  <2> QED  BY <1>6, <1>10, <2>1
<1>12. ASSUME NEW r \in Runs
       PROVE  g[r] # {} /\ (r.used => \A x \in g[r] : x.used)
  <2>1. CASE r.done
    BY <1>7, <2>1
  <2>2. CASE ~r.done
    <3>1. g2[read(r)] # {}
      BY <1>1, <1>4 DEF GoodWalk
    <3>2. ASSUME r.used, NEW e \in Rounds(s, r, R) PROVE e.used
      <4> DEFINE I == {x \in Runs : x.used}
      <4>1. read(r) \in I
        BY <1>4, <3>2
      <4>2. \A x \in I : \A y \in g1[x] \union g2[x] : y.used /\ y \in Runs
        BY <1>1, <1>5 DEF GoodWalk
      <4>3. \A x \in I : \A y \in g1[x] : read(y) \in I
        BY <1>4, <4>2
      <4>4. I \in SUBSET Runs
        OBVIOUS
      <4> HIDE DEF I
      <4>5. PICK x \in I : e \in g2[x] \/ e \in g1[x]
        BY <1>9, <3>2, <4>1, <4>3, <4>4
      <4> QED  BY <4>2, <4>5
    <3> QED  BY <1>7, <1>8, <2>2, <3>1, <3>2
  <2> QED  BY <2>1, <2>2
<1>13. ASSUME Still(parts)
       PROVE  /\ \A c \in Checks : f[c].moved = c.moved
              /\ \A r \in Runs : \A x \in g[r] : x.moved = r.moved
  <2>1. ASSUME NEW c \in Checks PROVE f[c].moved = c.moved
    <3>1. f1[test(c)].moved = c.moved /\ f1[test(c)] \in Checks
      BY <1>1, <1>2, <1>3, <1>5, <1>13 DEF GoodWalk
    <3>2. f2[f1[test(c)]].moved = c.moved
      BY <1>1, <1>2, <1>13, <3>1 DEF GoodWalk
    <3> QED  BY <1>6, <3>2
  <2>2. ASSUME NEW r \in Runs, NEW e \in g[r] PROVE e.moved = r.moved
    <3>1. CASE r.done
      BY <1>7, <2>2, <3>1
    <3>2. CASE ~r.done
      <4> DEFINE I == {x \in Runs : x.moved = r.moved}
      <4>1. read(r) \in I /\ I \in SUBSET Runs
        BY <1>4
      <4>2. \A x \in I : \A y \in g1[x] \union g2[x] : y.moved = r.moved /\ y \in Runs
        BY <1>1, <1>2, <1>5, <1>13 DEF GoodWalk
      <4>3. \A x \in I : \A y \in g1[x] : read(y) \in I
        BY <1>4, <4>2
      <4> HIDE DEF I
      <4>4. PICK x \in I : e \in g2[x] \/ e \in g1[x]
        BY <1>7, <1>9, <2>2, <3>2, <4>1, <4>3
      <4> QED  BY <4>2, <4>4
    <3> QED  BY <3>1, <3>2
  <2> QED  BY <2>1, <2>2
<1>14. ASSUME NoMore(parts), NEW r \in Runs, ~r.done, NEW e \in g[r]
       PROVE  ~e.done
  <2> DEFINE I == {x \in Runs : ~x.done}
  <2>1. read(r) \in I /\ I \in SUBSET Runs
    BY <1>4, <1>14
  <2>2. \A x \in I : \A y \in g1[x] \union g2[x] : ~y.done /\ y \in Runs
    BY <1>1, <1>2, <1>5, <1>14 DEF GoodWalk
  <2>3. \A x \in I : \A y \in g1[x] : read(y) \in I
    BY <1>4, <2>2
  <2> HIDE DEF I
  <2>4. PICK x \in I : e \in g2[x] \/ e \in g1[x]
    BY <1>7, <1>9, <1>14, <2>1, <2>3
  <2> QED  BY <2>2, <2>4
<1>15. ASSUME Seen(parts), NEW c \in Checks, NEW r \in Runs, Safe(c, r), ~f[c].refused,
              NEW e \in g[r]
       PROVE  Safe(f[c], e)
  <2>1. CASE r.done
    <3>1. e = r
      BY <1>7, <1>15, <2>1
    <3> QED  BY <1>15, <2>1, <3>1 DEF Safe
  <2>2. CASE ~r.done
    <3> DEFINE t == test(c)
               u == f1[t]
    <3>1. ~c.refused /\ f[c] = f2[u] /\ t \in Checks /\ u \in Checks
      BY <1>3, <1>5, <1>6, <1>15
    <3>2. ~u.refused /\ ~t.refused
      BY <1>1, <1>15, <3>1 DEF GoodWalk
    <3>3. t.moved = c.moved /\ u.moved = c.moved /\ s.reads \cap c.moved = {}
      BY <1>1, <1>2, <1>3, <1>15, <3>1, <3>2 DEF GoodWalk
    <3>4. Safe(t, read(r)) /\ read(r) \in Runs
      BY <1>4, <1>15, <2>2, <3>2, TestIsSound DEF test, read
    <3> HIDE DEF t, u
    <3> DEFINE I == {x \in Runs : Safe(t, x) /\ ~x.done}
    <3>5. SoundWalk(f1, g1) /\ SoundWalk(f2, g2)
      BY <1>1, <1>2, <1>15 DEF GoodWalk
    <3>6. read(r) \in I /\ I \in SUBSET Runs
      BY <1>4, <2>2, <3>4
    <3>7. \A x \in I : \A y \in g1[x] : Safe(u, y) /\ y \in Runs
      BY <1>5, <3>1, <3>2, <3>5 DEF SoundWalk, u
    <3>8. ASSUME NEW x \in I, NEW y \in g1[x], ~y.done
          PROVE  read(y) \in I
      <4>1. y \in Runs /\ ~y.used /\ y.moved \subseteq c.moved
        BY <3>3, <3>7, <3>8 DEF Safe
      <4>2. s.reads \cap y.moved = {}
        BY <3>3, <4>1
      <4>3. ~read(y).used /\ read(y).moved \subseteq t.moved /\ ~read(y).done /\ read(y) \in Runs
        BY <1>4, <3>3, <3>8, <4>1, <4>2
      <4> QED  BY <4>3 DEF Safe
    <3>9. \A x \in I : Safe(u, x) /\ x \in Runs
      BY <3>3 DEF Safe
    <3> HIDE DEF I
    <3>10. PICK x \in I : e \in g2[x] \/ (e.done /\ e \in g1[x])
      BY <1>7, <1>9, <1>15, <2>2, <3>6, <3>8
    <3>11. CASE e \in g2[x]
      BY <1>15, <3>1, <3>5, <3>9, <3>11 DEF SoundWalk
    <3>12. CASE e.done /\ e \in g1[x]
      BY <3>7, <3>12 DEF Safe
    <3> QED  BY <3>10, <3>11, <3>12
  <2> QED  BY <2>1, <2>2
<1>16. ASSUME Seen(parts), NoMore(parts), NEW c \in Checks, NEW X \in SUBSET Runs,
              ~c.refused, Live(c, X)
       PROVE  IF f[c].refused THEN \E x \in Ends(g, X) : x.used
              ELSE Covers(f[c], Ends(g, X))
  <2> DEFINE t == test(c)
             u == f1[t]
             Y == {read(r) : r \in X}
  <2>1. f[c] = f2[u] /\ t \in Checks /\ u \in Checks
    BY <1>3, <1>5, <1>6, <1>16
  <2>2. /\ t.refused => \E r \in X : read(r).used
        /\ Live(t, Y)
        /\ Y \in SUBSET Runs
    BY <1>16, TestIsComplete DEF test, read
  <2>3. \A r \in X : r \in Runs /\ read(r) \in Runs /\ g[r] = Rounds(s, r, R)
    BY <1>4, <1>7, <1>16 DEF Live
  <2>4. \A x \in Ends(g2, Y) : x \in Ends(g, X)
    BY <1>8, <2>3 DEF Ends
  <2>5. CompleteWalk(f1, g1) /\ CompleteWalk(f2, g2)
    BY <1>1, <1>2, <1>16 DEF GoodWalk
  <2>6. u.moved = t.moved
    BY <1>1, <1>2, <1>16, <2>1 DEF GoodWalk
  <2>7. Live(u, Y)
    <3> HIDE DEF t, u, Y
    <3> QED  BY <2>2, <2>6 DEF Live, Covers
  <2>8. \A x \in Runs : x.used => \E e \in g2[x] : e.used
    BY <1>1 DEF GoodWalk
  <2>9. /\ t.refused => u.refused
        /\ u.refused => f2[u].refused
    BY <1>1, <2>1 DEF GoodWalk
  <2> HIDE DEF t, u, Y
  <2>10. CASE t.refused
    <3>1. PICK r \in X : read(r).used
      BY <2>2, <2>10
    <3>2. PICK e \in g2[read(r)] : e.used
      BY <2>3, <2>8, <3>1
    <3>3. e \in Ends(g, X)
      BY <1>8, <2>3, <3>2 DEF Ends
    <3> QED  BY <2>1, <2>9, <2>10, <3>2, <3>3
  <2>11. CASE ~t.refused /\ u.refused
    <3>1. PICK y \in Ends(g1, Y) : y.used
      BY <2>1, <2>2, <2>5, <2>11 DEF CompleteWalk, u
    <3>2. PICK r \in X : y \in g1[read(r)]
      BY <3>1 DEF Ends, Y
    <3>3. y \in Runs /\ ~y.done
      <4>1. ~read(r).done
        BY <1>4, <1>16, <2>3 DEF Live
      <4> QED  BY <1>1, <1>2, <1>5, <1>16, <2>3, <3>2, <4>1 DEF GoodWalk
    <3>4. read(y) \in Runs /\ read(y).used
      BY <1>4, <3>1, <3>3
    <3>5. PICK e \in g2[read(y)] : e.used
      BY <2>8, <3>4
    <3>6. e \in Ends(g, X)
      BY <1>8, <2>3, <3>2, <3>3, <3>5 DEF Ends
    <3> QED  BY <2>1, <2>9, <2>11, <3>5, <3>6
  <2>12. CASE ~u.refused
    <3>1. IF f2[u].refused THEN \E x \in Ends(g2, Y) : x.used
          ELSE Covers(f2[u], Ends(g2, Y))
      BY <2>1, <2>2, <2>5, <2>7, <2>12 DEF CompleteWalk
    <3> QED  BY <2>1, <2>4, <3>1 DEF Covers
  <2> QED  BY <2>10, <2>11, <2>12
<1>17. Seen(parts) => SoundWalk(f, g)
  BY <1>15 DEF SoundWalk
<1>18. Seen(parts) /\ NoMore(parts) => CompleteWalk(f, g)
  BY <1>16 DEF CompleteWalk
<1>19. \A c \in Checks : c.refused => f[c].refused
  BY <1>6
<1>20. NoMore(parts) => \A r \in Runs : ~r.done => \A e \in g[r] : ~e.done
  BY <1>14
<1>21. GoodWalk(f, g, parts)
  BY <1>2, <1>7, <1>11, <1>12, <1>13, <1>17, <1>18, <1>19, <1>20 DEF GoodWalk
<1> QED  BY <1>21 DEF f, g, parts

LEMMA StatementIsGood ==
    ASSUME NEW B, NEW C, NEW R, NEW P, NEW s \in Statement(B), AllGood(B, C, R, P)
    PROVE  GoodWalk(CheckOf(s, C), RunOf(s, R), PartsOf(s, P))
BY SimpleIsGood, IfIsGood, LoopIsGood

(* No statement,                                                             *)
LEMMA NothingIsGood == GoodWalk([c \in Checks |-> c], [r \in Runs |-> {r}], {})
<1> DEFINE f == [c \in Checks |-> c]
           g == [r \in Runs |-> {r}]
<1>1. f \in [Checks -> Checks] /\ g \in [Runs -> SUBSET Runs]
  OBVIOUS
<1>2. /\ \A c \in Checks : f[c] = c
      /\ \A r \in Runs : g[r] = {r}
      /\ \A X \in SUBSET Runs : Ends(g, X) = X
  BY DEF Ends
<1> HIDE DEF f, g
<1>3. SoundWalk(f, g)
  BY <1>2 DEF SoundWalk
<1>4. CompleteWalk(f, g)
  BY <1>2 DEF CompleteWalk, Live
<1>5. GoodWalk(f, g, {})
  BY <1>1, <1>2, <1>3, <1>4 DEF GoodWalk
<1> QED  BY <1>5 DEF f, g

(* ... and one after the other.                                              *)
LEMMA OneAfterTheOther ==
    ASSUME NEW f1, NEW g1, NEW p1, NEW f2, NEW g2, NEW p2,
           GoodWalk(f1, g1, p1), GoodWalk(f2, g2, p2)
    PROVE  GoodWalk([c \in Checks |-> f2[f1[c]]],
                [r \in Runs |-> UNION {g2[x] : x \in g1[r]}], p1 \union p2)
<1> DEFINE f == [c \in Checks |-> f2[f1[c]]]
           g == [r \in Runs |-> UNION {g2[x] : x \in g1[r]}]
           parts == p1 \union p2
<1>1. /\ f1 \in [Checks -> Checks] /\ f2 \in [Checks -> Checks]
      /\ g1 \in [Runs -> SUBSET Runs] /\ g2 \in [Runs -> SUBSET Runs]
  BY DEF GoodWalk
<1>2. \A c \in Checks : f[c] = f2[f1[c]] /\ f1[c] \in Checks /\ f[c] \in Checks
  BY <1>1
<1>3. \A r \in Runs : \A e : e \in g[r] <=> \E x \in g1[r] : e \in g2[x]
  OBVIOUS
<1>4. \A r \in Runs : g1[r] \subseteq Runs /\ g2[r] \subseteq Runs
  BY <1>1
<1>5. f = [c \in Checks |-> f[c]] /\ g = [r \in Runs |-> g[r]]
  OBVIOUS
<1>6. /\ \A p \in parts : p = [s |-> p.s, looped |-> p.looped]
      /\ Still(parts) => Still(p1) /\ Still(p2)
      /\ NoMore(parts) => NoMore(p1) /\ NoMore(p2)
      /\ Seen(parts) => Seen(p1) /\ Seen(p2)
  <2>1. \A p \in parts : p = [s |-> p.s, looped |-> p.looped]
    BY DEF GoodWalk
  <2>2. p1 \subseteq parts /\ p2 \subseteq parts
    OBVIOUS
  <2> HIDE DEF parts
  <2> QED  BY <2>1, <2>2 DEF Still, NoMore, Seen
<1> HIDE DEF f, g, parts
<1>7. f \in [Checks -> Checks] /\ g \in [Runs -> SUBSET Runs]
  <2>1. ASSUME NEW r \in Runs PROVE g[r] \in SUBSET Runs
    BY <1>3, <1>4
  <2> QED  BY <1>2, <1>5, <2>1
<1>8. \A c \in Checks : c.refused => f[c].refused
  BY <1>2 DEF GoodWalk
<1>9. ASSUME NEW r \in Runs
      PROVE  g[r] # {} /\ (r.used => \A x \in g[r] : x.used)
  <2>1. PICK x \in g1[r] : x \in Runs
    BY <1>4 DEF GoodWalk
  <2>2. PICK e : e \in g2[x]
    BY <2>1 DEF GoodWalk
  <2>3. e \in g[r]
    BY <1>3, <2>1, <2>2
  <2>4. ASSUME r.used, NEW z \in g[r] PROVE z.used
    <3>1. PICK y \in g1[r] : z \in g2[y]
      BY <1>3, <2>4
    <3>2. y \in Runs /\ y.used
      BY <1>4, <2>4 DEF GoodWalk
    <3> QED  BY <3>1, <3>2 DEF GoodWalk
  <2> QED  BY <2>3, <2>4
<1>10. ASSUME NEW r \in Runs, r.done
       PROVE  g[r] = {r}
  <2>1. g1[r] = {r} /\ g2[r] = {r}
    BY <1>10 DEF GoodWalk
  <2> QED  BY <1>3, <2>1
<1>11. ASSUME Still(parts)
       PROVE  /\ \A c \in Checks : f[c].moved = c.moved
              /\ \A r \in Runs : \A x \in g[r] : x.moved = r.moved
  <2>1. ASSUME NEW c \in Checks PROVE f[c].moved = c.moved
    <3>1. f1[c].moved = c.moved /\ f2[f1[c]].moved = f1[c].moved
      BY <1>2, <1>6, <1>11 DEF GoodWalk
    <3> QED  BY <1>2, <3>1
  <2>2. ASSUME NEW r \in Runs, NEW z \in g[r] PROVE z.moved = r.moved
    <3>1. PICK y \in g1[r] : z \in g2[y]
      BY <1>3, <2>2
    <3>2. y \in Runs /\ y.moved = r.moved
      BY <1>4, <1>6, <1>11 DEF GoodWalk
    <3> QED  BY <1>6, <1>11, <3>1, <3>2 DEF GoodWalk
  <2> QED  BY <2>1, <2>2
<1>12. ASSUME NoMore(parts), NEW r \in Runs, ~r.done, NEW z \in g[r]
       PROVE  ~z.done
  <2>1. PICK y \in g1[r] : z \in g2[y]
    BY <1>3, <1>12
  <2>2. y \in Runs /\ ~y.done
    BY <1>4, <1>6, <1>12 DEF GoodWalk
  <2> QED  BY <1>6, <1>12, <2>1, <2>2 DEF GoodWalk
<1>13. ASSUME Seen(parts), NEW c \in Checks, NEW r \in Runs, Safe(c, r), ~f[c].refused,
              NEW z \in g[r]
       PROVE  Safe(f[c], z)
  <2>1. PICK y \in g1[r] : z \in g2[y]
    BY <1>3, <1>13
  <2>2. y \in Runs /\ ~f1[c].refused
    BY <1>2, <1>4, <1>13 DEF GoodWalk
  <2>3. SoundWalk(f1, g1) /\ SoundWalk(f2, g2)
    BY <1>6, <1>13 DEF GoodWalk
  <2>4. Safe(f1[c], y)
    BY <1>13, <2>1, <2>2, <2>3 DEF SoundWalk
  <2> QED  BY <1>2, <1>13, <2>1, <2>2, <2>3, <2>4 DEF SoundWalk
<1>14. ASSUME Seen(parts), NoMore(parts), NEW c \in Checks, NEW X \in SUBSET Runs,
              ~c.refused, Live(c, X)
       PROVE  IF f[c].refused THEN \E x \in Ends(g, X) : x.used
              ELSE Covers(f[c], Ends(g, X))
  <2> DEFINE Y == Ends(g1, X)
  <2>1. Y \in SUBSET Runs
    BY <1>4 DEF Ends
  <2>2. \A e : e \in Ends(g, X) <=> e \in Ends(g2, Y)
    <3>1. \A e : e \in Ends(g, X) <=> \E r \in X : e \in g[r]
      BY DEF Ends
    <3>2. \A e : e \in Ends(g2, Y) <=> \E r \in X : \E y \in g1[r] : e \in g2[y]
      BY DEF Ends
    <3> HIDE DEF Y
    <3> QED  BY <1>3, <3>1, <3>2
  <2>3. CompleteWalk(f1, g1) /\ CompleteWalk(f2, g2)
    BY <1>6, <1>14 DEF GoodWalk
  <2>4. IF f1[c].refused THEN \E x \in Y : x.used ELSE Covers(f1[c], Y)
    BY <1>14, <2>3 DEF CompleteWalk
  <2>5. Y # {} /\ \A y \in Y : ~y.done
    <3>1. \A r \in X : r \in Runs /\ ~r.done
      BY <1>14 DEF Live
    <3>2. \A r \in X : g1[r] # {} /\ \A y \in g1[r] : ~y.done
      BY <1>6, <1>14, <3>1 DEF GoodWalk
    <3>3. X # {}
      BY <1>14 DEF Live
    <3> QED  BY <3>2, <3>3 DEF Ends
  <2> HIDE DEF Y
  <2>6. CASE f1[c].refused
    <3>1. PICK y \in Y : y.used
      BY <2>4, <2>6
    <3>2. PICK e \in g2[y] : e.used
      BY <2>1, <3>1 DEF GoodWalk
    <3>3. e \in Ends(g, X)
      BY <2>2, <3>2 DEF Ends
    <3>4. f[c].refused
      BY <1>2, <2>6 DEF GoodWalk
    <3> QED  BY <3>2, <3>3, <3>4
  <2>7. CASE ~f1[c].refused
    <3>1. Live(f1[c], Y)
      BY <2>4, <2>5, <2>7 DEF Live
    <3>2. IF f2[f1[c]].refused THEN \E x \in Ends(g2, Y) : x.used
          ELSE Covers(f2[f1[c]], Ends(g2, Y))
      BY <1>2, <2>1, <2>3, <2>7, <3>1 DEF CompleteWalk
    <3>3. Ends(g, X) = Ends(g2, Y)
      BY <2>2
    <3> QED  BY <1>2, <3>2, <3>3
  <2> QED  BY <2>6, <2>7
<1>15. Seen(parts) => SoundWalk(f, g)
  BY <1>13 DEF SoundWalk
<1>16. Seen(parts) /\ NoMore(parts) => CompleteWalk(f, g)
  BY <1>14 DEF CompleteWalk
<1>17. NoMore(parts) => \A r \in Runs : ~r.done => \A e \in g[r] : ~e.done
  BY <1>12
<1>18. GoodWalk(f, g, parts)
  BY <1>6, <1>7, <1>8, <1>9, <1>10, <1>11, <1>15, <1>16, <1>17 DEF GoodWalk
<1> QED  BY <1>18 DEF f, g, parts

(* A body is good when those inside it are.                                  *)
LEMMA BodyIsGood ==
    ASSUME NEW B, NEW C, NEW R, NEW P, AllGood(B, C, R, P), NEW ss \in Seq(Statement(B))
    PROVE  GoodWalk([c \in Checks |-> CheckBody(ss, c, C)], [r \in Runs |-> RunBody(ss, r, R)],
                UNION {PartsOf(ss[i], P) : i \in DOMAIN ss})
<1> DEFINE N == Len(ss)
           O(n, c) == Check(ss[n], c, C)
           Q(n, r) == Run(ss[n], r, R)
           c1 == [c \in Checks |-> CHOOSE F : CheckingFrom(ss, c, C, F)]
           r1 == [r \in Runs |-> CHOOSE F : RunningFrom(ss, r, R, F)]
           f(n) == [c \in Checks |-> c1[c][n]]
           g(n) == [r \in Runs |-> r1[r][n]]
           p(n) == UNION {PartsOf(ss[i], P) : i \in 1 .. n}
           cs(n) == CheckOf(ss[n], C)
           rs(n) == RunOf(ss[n], R)
<1>1. N \in Nat /\ DOMAIN ss = 1 .. N /\ \A n \in 1 .. N : ss[n] \in Statement(B)
  OBVIOUS
<1>2. /\ 0 \in 0 .. N /\ N \in 0 .. N
      /\ \A n \in 1 .. N : n - 1 \in 0 .. N /\ n \in 0 .. N /\ 1 .. n = (1 .. n - 1) \union {n}
  BY <1>1
<1>3. \A n \in 1 .. N : GoodWalk(cs(n), rs(n), PartsOf(ss[n], P))
  BY <1>1, StatementIsGood
<1>4. /\ \A n \in 1 .. N, c \in Checks : cs(n)[c] = O(n, c)
      /\ \A n \in 1 .. N, r \in Runs : rs(n)[r] = Q(n, r)
  BY DEF CheckOf, RunOf
<1>5. \A n \in 1 .. N, c \in Checks : O(n, c) \in Checks
  <2> TAKE n \in 1 .. N, c \in Checks
  <2>1. cs(n) \in [Checks -> Checks]
    BY <1>3 DEF GoodWalk
  <2> HIDE DEF cs, O
  <2> QED  BY <1>4, <2>1
<1>6. \A n \in 1 .. N, r \in Runs : Q(n, r) \in SUBSET Runs
  <2> TAKE n \in 1 .. N, r \in Runs
  <2>1. rs(n) \in [Runs -> SUBSET Runs]
    BY <1>3 DEF GoodWalk
  <2> HIDE DEF rs, Q
  <2> QED  BY <1>4, <2>1
<1>7. ASSUME NEW c \in Checks PROVE CheckingFrom(ss, c, C, c1[c])
  <2>1. \E F : CheckingFrom(ss, c, C, F)
    <3>1. \A i \in 1 .. Len(ss), x \in Checks : Check(ss[i], x, C) \in Checks
      BY <1>5
    <3> QED  BY <1>1, <3>1, CheckBodyUnfolds
  <2>2. c1[c] = CHOOSE F : CheckingFrom(ss, c, C, F)
    OBVIOUS
  <2> HIDE DEF c1
  <2> QED  BY <2>1, <2>2
<1>8. ASSUME NEW r \in Runs PROVE RunningFrom(ss, r, R, r1[r])
  <2>1. \E F : RunningFrom(ss, r, R, F)
    <3>1. \A i \in 1 .. Len(ss), x \in Runs : Run(ss[i], x, R) \in SUBSET Runs
      BY <1>6
    <3> QED  BY <1>1, <3>1, RunBodyUnfolds
  <2>2. r1[r] = CHOOSE F : RunningFrom(ss, r, R, F)
    OBVIOUS
  <2> HIDE DEF r1
  <2> QED  BY <2>1, <2>2
<1> HIDE DEF c1, r1, cs, rs, O, Q
<1> DEFINE A == {n \in 0 .. N : GoodWalk(f(n), g(n), p(n))}
<1>9. 0 \in A
  <2>1. f(0) = [c \in Checks |-> c]
    BY <1>7 DEF CheckingFrom
  <2>2. g(0) = [r \in Runs |-> {r}]
    BY <1>8 DEF RunningFrom
  <2>3. p(0) = {}
    OBVIOUS
  <2> HIDE DEF f, g, p
  <2> QED  BY <1>2, <2>1, <2>2, <2>3, NothingIsGood
<1>10. ASSUME NEW n \in 1 .. N, n - 1 \in A
       PROVE  n \in A
  <2>1. f(n) = [c \in Checks |-> cs(n)[f(n - 1)[c]]]
    <3>1. ASSUME NEW c \in Checks PROVE c1[c][n] = cs(n)[c1[c][n - 1]]
      <4>1. c1[c][n - 1] \in Checks /\ c1[c][n] = O(n, c1[c][n - 1])
        BY <1>2, <1>7 DEF CheckingFrom, O
      <4> QED  BY <1>4, <4>1
    <3> QED  BY <3>1
  <2>2. g(n) = [r \in Runs |-> UNION {rs(n)[x] : x \in g(n - 1)[r]}]
    <3>1. ASSUME NEW r \in Runs PROVE r1[r][n] = UNION {rs(n)[x] : x \in r1[r][n - 1]}
      <4>1. r1[r][n - 1] \in SUBSET Runs /\ r1[r][n] = UNION {Q(n, x) : x \in r1[r][n - 1]}
        BY <1>2, <1>8 DEF RunningFrom, Q
      <4>2. \A x \in r1[r][n - 1] : rs(n)[x] = Q(n, x)
        BY <1>4, <4>1
      <4> QED  BY <4>1, <4>2
    <3> QED  BY <3>1
  <2>3. p(n) = p(n - 1) \union PartsOf(ss[n], P)
    BY <1>2
  <2>4. GoodWalk(f(n - 1), g(n - 1), p(n - 1))
    BY <1>10
  <2> HIDE DEF f, g, p
  <2>5. GoodWalk([c \in Checks |-> cs(n)[f(n - 1)[c]]],
             [r \in Runs |-> UNION {rs(n)[x] : x \in g(n - 1)[r]}],
             p(n - 1) \union PartsOf(ss[n], P))
    BY <1>3, <2>4, OneAfterTheOther
  <2> QED  BY <1>2, <2>1, <2>2, <2>3, <2>5
<1>11. N \in A
  <2> HIDE DEF A
  <2> QED  BY <1>1, <1>2, <1>9, <1>10, Induction
<1>12. f(N) = [c \in Checks |-> CheckBody(ss, c, C)]
  BY <1>7 DEF CheckingFrom
<1>13. g(N) = [r \in Runs |-> RunBody(ss, r, R)]
  BY <1>8 DEF RunningFrom
<1>14. p(N) = UNION {PartsOf(ss[i], P) : i \in DOMAIN ss}
  BY <1>1
<1>15. GoodWalk(f(N), g(N), p(N))
  BY <1>11
<1> HIDE DEF f, g, p, N
<1> QED  BY <1>12, <1>13, <1>14, <1>15

(* At every depth.                                                           *)
LEMMA EveryBodyIsGood ==
    \A n \in 0 .. MaxDepth : AllGood(Body[n], CheckSeq[n], RunSeq[n], Parts[n])
<1> DEFINE N == MaxDepth
           A == {n \in 0 .. N : AllGood(Body[n], CheckSeq[n], RunSeq[n], Parts[n])}
<1>1. N \in Nat /\ 0 \in 0 .. N /\ \A n \in 1 .. N : n \in 0 .. N
  BY MovedAssumption
<1>2. 0 \in A
  <2>1. ASSUME NEW ss \in Body[0]
        PROVE  GoodWalk(CheckSeq[0][ss], RunSeq[0][ss], Parts[0][ss])
    <3>1. /\ CheckSeq[0][ss] = [c \in Checks |-> c]
          /\ RunSeq[0][ss] = [r \in Runs |-> {r}]
          /\ Parts[0][ss] = {}
      BY CheckSeqUnfolds, RunSeqUnfolds, PartsUnfolds
    <3> QED  BY <3>1, NothingIsGood
  <2> QED  BY <1>1, <2>1 DEF AllGood
<1>3. ASSUME NEW n \in 1 .. N, n - 1 \in A
      PROVE  n \in A
  <2>1. AllGood(Body[n - 1], CheckSeq[n - 1], RunSeq[n - 1], Parts[n - 1])
    BY <1>3
  <2>2. ASSUME NEW ss \in Body[n]
        PROVE  GoodWalk(CheckSeq[n][ss], RunSeq[n][ss], Parts[n][ss])
    <3>1. CheckSeq[n][ss] = [c \in Checks |-> CheckBody(ss, c, CheckSeq[n - 1])]
      BY CheckSeqUnfolds
    <3>2. RunSeq[n][ss] = [r \in Runs |-> RunBody(ss, r, RunSeq[n - 1])]
      BY RunSeqUnfolds
    <3>3. Parts[n][ss] = UNION {PartsOf(ss[i], Parts[n - 1]) : i \in DOMAIN ss}
      BY PartsUnfolds
    <3>4. ss \in Seq(Statement(Body[n - 1]))
      BY BodyUnfolds
    <3>5. GoodWalk([c \in Checks |-> CheckBody(ss, c, CheckSeq[n - 1])],
               [r \in Runs |-> RunBody(ss, r, RunSeq[n - 1])],
               UNION {PartsOf(ss[i], Parts[n - 1]) : i \in DOMAIN ss})
      BY <2>1, <3>4, BodyIsGood
    <3> QED  BY <3>1, <3>2, <3>3, <3>5
  <2> QED  BY <1>1, <2>2 DEF AllGood
<1> HIDE DEF A
<1>4. \A n \in 0 .. N : n \in A
  BY <1>1, <1>2, <1>3, Induction
<1> QED  BY <1>4 DEF A

(* What a function is, and what the check said of it.                        *)
MovedInv ==
    /\ function \in Body[MaxDepth]
    /\ verdict \in {"none", "accepted", "refused"}
    /\ LET end == CheckSeq[MaxDepth][function][[moved |-> {}, refused |-> FALSE]]
       IN  /\ verdict = "accepted" => ~end.refused
           /\ verdict = "refused" => end.refused
    /\ verdict # "none" =>
           (faulty <=> \E end \in RunSeq[MaxDepth][function][Start] : end.used)

LEMMA CheckedExactly == MovedInv => CheckIsExact
<1> DEFINE c == [moved |-> {}, refused |-> FALSE]
           f == CheckSeq[MaxDepth][function]
           g == RunSeq[MaxDepth][function]
           parts == Parts[MaxDepth][function]
<1> SUFFICES ASSUME MovedInv, Seen(parts)
             PROVE  /\ verdict = "accepted" => ~faulty
                    /\ verdict = "refused" /\ NoMore(parts) => faulty
  BY DEF CheckIsExact
<1>1. GoodWalk(f, g, parts)
  <2>1. MaxDepth \in 0 .. MaxDepth
    BY MovedAssumption
  <2> QED  BY <2>1, EveryBodyIsGood DEF AllGood, MovedInv
<1>2. c \in Checks /\ ~c.refused /\ c.moved = {}
  BY DEF Checks
<1>3. Start \in Runs /\ ~Start.used /\ ~Start.done /\ Start.moved = {}
  BY DEF Start, Runs
<1> HIDE DEF c, f, g, parts
<1>4. ASSUME verdict = "accepted" PROVE ~faulty
  <2>1. ~f[c].refused /\ (faulty <=> \E end \in g[Start] : end.used)
    BY <1>4 DEF MovedInv, c, f, g
  <2>2. SoundWalk(f, g)
    BY <1>1 DEF GoodWalk
  <2>3. Safe(c, Start)
    BY <1>2, <1>3 DEF Safe
  <2>4. \A x \in g[Start] : Safe(f[c], x)
    BY <1>2, <1>3, <2>1, <2>2, <2>3 DEF SoundWalk
  <2> QED  BY <2>1, <2>4 DEF Safe
<1>5. ASSUME verdict = "refused", NoMore(parts) PROVE faulty
  <2>1. f[c].refused /\ (faulty <=> \E end \in g[Start] : end.used)
    BY <1>5 DEF MovedInv, c, f, g
  <2>2. CompleteWalk(f, g)
    BY <1>1, <1>5 DEF GoodWalk
  <2>3. Live(c, {Start})
    BY <1>2, <1>3 DEF Live, Covers
  <2>4. \E x \in Ends(g, {Start}) : x.used
    BY <1>2, <1>3, <2>1, <2>2, <2>3 DEF CompleteWalk
  <2> QED  BY <2>1, <2>4 DEF Ends
<1> QED  BY <1>4, <1>5

(* check_moved_use accepts no function in which a run uses a moved variable, *)
(* and refuses none in which no run does, where the visitor sees through it. *)
THEOREM MovedCheckIsExact == MovedSpec => []CheckIsExact
<1>1. MovedInit(Body[MaxDepth]) => MovedInv
  BY DEF MovedInit, MovedInv
<1>2. MovedInv /\ [CheckMovedUse]_movedVars => MovedInv'
  <2> SUFFICES ASSUME MovedInv, [CheckMovedUse]_movedVars PROVE MovedInv'
    OBVIOUS
  <2>1. CASE CheckMovedUse
    <3> DEFINE end == CheckSeq[MaxDepth][function][[moved |-> {}, refused |-> FALSE]]
    <3>1. function' = function /\ verdict' = IF end.refused THEN "refused" ELSE "accepted"
      BY <2>1 DEF CheckMovedUse
    <3>2. faulty' = \E x \in RunSeq[MaxDepth][function][Start] : x.used
      BY <2>1 DEF CheckMovedUse
    <3> QED  BY <3>1, <3>2 DEF MovedInv
  <2>2. CASE UNCHANGED movedVars
    BY <2>2 DEF MovedInv, movedVars
  <2> QED  BY <2>1, <2>2
<1>3. MovedInv => CheckIsExact
  BY CheckedExactly
<1> QED  BY <1>1, <1>2, <1>3, PTL DEF MovedSpec

(***************************************************************************)
(* try, with, loops and jumps                                              *)
(*                                                                         *)
(* By induction over the levels of nesting: the code of a clean body,      *)
(* started where the Python program is, arrives where that one arrives,    *)
(* with what a jump runs on its way out logged in advance, and with the    *)
(* flags of the statements around it left alone but for the one a break    *)
(* clears.                                                                 *)
(***************************************************************************)

(* The levels, one after the other: of bodies,                               *)
LEMMA FlowBodyUnfolds ==
    /\ FlowBody[0] = {<<>>}
    /\ \A n \in 1 .. MaxNest :
          FlowBody[n] = Seq(FlowStatement(FlowBody[n - 1]))
<1> DEFINE N == MaxNest
           O(n, v) == IF n = 0 THEN {<<>>} ELSE Seq(FlowStatement(v))
           Unfolds(f, m) == f = [n \in 0 .. m |-> O(n, f[n - 1])]
           A == {m \in 0 .. N : \E f : Unfolds(f, m)}
           F == CHOOSE f : Unfolds(f, N)
<1>1. FlowBody = F
  BY DEF FlowBody
<1>2. N \in Nat /\ \A n \in 1 .. N : n \in 0 .. N /\ n # 0
  BY FlowAssumption
<1>3. \A u, v : O(0, u) = O(0, v)
  OBVIOUS
<1>4. 0 \in 0 .. N /\ N \in 0 .. N
  BY <1>2
<1> HIDE DEF O, N, Unfolds
<1>5. 0 \in A
  <2>1. Unfolds([n \in 0 .. 0 |-> O(0, 0)], 0)
    BY <1>3 DEF Unfolds
  <2> QED  BY <1>4, <2>1
<1>6. ASSUME NEW m \in 1 .. N, m - 1 \in A
      PROVE  m \in A
  <2>1. m - 1 \in 0 .. N /\ m \in 0 .. N /\ m # 0 /\ m \in Int
    BY <1>2, <1>6
  <2>2. PICK g : Unfolds(g, m - 1)
    BY <1>6
  <2> DEFINE f == [n \in 0 .. m |-> IF n = m THEN O(m, g[m - 1]) ELSE g[n]]
  <2>3. ASSUME NEW n \in 0 .. m
        PROVE  f[n] = O(n, f[n - 1])
    <3>1. CASE n = m
      <4>1. f[n] = O(m, g[m - 1]) /\ f[n - 1] = g[m - 1]
        BY <2>1, <3>1
      <4> QED  BY <3>1, <4>1
    <3>2. CASE n # m
      <4>1. n \in 0 .. m - 1 /\ (n # 0 => n - 1 \in 0 .. m - 1)
        BY <2>1, <3>2
      <4>2. g[n] = O(n, g[n - 1])
        BY <2>2, <4>1 DEF Unfolds
      <4>3. f[n] = g[n] /\ (n # 0 => f[n - 1] = g[n - 1])
        BY <2>1, <3>2, <4>1
      <4> HIDE DEF f
      <4> QED  BY <1>3, <4>2, <4>3
    <3> QED  BY <3>1, <3>2
  <2>4. Unfolds(f, m)
    <3>1. f = [n \in 0 .. m |-> f[n]]
      OBVIOUS
    <3> HIDE DEF f
    <3> QED  BY <2>3, <3>1 DEF Unfolds
  <2> QED  BY <2>1, <2>4
<1>7. N \in A
  <2> HIDE DEF A
  <2> QED  BY <1>2, <1>4, <1>5, <1>6, Induction
<1>8. Unfolds(F, N)
  BY <1>7
<1> HIDE DEF F
<1>9. \A n \in 0 .. N : F[n] = O(n, F[n - 1])
  BY <1>8 DEF Unfolds
<1>10. FlowBody[0] = {<<>>}
  BY <1>1, <1>4, <1>9 DEF O
<1>11. ASSUME NEW n \in 1 .. N
       PROVE  FlowBody[n] = Seq(FlowStatement(FlowBody[n - 1]))
  BY <1>1, <1>2, <1>9 DEF O
<1> QED  BY <1>10, <1>11 DEF N

(* the levels of C++ code,                                                   *)
LEMMA CodeUnfolds ==
    /\ Code[0] = {<<>>}
    /\ \A n \in 1 .. MaxNest + 1 :
          Code[n] = Seq(CodeStatement(Code[n - 1]))
<1> DEFINE N == MaxNest + 1
           O(n, v) == IF n = 0 THEN {<<>>} ELSE Seq(CodeStatement(v))
           Unfolds(f, m) == f = [n \in 0 .. m |-> O(n, f[n - 1])]
           A == {m \in 0 .. N : \E f : Unfolds(f, m)}
           F == CHOOSE f : Unfolds(f, N)
<1>1. Code = F
  BY DEF Code
<1>2. N \in Nat /\ \A n \in 1 .. N : n \in 0 .. N /\ n # 0
  BY FlowAssumption
<1>3. \A u, v : O(0, u) = O(0, v)
  OBVIOUS
<1>4. 0 \in 0 .. N /\ N \in 0 .. N
  BY <1>2
<1> HIDE DEF O, N, Unfolds
<1>5. 0 \in A
  <2>1. Unfolds([n \in 0 .. 0 |-> O(0, 0)], 0)
    BY <1>3 DEF Unfolds
  <2> QED  BY <1>4, <2>1
<1>6. ASSUME NEW m \in 1 .. N, m - 1 \in A
      PROVE  m \in A
  <2>1. m - 1 \in 0 .. N /\ m \in 0 .. N /\ m # 0 /\ m \in Int
    BY <1>2, <1>6
  <2>2. PICK g : Unfolds(g, m - 1)
    BY <1>6
  <2> DEFINE f == [n \in 0 .. m |-> IF n = m THEN O(m, g[m - 1]) ELSE g[n]]
  <2>3. ASSUME NEW n \in 0 .. m
        PROVE  f[n] = O(n, f[n - 1])
    <3>1. CASE n = m
      <4>1. f[n] = O(m, g[m - 1]) /\ f[n - 1] = g[m - 1]
        BY <2>1, <3>1
      <4> QED  BY <3>1, <4>1
    <3>2. CASE n # m
      <4>1. n \in 0 .. m - 1 /\ (n # 0 => n - 1 \in 0 .. m - 1)
        BY <2>1, <3>2
      <4>2. g[n] = O(n, g[n - 1])
        BY <2>2, <4>1 DEF Unfolds
      <4>3. f[n] = g[n] /\ (n # 0 => f[n - 1] = g[n - 1])
        BY <2>1, <3>2, <4>1
      <4> HIDE DEF f
      <4> QED  BY <1>3, <4>2, <4>3
    <3> QED  BY <3>1, <3>2
  <2>4. Unfolds(f, m)
    <3>1. f = [n \in 0 .. m |-> f[n]]
      OBVIOUS
    <3> HIDE DEF f
    <3> QED  BY <2>3, <3>1 DEF Unfolds
  <2> QED  BY <2>1, <2>4
<1>7. N \in A
  <2> HIDE DEF A
  <2> QED  BY <1>2, <1>4, <1>5, <1>6, Induction
<1>8. Unfolds(F, N)
  BY <1>7
<1> HIDE DEF F
<1>9. \A n \in 0 .. N : F[n] = O(n, F[n - 1])
  BY <1>8 DEF Unfolds
<1>10. Code[0] = {<<>>}
  BY <1>1, <1>4, <1>9 DEF O
<1>11. ASSUME NEW n \in 1 .. N
       PROVE  Code[n] = Seq(CodeStatement(Code[n - 1]))
  BY <1>1, <1>2, <1>9 DEF O
<1> QED  BY <1>10, <1>11 DEF N

(* what the reference does at each of them,                                  *)
LEMMA PySeqUnfolds ==
    /\ PySeq[0] = [ss \in FlowBody[0] |-> [r \in Result |-> r]]
    /\ \A n \in 1 .. MaxNest :
          PySeq[n] = [ss \in FlowBody[n] |-> [r \in Result |->
                    PyBody(ss, r, PySeq[n - 1])]]
<1> DEFINE N == MaxNest
           O(n, v) == [ss \in FlowBody[n] |-> [r \in Result |->
                       IF n = 0 THEN r ELSE PyBody(ss, r, v)]]
           Unfolds(f, m) == f = [n \in 0 .. m |-> O(n, f[n - 1])]
           A == {m \in 0 .. N : \E f : Unfolds(f, m)}
           F == CHOOSE f : Unfolds(f, N)
<1>1. PySeq = F
  BY DEF PySeq
<1>2. N \in Nat /\ \A n \in 1 .. N : n \in 0 .. N /\ n # 0
  BY FlowAssumption
<1>3. \A u, v : O(0, u) = O(0, v)
  OBVIOUS
<1>4. 0 \in 0 .. N /\ N \in 0 .. N
  BY <1>2
<1> HIDE DEF O, N, Unfolds
<1>5. 0 \in A
  <2>1. Unfolds([n \in 0 .. 0 |-> O(0, 0)], 0)
    BY <1>3 DEF Unfolds
  <2> QED  BY <1>4, <2>1
<1>6. ASSUME NEW m \in 1 .. N, m - 1 \in A
      PROVE  m \in A
  <2>1. m - 1 \in 0 .. N /\ m \in 0 .. N /\ m # 0 /\ m \in Int
    BY <1>2, <1>6
  <2>2. PICK g : Unfolds(g, m - 1)
    BY <1>6
  <2> DEFINE f == [n \in 0 .. m |-> IF n = m THEN O(m, g[m - 1]) ELSE g[n]]
  <2>3. ASSUME NEW n \in 0 .. m
        PROVE  f[n] = O(n, f[n - 1])
    <3>1. CASE n = m
      <4>1. f[n] = O(m, g[m - 1]) /\ f[n - 1] = g[m - 1]
        BY <2>1, <3>1
      <4> QED  BY <3>1, <4>1
    <3>2. CASE n # m
      <4>1. n \in 0 .. m - 1 /\ (n # 0 => n - 1 \in 0 .. m - 1)
        BY <2>1, <3>2
      <4>2. g[n] = O(n, g[n - 1])
        BY <2>2, <4>1 DEF Unfolds
      <4>3. f[n] = g[n] /\ (n # 0 => f[n - 1] = g[n - 1])
        BY <2>1, <3>2, <4>1
      <4> HIDE DEF f
      <4> QED  BY <1>3, <4>2, <4>3
    <3> QED  BY <3>1, <3>2
  <2>4. Unfolds(f, m)
    <3>1. f = [n \in 0 .. m |-> f[n]]
      OBVIOUS
    <3> HIDE DEF f
    <3> QED  BY <2>3, <3>1 DEF Unfolds
  <2> QED  BY <2>1, <2>4
<1>7. N \in A
  <2> HIDE DEF A
  <2> QED  BY <1>2, <1>4, <1>5, <1>6, Induction
<1>8. Unfolds(F, N)
  BY <1>7
<1> HIDE DEF F
<1>9. \A n \in 0 .. N : F[n] = O(n, F[n - 1])
  BY <1>8 DEF Unfolds
<1>10. PySeq[0] = [ss \in FlowBody[0] |-> [r \in Result |-> r]]
  BY <1>1, <1>4, <1>9 DEF O
<1>11. ASSUME NEW n \in 1 .. N
       PROVE  PySeq[n] = [ss \in FlowBody[n] |-> [r \in Result |->
                    PyBody(ss, r, PySeq[n - 1])]]
  BY <1>1, <1>2, <1>9 DEF O
<1> QED  BY <1>10, <1>11 DEF N

(* what the translator makes of it,                                          *)
LEMMA LowSeqUnfolds ==
    /\ LowSeq[0] = [ss \in FlowBody[0] |-> [c \in Context |-> <<>>]]
    /\ \A n \in 1 .. MaxNest :
          LowSeq[n] = [ss \in FlowBody[n] |-> [c \in Context |->
                    LowBody(ss, c, LowSeq[n - 1])]]
<1> DEFINE N == MaxNest
           O(n, v) == [ss \in FlowBody[n] |-> [c \in Context |->
                       IF n = 0 THEN <<>> ELSE LowBody(ss, c, v)]]
           Unfolds(f, m) == f = [n \in 0 .. m |-> O(n, f[n - 1])]
           A == {m \in 0 .. N : \E f : Unfolds(f, m)}
           F == CHOOSE f : Unfolds(f, N)
<1>1. LowSeq = F
  BY DEF LowSeq
<1>2. N \in Nat /\ \A n \in 1 .. N : n \in 0 .. N /\ n # 0
  BY FlowAssumption
<1>3. \A u, v : O(0, u) = O(0, v)
  OBVIOUS
<1>4. 0 \in 0 .. N /\ N \in 0 .. N
  BY <1>2
<1> HIDE DEF O, N, Unfolds
<1>5. 0 \in A
  <2>1. Unfolds([n \in 0 .. 0 |-> O(0, 0)], 0)
    BY <1>3 DEF Unfolds
  <2> QED  BY <1>4, <2>1
<1>6. ASSUME NEW m \in 1 .. N, m - 1 \in A
      PROVE  m \in A
  <2>1. m - 1 \in 0 .. N /\ m \in 0 .. N /\ m # 0 /\ m \in Int
    BY <1>2, <1>6
  <2>2. PICK g : Unfolds(g, m - 1)
    BY <1>6
  <2> DEFINE f == [n \in 0 .. m |-> IF n = m THEN O(m, g[m - 1]) ELSE g[n]]
  <2>3. ASSUME NEW n \in 0 .. m
        PROVE  f[n] = O(n, f[n - 1])
    <3>1. CASE n = m
      <4>1. f[n] = O(m, g[m - 1]) /\ f[n - 1] = g[m - 1]
        BY <2>1, <3>1
      <4> QED  BY <3>1, <4>1
    <3>2. CASE n # m
      <4>1. n \in 0 .. m - 1 /\ (n # 0 => n - 1 \in 0 .. m - 1)
        BY <2>1, <3>2
      <4>2. g[n] = O(n, g[n - 1])
        BY <2>2, <4>1 DEF Unfolds
      <4>3. f[n] = g[n] /\ (n # 0 => f[n - 1] = g[n - 1])
        BY <2>1, <3>2, <4>1
      <4> HIDE DEF f
      <4> QED  BY <1>3, <4>2, <4>3
    <3> QED  BY <3>1, <3>2
  <2>4. Unfolds(f, m)
    <3>1. f = [n \in 0 .. m |-> f[n]]
      OBVIOUS
    <3> HIDE DEF f
    <3> QED  BY <2>3, <3>1 DEF Unfolds
  <2> QED  BY <2>1, <2>4
<1>7. N \in A
  <2> HIDE DEF A
  <2> QED  BY <1>2, <1>4, <1>5, <1>6, Induction
<1>8. Unfolds(F, N)
  BY <1>7
<1> HIDE DEF F
<1>9. \A n \in 0 .. N : F[n] = O(n, F[n - 1])
  BY <1>8 DEF Unfolds
<1>10. LowSeq[0] = [ss \in FlowBody[0] |-> [c \in Context |-> <<>>]]
  BY <1>1, <1>4, <1>9 DEF O
<1>11. ASSUME NEW n \in 1 .. N
       PROVE  LowSeq[n] = [ss \in FlowBody[n] |-> [c \in Context |->
                    LowBody(ss, c, LowSeq[n - 1])]]
  BY <1>1, <1>2, <1>9 DEF O
<1> QED  BY <1>10, <1>11 DEF N

(* what the C++ does,                                                        *)
LEMMA CppSeqUnfolds ==
    /\ CppSeq[0] = [code \in Code[0] |-> [st \in Memory |-> st]]
    /\ \A n \in 1 .. MaxNest + 1 :
          CppSeq[n] = [code \in Code[n] |-> [st \in Memory |->
                    CppBody(code, st, CppSeq[n - 1])]]
<1> DEFINE N == MaxNest + 1
           O(n, v) == [code \in Code[n] |-> [st \in Memory |->
                       IF n = 0 THEN st ELSE CppBody(code, st, v)]]
           Unfolds(f, m) == f = [n \in 0 .. m |-> O(n, f[n - 1])]
           A == {m \in 0 .. N : \E f : Unfolds(f, m)}
           F == CHOOSE f : Unfolds(f, N)
<1>1. CppSeq = F
  BY DEF CppSeq
<1>2. N \in Nat /\ \A n \in 1 .. N : n \in 0 .. N /\ n # 0
  BY FlowAssumption
<1>3. \A u, v : O(0, u) = O(0, v)
  OBVIOUS
<1>4. 0 \in 0 .. N /\ N \in 0 .. N
  BY <1>2
<1> HIDE DEF O, N, Unfolds
<1>5. 0 \in A
  <2>1. Unfolds([n \in 0 .. 0 |-> O(0, 0)], 0)
    BY <1>3 DEF Unfolds
  <2> QED  BY <1>4, <2>1
<1>6. ASSUME NEW m \in 1 .. N, m - 1 \in A
      PROVE  m \in A
  <2>1. m - 1 \in 0 .. N /\ m \in 0 .. N /\ m # 0 /\ m \in Int
    BY <1>2, <1>6
  <2>2. PICK g : Unfolds(g, m - 1)
    BY <1>6
  <2> DEFINE f == [n \in 0 .. m |-> IF n = m THEN O(m, g[m - 1]) ELSE g[n]]
  <2>3. ASSUME NEW n \in 0 .. m
        PROVE  f[n] = O(n, f[n - 1])
    <3>1. CASE n = m
      <4>1. f[n] = O(m, g[m - 1]) /\ f[n - 1] = g[m - 1]
        BY <2>1, <3>1
      <4> QED  BY <3>1, <4>1
    <3>2. CASE n # m
      <4>1. n \in 0 .. m - 1 /\ (n # 0 => n - 1 \in 0 .. m - 1)
        BY <2>1, <3>2
      <4>2. g[n] = O(n, g[n - 1])
        BY <2>2, <4>1 DEF Unfolds
      <4>3. f[n] = g[n] /\ (n # 0 => f[n - 1] = g[n - 1])
        BY <2>1, <3>2, <4>1
      <4> HIDE DEF f
      <4> QED  BY <1>3, <4>2, <4>3
    <3> QED  BY <3>1, <3>2
  <2>4. Unfolds(f, m)
    <3>1. f = [n \in 0 .. m |-> f[n]]
      OBVIOUS
    <3> HIDE DEF f
    <3> QED  BY <2>3, <3>1 DEF Unfolds
  <2> QED  BY <2>1, <2>4
<1>7. N \in A
  <2> HIDE DEF A
  <2> QED  BY <1>2, <1>4, <1>5, <1>6, Induction
<1>8. Unfolds(F, N)
  BY <1>7
<1> HIDE DEF F
<1>9. \A n \in 0 .. N : F[n] = O(n, F[n - 1])
  BY <1>8 DEF Unfolds
<1>10. CppSeq[0] = [code \in Code[0] |-> [st \in Memory |-> st]]
  BY <1>1, <1>4, <1>9 DEF O
<1>11. ASSUME NEW n \in 1 .. N
       PROVE  CppSeq[n] = [code \in Code[n] |-> [st \in Memory |->
                    CppBody(code, st, CppSeq[n - 1])]]
  BY <1>1, <1>2, <1>9 DEF O
<1> QED  BY <1>10, <1>11 DEF N

(* and which bodies are clean there.                                         *)
LEMMA CleanSeqUnfolds ==
    /\ CleanSeq[0] = [ss \in FlowBody[0] |-> [a \in Place |-> TRUE]]
    /\ \A n \in 1 .. MaxNest :
          CleanSeq[n] = [ss \in FlowBody[n] |-> [a \in Place |->
                    \A i \in DOMAIN ss : CleanStmt(ss[i], a, CleanSeq[n - 1])]]
<1> DEFINE N == MaxNest
           O(n, v) == [ss \in FlowBody[n] |-> [a \in Place |->
                       IF n = 0 THEN TRUE ELSE \A i \in DOMAIN ss : CleanStmt(ss[i], a, v)]]
           Unfolds(f, m) == f = [n \in 0 .. m |-> O(n, f[n - 1])]
           A == {m \in 0 .. N : \E f : Unfolds(f, m)}
           F == CHOOSE f : Unfolds(f, N)
<1>1. CleanSeq = F
  BY DEF CleanSeq
<1>2. N \in Nat /\ \A n \in 1 .. N : n \in 0 .. N /\ n # 0
  BY FlowAssumption
<1>3. \A u, v : O(0, u) = O(0, v)
  OBVIOUS
<1>4. 0 \in 0 .. N /\ N \in 0 .. N
  BY <1>2
<1> HIDE DEF O, N, Unfolds
<1>5. 0 \in A
  <2>1. Unfolds([n \in 0 .. 0 |-> O(0, 0)], 0)
    BY <1>3 DEF Unfolds
  <2> QED  BY <1>4, <2>1
<1>6. ASSUME NEW m \in 1 .. N, m - 1 \in A
      PROVE  m \in A
  <2>1. m - 1 \in 0 .. N /\ m \in 0 .. N /\ m # 0 /\ m \in Int
    BY <1>2, <1>6
  <2>2. PICK g : Unfolds(g, m - 1)
    BY <1>6
  <2> DEFINE f == [n \in 0 .. m |-> IF n = m THEN O(m, g[m - 1]) ELSE g[n]]
  <2>3. ASSUME NEW n \in 0 .. m
        PROVE  f[n] = O(n, f[n - 1])
    <3>1. CASE n = m
      <4>1. f[n] = O(m, g[m - 1]) /\ f[n - 1] = g[m - 1]
        BY <2>1, <3>1
      <4> QED  BY <3>1, <4>1
    <3>2. CASE n # m
      <4>1. n \in 0 .. m - 1 /\ (n # 0 => n - 1 \in 0 .. m - 1)
        BY <2>1, <3>2
      <4>2. g[n] = O(n, g[n - 1])
        BY <2>2, <4>1 DEF Unfolds
      <4>3. f[n] = g[n] /\ (n # 0 => f[n - 1] = g[n - 1])
        BY <2>1, <3>2, <4>1
      <4> HIDE DEF f
      <4> QED  BY <1>3, <4>2, <4>3
    <3> QED  BY <3>1, <3>2
  <2>4. Unfolds(f, m)
    <3>1. f = [n \in 0 .. m |-> f[n]]
      OBVIOUS
    <3> HIDE DEF f
    <3> QED  BY <2>3, <3>1 DEF Unfolds
  <2> QED  BY <2>1, <2>4
<1>7. N \in A
  <2> HIDE DEF A
  <2> QED  BY <1>2, <1>4, <1>5, <1>6, Induction
<1>8. Unfolds(F, N)
  BY <1>7
<1> HIDE DEF F
<1>9. \A n \in 0 .. N : F[n] = O(n, F[n - 1])
  BY <1>8 DEF Unfolds
<1>10. CleanSeq[0] = [ss \in FlowBody[0] |-> [a \in Place |-> TRUE]]
  BY <1>1, <1>4, <1>9 DEF O
<1>11. ASSUME NEW n \in 1 .. N
       PROVE  CleanSeq[n] = [ss \in FlowBody[n] |-> [a \in Place |->
                    \A i \in DOMAIN ss : CleanStmt(ss[i], a, CleanSeq[n - 1])]]
  <2>1. n # 0 /\ CleanSeq[n] = O(n, CleanSeq[n - 1])
    BY <1>1, <1>2, <1>9
  <2> QED  BY <2>1, Zenon DEF O
<1> QED  BY <1>10, <1>11 DEF N

(* The states of a chain of steps.                                           *)
ChainRuns(T, steps, st, F) ==
    /\ F \in [0 .. Len(steps) -> T]
    /\ F[0] = st
    /\ \A n \in 1 .. Len(steps) :
          F[n] = IF F[n - 1].out = "normal" THEN steps[n][F[n - 1]] ELSE F[n - 1]
    /\ Chain(steps, st) = F[Len(steps)]

(* A chain of steps goes through one state after another, each the step's    *)
(* from the last one unless that one has ended otherwise.                    *)
LEMMA ChainUnfolds ==
    ASSUME NEW T, NEW steps \in Seq([T -> T]), NEW st \in T
    PROVE  \E F : ChainRuns(T, steps, st, F)
<1> DEFINE N == Len(steps)
           O(n, v) == IF v.out = "normal" THEN steps[n][v] ELSE v
           Unfolds(f) == f = [n \in 0 .. N |-> IF n = 0 THEN st ELSE O(n, f[n - 1])]
<1>1. Chain(steps, st) = (CHOOSE f : Unfolds(f))[N]
  BY DEF Chain
<1>2. N \in Nat /\ \A n \in 1 .. N : steps[n] \in [T -> T]
  OBVIOUS
<1>3. \A n \in 1 .. N : \A v \in T : O(n, v) \in T
  BY <1>2
<1>4. 0 \in 0 .. N /\ \A n \in 1 .. N : n - 1 \in 0 .. N /\ n \in 0 .. N /\ n # 0
  BY <1>2
<1> HIDE DEF O, N
<1>5. \E f : Unfolds(f)
  <2> DEFINE S == [n \in 0 .. N |-> T]
             G == [n \in 1 .. N |-> [v \in T |-> O(n, v)]]
  <2>1. \A n \in 0 .. N : S[n] = T
    OBVIOUS
  <2>2. \A n \in 1 .. N : \A v \in T : G[n][v] = O(n, v)
    OBVIOUS
  <2> HIDE DEF S, G
  <2>3. PICK f : /\ Unrolls(f, N, st, G)
                 /\ \A n \in 0 .. N : f[n] \in S[n]
    <3>1. \A n \in 1 .. N : \A v \in S[n - 1] : G[n][v] \in S[n]
      BY <1>3, <1>4, <2>1, <2>2
    <3>2. st \in S[0]
      BY <1>4, <2>1
    <3> QED  BY <1>2, <3>1, <3>2, Recursion
  <2>4. \A n \in 0 .. N : n # 0 => n \in 1 .. N /\ G[n][f[n - 1]] = O(n, f[n - 1])
    BY <1>2, <1>4, <2>1, <2>2, <2>3
  <2>5. f = [n \in 0 .. N |-> IF n = 0 THEN st ELSE O(n, f[n - 1])]
    BY <2>3, <2>4 DEF Unrolls
  <2> QED  BY <2>5
<1> DEFINE F == CHOOSE u : Unfolds(u)
<1>6. Unfolds(F)
  <2> HIDE DEF Unfolds
  <2> QED  BY <1>5
<1> HIDE DEF F
<1>7. F[0] = st /\ \A n \in 1 .. N : F[n] = O(n, F[n - 1])
  <2>1. F[0] = st
    BY <1>4, <1>6
  <2>2. ASSUME NEW n \in 1 .. N PROVE F[n] = O(n, F[n - 1])
    BY <1>4, <1>6
  <2> QED  BY <2>1, <2>2
<1>8. \A n \in 0 .. N : F[n] \in T
  <2> DEFINE A == {n \in 0 .. N : F[n] \in T}
  <2>1. 0 \in A /\ \A n \in 1 .. N : n - 1 \in A => n \in A
    BY <1>3, <1>4, <1>7
  <2>2. \A n \in 0 .. N : n \in A
    <3> HIDE DEF A
    <3> QED  BY <1>2, <2>1, Induction
  <2> QED  BY <2>2
<1>9. F \in [0 .. N -> T]
  BY <1>6, <1>8
<1> QED  BY <1>1, <1>7, <1>9 DEF ChainRuns, F, N, O

(* No step is taken from what has ended otherwise.                           *)
LEMMA ChainStops ==
    ASSUME NEW T, NEW steps \in Seq([T -> T]), NEW st \in T, st.out # "normal"
    PROVE  Chain(steps, st) = st
<1>1. PICK F : ChainRuns(T, steps, st, F)
  BY ChainUnfolds
<1> DEFINE N == Len(steps)
           A == {n \in 0 .. N : F[n] = st}
<1>2. N \in Nat /\ 0 \in 0 .. N /\ N \in 0 .. N /\ \A n \in 1 .. N : n \in 0 .. N
  OBVIOUS
<1>3. 0 \in A /\ \A n \in 1 .. N : n - 1 \in A => n \in A
  BY <1>1, <1>2 DEF ChainRuns
<1> HIDE DEF A
<1>4. N \in A
  BY <1>2, <1>3, Induction
<1> QED  BY <1>1, <1>4 DEF ChainRuns, A

(* No steps change nothing,                                                  *)
LEMMA ChainOfNone ==
    ASSUME NEW T, NEW st \in T
    PROVE  Chain(<<>>, st) = st
<1>1. PICK F : ChainRuns(T, <<>>, st, F)
  BY ChainUnfolds, EmptySeq
<1> QED  BY <1>1, EmptySeq DEF ChainRuns

(* and one step does what it does.                                           *)
LEMMA ChainOfOne ==
    ASSUME NEW T, NEW g \in [T -> T], NEW st \in T, st.out = "normal"
    PROVE  Chain(<<g>>, st) = g[st]
<1>1. <<g>> \in Seq([T -> T]) /\ Len(<<g>>) = 1 /\ <<g>>[1] = g
  OBVIOUS
<1>2. PICK F : ChainRuns(T, <<g>>, st, F)
  BY <1>1, ChainUnfolds
<1>3. F[1] = g[F[0]] /\ F[0] = st
  <2>1. 1 \in 1 .. Len(<<g>>) /\ 1 - 1 = 0
    BY <1>1
  <2> QED  BY <1>1, <1>2, <2>1 DEF ChainRuns
<1> QED  BY <1>1, <1>2, <1>3 DEF ChainRuns

(* A chain of typed steps ends in a state.                                   *)
LEMMA ChainIsTyped ==
    ASSUME NEW T, NEW steps \in Seq([T -> T]), NEW st \in T
    PROVE  Chain(steps, st) \in T
<1>1. PICK F : ChainRuns(T, steps, st, F)
  BY ChainUnfolds
<1> QED  BY <1>1 DEF ChainRuns

(* One chain after another.                                                  *)
LEMMA ChainOfTwo ==
    ASSUME NEW T, NEW G, G = [T -> T], NEW s1 \in Seq(G), NEW s2 \in Seq(G), NEW st \in T
    PROVE  Chain(s1 \o s2, st) = Chain(s2, Chain(s1, st))
<1>0. s1 \in Seq([T -> T]) /\ s2 \in Seq([T -> T])
  OBVIOUS
<1> DEFINE N == Len(s1)
           M == Len(s2)
           u == s1 \o s2
<1>1. /\ N \in Nat /\ M \in Nat
      /\ u \in Seq([T -> T]) /\ Len(u) = N + M
      /\ \A n \in 1 .. N : u[n] = s1[n] /\ n \in 1 .. N + M
      /\ \A n \in 1 .. M : u[N + n] = s2[n] /\ N + n \in 1 .. N + M
  <2>1. N \in Nat /\ M \in Nat
    OBVIOUS
  <2>2. \A n \in 1 .. N + M : u[n] = IF n <= N THEN s1[n] ELSE s2[n - N]
    BY ConcatProperties
  <2>3. u \in Seq([T -> T]) /\ Len(u) = N + M
    BY ConcatProperties
  <2> HIDE DEF u, N, M
  <2>4. \A n \in 1 .. N : u[n] = s1[n] /\ n \in 1 .. N + M
    BY <2>1, <2>2
  <2>5. \A n \in 1 .. M : u[N + n] = s2[n] /\ N + n \in 1 .. N + M
    BY <2>1, <2>2
  <2> QED  BY <2>1, <2>3, <2>4, <2>5
<1>2. PICK F : ChainRuns(T, u, st, F)
  BY <1>1, ChainUnfolds
<1>3. PICK F1 : ChainRuns(T, s1, st, F1)
  BY ChainUnfolds
<1>4. Chain(s1, st) = F1[N] /\ F1[N] \in T
  BY <1>1, <1>3 DEF ChainRuns
<1>5. PICK F2 : ChainRuns(T, s2, F1[N], F2)
  BY <1>4, ChainUnfolds
<1> HIDE DEF u, N, M
<1> DEFINE A == {n \in 0 .. N : F[n] = F1[n]}
           B == {n \in 0 .. M : F[N + n] = F2[n]}
<1>6. N \in A
  <2>1. 0 \in 0 .. N /\ N \in 0 .. N /\ \A n \in 1 .. N : n \in 0 .. N
    BY <1>1
  <2>2. 0 \in A
    BY <1>2, <1>3, <2>1 DEF ChainRuns
  <2>3. ASSUME NEW n \in 1 .. N, n - 1 \in A PROVE n \in A
    <3>1. F1[n] = IF F1[n - 1].out = "normal" THEN s1[n][F1[n - 1]] ELSE F1[n - 1]
      BY <1>3 DEF ChainRuns, N
    <3>2. F[n] = IF F[n - 1].out = "normal" THEN s1[n][F[n - 1]] ELSE F[n - 1]
      BY <1>1, <1>2 DEF ChainRuns
    <3> QED  BY <2>1, <2>3, <3>1, <3>2
  <2> HIDE DEF A
  <2> QED  BY <1>1, <2>1, <2>2, <2>3, Induction
<1>7. M \in B
  <2>1. 0 \in 0 .. M /\ M \in 0 .. M /\ N + 0 = N
        /\ \A n \in 1 .. M : n \in 0 .. M /\ (N + n) - 1 = N + (n - 1)
    BY <1>1
  <2>2. 0 \in B
    BY <1>5, <1>6, <2>1 DEF ChainRuns
  <2>3. ASSUME NEW n \in 1 .. M, n - 1 \in B PROVE n \in B
    <3>1. F2[n] = IF F2[n - 1].out = "normal" THEN s2[n][F2[n - 1]] ELSE F2[n - 1]
      BY <1>5 DEF ChainRuns, M
    <3>2. F[N + n] = IF F[N + (n - 1)].out = "normal" THEN s2[n][F[N + (n - 1)]]
                     ELSE F[N + (n - 1)]
      BY <1>1, <1>2, <2>1 DEF ChainRuns
    <3> QED  BY <2>1, <2>3, <3>1, <3>2
  <2> HIDE DEF B
  <2> QED  BY <1>1, <2>1, <2>2, <2>3, Induction
<1>8. Chain(u, st) = F[N + M] /\ Chain(s2, F1[N]) = F2[M]
  BY <1>1, <1>2, <1>5 DEF ChainRuns, M
<1> QED  BY <1>4, <1>7, <1>8 DEF u

(* The first of the handlers that fit.                                       *)
LEMMA FirstIsLeast ==
    ASSUME NEW fit \in SUBSET Nat, fit # {}
    PROVE  First(fit) \in fit /\ \A j \in fit : First(fit) <= j
<1>1. \E i \in fit : \A j \in fit : i <= j
  BY Least
<1> QED  BY <1>1 DEF First

(* There is only one first of them.                                          *)
LEMMA FirstIsUnique ==
    ASSUME NEW fit \in SUBSET Nat, NEW i \in fit, \A j \in fit : i <= j
    PROVE  First(fit) = i
<1>1. First(fit) \in fit /\ First(fit) <= i
  BY FirstIsLeast
<1>2. First(fit) \in Nat /\ i \in Nat /\ i <= First(fit)
  BY <1>1
<1> QED  BY <1>1, <1>2

(* What the records of the two languages and of their runs are.              *)
LEMMA ResultIs ==
    ASSUME NEW r \in Result
    PROVE  /\ r = [log |-> r.log, out |-> r.out]
           /\ r.log \in Seq(Entry) /\ r.out \in Outcome
BY DEF Result

(* A memory, field by field.                                                 *)
LEMMA MemoryIs ==
    ASSUME NEW st \in Memory
    PROVE  /\ st = [log |-> st.log, out |-> st.out, up |-> st.up, cur |-> st.cur]
           /\ st.log \in Seq(Entry) /\ st.out \in Outcome
           /\ st.up \in SUBSET Nat /\ st.cur \in Exc \union {NoExc}
BY DEF Memory

(* A statement of Python, by its kind.                                       *)
LEMMA FlowStatementIs ==
    ASSUME NEW B, NEW s \in FlowStatement(B)
    PROVE  /\ s.k \in {"log", "raise", "return", "break", "continue", "try", "with", "loop"}
           /\ s.k = "log" => s = [k |-> "log", v |-> s.v] /\ s.v \in Value
           /\ s.k = "raise" => s = [k |-> "raise", e |-> s.e] /\ s.e \in Exc
           /\ s.k = "try" => /\ s.body \in B /\ s.orelse \in B
                             /\ s.handlers \in Seq(HandlerOf(B)) /\ s.final \in Straight
           /\ s.k = "with" => s.m \in Manager /\ s.body \in B
           /\ s.k = "loop" => s.n \in Nat /\ s.body \in B /\ s.orelse \in B
BY DEF FlowStatement, Jumps

(* A statement of the C++, by its kind.                                      *)
LEMMA CodeStatementIs ==
    ASSUME NEW B, NEW s \in CodeStatement(B)
    PROVE  /\ s.k \in {"log", "raise", "return", "break", "continue", "rethrow", "set", "if",
                       "ctry", "cloop"}
           /\ s.k = "log" => s.v \in Entry
           /\ s.k = "raise" => s.e \in Exc
           /\ s.k = "set" => s.f \in Nat /\ s.b \in BOOLEAN
           /\ s.k = "if" => s.f \in Nat /\ s.body \in B
           /\ s.k = "ctry" => s.body \in B /\ s.catches \in Seq(HandlerOf(B))
           /\ s.k = "cloop" => s.n \in Nat /\ s.body \in B
BY DEF CodeStatement, Jumps

(* What takes an exception is one of the handlers.                           *)
LEMMA FitIs ==
    ASSUME NEW B, NEW hs \in Seq(HandlerOf(B)), NEW e
    PROVE  /\ Fit(hs, e) \in SUBSET Nat
           /\ \A i \in Fit(hs, e) : i \in 1 .. Len(hs) /\ hs[i].body \in B
           /\ Fit(hs, e) # {} => First(Fit(hs, e)) \in Fit(hs, e)
<1>1. \A i \in DOMAIN hs : i \in Nat /\ i \in 1 .. Len(hs) /\ hs[i] \in HandlerOf(B)
  OBVIOUS
<1>2. \A i \in DOMAIN hs : hs[i].body \in B
  BY <1>1 DEF HandlerOf
<1>3. Fit(hs, e) \in SUBSET Nat
  BY <1>1 DEF Fit
<1>4. \A i \in Fit(hs, e) : i \in 1 .. Len(hs) /\ hs[i].body \in B
  BY <1>1, <1>2 DEF Fit
<1> QED  BY <1>3, <1>4, FirstIsLeast

(* A loop's rounds: each of them ends normally, by break, by return or by an *)
(* exception.                                                                *)
LEMMA RoundsAreTyped ==
    ASSUME NEW T, NEW f \in [T -> T], NEW n \in Nat,
           \A q \in T : AfterRound(q) \in T
    PROVE  [i \in 1 .. n |-> [q \in T |-> AfterRound(f[q])]] \in Seq([T -> T])
<1>1. [q \in T |-> AfterRound(f[q])] \in [T -> T]
  OBVIOUS
<1> DEFINE g == [q \in T |-> AfterRound(f[q])]
<1> HIDE DEF g
<1> QED  BY <1>1 DEF g

(* The ends of rounds and loops are results,                                 *)
LEMMA AfterResult ==
    \A r \in Result : AfterRound(r) \in Result /\ AfterLoop(r) \in Result
BY DEF AfterRound, AfterLoop, Result, Outcome

(* or memories in the C++.                                                   *)
LEMMA AfterMemory ==
    \A r \in Memory : AfterRound(r) \in Memory /\ AfterLoop(r) \in Memory
BY DEF AfterRound, AfterLoop, Memory, Outcome

(* Both languages stay in their states.                                      *)
LEMMA CppTyped ==
    ASSUME NEW B, NEW walk \in [B -> [Memory -> Memory]], NEW s \in CodeStatement(B),
           NEW st \in Memory
    PROVE  CppStmt(s, st, walk) \in Memory
<1> USE MemoryIs, CodeStatementIs
<1>1. CASE s.k = "log"
  <2>1. CppStmt(s, st, walk) = [st EXCEPT !.log = Append(st.log, s.v)]
    BY <1>1 DEF CppStmt, Jumps
  <2>2. Append(st.log, s.v) \in Seq(Entry)
    BY <1>1
  <2> HIDE DEF CppStmt
  <2> QED  BY <2>1, <2>2 DEF Memory
<1>2. CASE s.k = "raise"
  BY <1>2 DEF CppStmt, Memory, Outcome, Jumps
<1>3. CASE s.k = "rethrow"
  BY <1>3 DEF CppStmt, Memory, Outcome, Jumps
<1>4. CASE s.k \in Jumps
  BY <1>4 DEF CppStmt, Memory, Outcome, Jumps
<1>5. CASE s.k = "set"
  <2>1. CppStmt(s, st, walk)
          = [st EXCEPT !.up = IF s.b THEN st.up \union {s.f} ELSE st.up \ {s.f}]
    BY <1>5 DEF CppStmt, Jumps
  <2> QED  BY <1>5, <2>1 DEF Memory
<1>6. CASE s.k = "if"
  <2>1. walk[s.body][st] \in Memory
    BY <1>6
  <2>2. CppStmt(s, st, walk) = IF s.f \in st.up THEN walk[s.body][st] ELSE st
    BY <1>6 DEF CppStmt, Jumps
  <2> QED  BY <2>1, <2>2
<1>7. CASE s.k = "ctry"
  <2> DEFINE tried == walk[s.body][st]
             fit == Fit(s.catches, tried.out)
             next == [tried EXCEPT !.out = "normal", !.cur = tried.out]
             handled == walk[s.catches[First(fit)].body][next]
  <2>1. tried \in Memory
    BY <1>7
  <2>2. CppStmt(s, st, walk)
          = IF tried.out \notin Exc \/ fit = {} THEN tried ELSE [handled EXCEPT !.cur = st.cur]
    BY <1>7 DEF CppStmt, CppTrying, Jumps
  <2>3. ASSUME tried.out \in Exc, fit # {} PROVE [handled EXCEPT !.cur = st.cur] \in Memory
    <3>1. next \in Memory
      BY <2>1, <2>3 DEF Memory, Outcome
    <3>2. s.catches[First(fit)].body \in B
      BY <1>7, <2>3, FitIs
    <3> HIDE DEF next, fit
    <3>3. handled \in Memory
      BY <3>1, <3>2
    <3> HIDE DEF handled
    <3> QED  BY <3>3 DEF Memory
  <2> HIDE DEF tried, fit, handled
  <2> QED  BY <2>1, <2>2, <2>3
<1>8. CASE s.k = "cloop"
  <2> DEFINE steps == [i \in 1 .. s.n |-> [q \in Memory |-> AfterRound(walk[s.body][q])]]
  <2>1. steps \in Seq([Memory -> Memory])
    BY <1>8, RoundsAreTyped, AfterMemory
  <2> HIDE DEF steps
  <2>2. Chain(steps, st) \in Memory
    BY <2>1, ChainIsTyped
  <2>3. CppStmt(s, st, walk) = AfterLoop(Chain(steps, st))
    BY <1>8 DEF CppStmt, Jumps, steps
  <2> QED  BY <2>2, <2>3, AfterMemory
<1> QED  BY <1>1, <1>2, <1>3, <1>4, <1>5, <1>6, <1>7, <1>8 DEF Jumps

(* The code of a body as a chain.                                            *)
StepsOf(code, walk) == [i \in DOMAIN code |-> [q \in Memory |-> CppStmt(code[i], q, walk)]]

(* Its steps, one for each line.                                             *)
LEMMA StepsAre ==
    ASSUME NEW B, NEW walk \in [B -> [Memory -> Memory]],
           NEW code \in Seq(CodeStatement(B))
    PROVE  /\ StepsOf(code, walk) \in Seq([Memory -> Memory])
           /\ Len(StepsOf(code, walk)) = Len(code)
           /\ \A i \in 1 .. Len(code) :
                 StepsOf(code, walk)[i] = [q \in Memory |-> CppStmt(code[i], q, walk)]
<1> DEFINE G(i) == [q \in Memory |-> CppStmt(code[i], q, walk)]
<1>1. DOMAIN code = 1 .. Len(code) /\ Len(code) \in Nat
  OBVIOUS
<1>2. ASSUME NEW i \in 1 .. Len(code) PROVE G(i) \in [Memory -> Memory]
  <2>1. code[i] \in CodeStatement(B)
    BY <1>1
  <2>2. \A q \in Memory : CppStmt(code[i], q, walk) \in Memory
    BY <2>1, CppTyped
  <2> QED  BY <2>2
<1>3. StepsOf(code, walk) = [i \in 1 .. Len(code) |-> G(i)]
  BY <1>1 DEF StepsOf
<1> HIDE DEF G
<1>4. StepsOf(code, walk) \in Seq([Memory -> Memory]) /\ Len(StepsOf(code, walk)) = Len(code)
  BY <1>1, <1>2, <1>3
<1>5. \A i \in 1 .. Len(code) : StepsOf(code, walk)[i] = G(i)
  BY <1>3
<1> QED  BY <1>4, <1>5 DEF G

(* The steps of a concatenation are those of its parts.                      *)
LEMMA StepsOfTwo ==
    ASSUME NEW B, NEW walk \in [B -> [Memory -> Memory]],
           NEW a \in Seq(CodeStatement(B)), NEW b \in Seq(CodeStatement(B))
    PROVE  StepsOf(a \o b, walk) = StepsOf(a, walk) \o StepsOf(b, walk)
<1> DEFINE S == CodeStatement(B)
           T == [Memory -> Memory]
           u == StepsOf(a, walk)
           v == StepsOf(b, walk)
           w == StepsOf(a \o b, walk)
           G(x) == [q \in Memory |-> CppStmt(x, q, walk)]
<1>1. /\ a \o b \in Seq(S) /\ Len(a \o b) = Len(a) + Len(b)
      /\ \A i \in 1 .. Len(a) + Len(b) :
            (a \o b)[i] = IF i <= Len(a) THEN a[i] ELSE b[i - Len(a)]
  BY ConcatProperties
<1>2. /\ u \in Seq(T) /\ Len(u) = Len(a) /\ \A i \in 1 .. Len(a) : u[i] = G(a[i])
      /\ v \in Seq(T) /\ Len(v) = Len(b) /\ \A i \in 1 .. Len(b) : v[i] = G(b[i])
      /\ w \in Seq(T) /\ Len(w) = Len(a) + Len(b)
      /\ \A i \in 1 .. Len(a) + Len(b) : w[i] = G((a \o b)[i])
  <2>1. a \o b \in Seq(S)
    BY <1>1
  <2>2. ASSUME NEW x \in Seq(S)
        PROVE  /\ StepsOf(x, walk) \in Seq(T) /\ Len(StepsOf(x, walk)) = Len(x)
               /\ \A i \in 1 .. Len(x) : StepsOf(x, walk)[i] = G(x[i])
    BY StepsAre
  <2> HIDE DEF S, T, G
  <2>3. u \in Seq(T) /\ Len(u) = Len(a) /\ \A i \in 1 .. Len(a) : u[i] = G(a[i])
    BY <2>2 DEF S
  <2>4. v \in Seq(T) /\ Len(v) = Len(b) /\ \A i \in 1 .. Len(b) : v[i] = G(b[i])
    BY <2>2 DEF S
  <2>5. w \in Seq(T) /\ Len(w) = Len(a \o b) /\ \A i \in 1 .. Len(a \o b) : w[i] = G((a \o b)[i])
    BY <2>1, <2>2
  <2> HIDE DEF u, v, w
  <2> QED  BY <1>1, <2>3, <2>4, <2>5
<1>3. Len(a) \in Nat /\ Len(b) \in Nat
  OBVIOUS
<1> HIDE DEF u, v, w, G, T
<1>4. /\ u \o v \in Seq(T) /\ Len(u \o v) = Len(a) + Len(b)
      /\ \A i \in 1 .. Len(a) + Len(b) :
            (u \o v)[i] = IF i <= Len(a) THEN u[i] ELSE v[i - Len(a)]
  <2>1. /\ u \o v \in Seq(T) /\ Len(u \o v) = Len(u) + Len(v)
        /\ \A i \in 1 .. Len(u) + Len(v) :
              (u \o v)[i] = IF i <= Len(u) THEN u[i] ELSE v[i - Len(u)]
    <3>1. \A x, y \in Seq(T) :
            /\ x \o y \in Seq(T) /\ Len(x \o y) = Len(x) + Len(y)
            /\ \A i \in 1 .. Len(x) + Len(y) :
                  (x \o y)[i] = IF i <= Len(x) THEN x[i] ELSE y[i - Len(x)]
      BY ConcatProperties
    <3> QED  BY <1>2, <3>1
  <2> QED  BY <1>2, <2>1
<1>5. ASSUME NEW i \in 1 .. Len(a) + Len(b) PROVE w[i] = (u \o v)[i]
  <2>1. CASE i <= Len(a)
    BY <1>1, <1>2, <1>3, <1>4, <2>1
  <2>2. CASE ~(i <= Len(a))
    <3>1. i - Len(a) \in 1 .. Len(b)
      BY <1>3, <2>2
    <3> QED  BY <1>1, <1>2, <1>3, <1>4, <2>2, <3>1
  <2> QED  BY <2>1, <2>2
<1>6. w = u \o v
  BY <1>2, <1>4, <1>5, SeqEqual
<1> QED  BY <1>6 DEF u, v, w

(* How code runs: line by line.                                              *)
LEMMA CodeIsTyped ==
    ASSUME NEW B, NEW walk \in [B -> [Memory -> Memory]],
           NEW code \in Seq(CodeStatement(B)), NEW st \in Memory
    PROVE  /\ CppBody(code, st, walk) \in Memory
           /\ st.out # "normal" => CppBody(code, st, walk) = st
<1>1. StepsOf(code, walk) \in Seq([Memory -> Memory])
  BY StepsAre
<1>2. CppBody(code, st, walk) = Chain(StepsOf(code, walk), st)
  BY DEF CppBody, StepsOf
<1>3. Chain(StepsOf(code, walk), st) \in Memory
  BY <1>1, ChainIsTyped
<1> QED  BY <1>1, <1>2, <1>3, ChainStops

(* No code does nothing,                                                     *)
LEMMA CodeOfNone ==
    ASSUME NEW walk, NEW st \in Memory
    PROVE  CppBody(<<>>, st, walk) = st
<1>1. StepsOf(<<>>, walk) = <<>>
  BY DEF StepsOf
<1>2. CppBody(<<>>, st, walk) = Chain(<<>>, st)
  BY <1>1 DEF CppBody, StepsOf
<1> QED  BY <1>2, ChainOfNone

(* one line does what its statement does,                                    *)
LEMMA CodeOfOne ==
    ASSUME NEW B, NEW walk \in [B -> [Memory -> Memory]], NEW s \in CodeStatement(B),
           NEW st \in Memory, st.out = "normal"
    PROVE  <<s>> \in Seq(CodeStatement(B)) /\ CppBody(<<s>>, st, walk) = CppStmt(s, st, walk)
<1> DEFINE g == [q \in Memory |-> CppStmt(s, q, walk)]
<1>1. g \in [Memory -> Memory] /\ g[st] = CppStmt(s, st, walk)
  BY CppTyped
<1>2. StepsOf(<<s>>, walk) = <<g>>
  BY DEF StepsOf
<1>3. CppBody(<<s>>, st, walk) = Chain(<<g>>, st)
  BY <1>2 DEF CppBody, StepsOf
<1> HIDE DEF g
<1>4. Chain(<<g>>, st) = g[st]
  BY <1>1, ChainOfOne
<1> QED  BY <1>1, <1>3, <1>4

(* and of two pieces the second goes on where the first has ended.           *)
LEMMA CodeOfTwo ==
    ASSUME NEW B, NEW walk \in [B -> [Memory -> Memory]],
           NEW a \in Seq(CodeStatement(B)), NEW b \in Seq(CodeStatement(B)), NEW st \in Memory
    PROVE  /\ a \o b \in Seq(CodeStatement(B))
           /\ CppBody(a \o b, st, walk) = CppBody(b, CppBody(a, st, walk), walk)
<1>1. /\ StepsOf(a, walk) \in Seq([Memory -> Memory])
      /\ StepsOf(b, walk) \in Seq([Memory -> Memory])
      /\ StepsOf(a \o b, walk) = StepsOf(a, walk) \o StepsOf(b, walk)
  BY StepsAre, StepsOfTwo
<1>2. \A c, x : CppBody(c, x, walk) = Chain(StepsOf(c, walk), x)
  BY DEF CppBody, StepsOf
<1>3. Chain(StepsOf(a, walk) \o StepsOf(b, walk), st)
        = Chain(StepsOf(b, walk), Chain(StepsOf(a, walk), st))
  <2> DEFINE u == StepsOf(a, walk)
             v == StepsOf(b, walk)
             G == [Memory -> Memory]
  <2>1. G = [Memory -> Memory] /\ u \in Seq(G) /\ v \in Seq(G)
    BY <1>1
  <2> HIDE DEF u, v, G
  <2>2. Chain(u \o v, st) = Chain(v, Chain(u, st))
    BY <2>1, ChainOfTwo
  <2> QED  BY <2>2 DEF u, v
<1>4. a \o b \in Seq(CodeStatement(B))
  BY ConcatProperties
<1> QED  BY <1>1, <1>2, <1>3, <1>4

(* What straight-line code logs.                                             *)
LogLine == [k : {"log"}, v : Entry]

(* The values that log statements log.                                       *)
Values(ss) == [i \in DOMAIN ss |-> ss[i].v]

(* Sequences put together.                                                   *)
LEMMA Concatenation ==
    ASSUME NEW S
    PROVE  /\ \A a, b \in Seq(S) :
                 /\ a \o b \in Seq(S) /\ Len(a \o b) = Len(a) + Len(b)
                 /\ \A i \in 1 .. Len(a) + Len(b) :
                       (a \o b)[i] = IF i <= Len(a) THEN a[i] ELSE b[i - Len(a)]
           /\ \A a, b, c \in Seq(S) : (a \o b) \o c = a \o (b \o c)
           /\ \A a \in Seq(S) : a \o <<>> = a /\ <<>> \o a = a
           /\ \A a \in Seq(S), x \in S : Append(a, x) = a \o <<x>>
<1>1. \A a, b \in Seq(S) :
         /\ a \o b \in Seq(S) /\ Len(a \o b) = Len(a) + Len(b)
         /\ \A i \in 1 .. Len(a) + Len(b) :
               (a \o b)[i] = IF i <= Len(a) THEN a[i] ELSE b[i - Len(a)]
  BY ConcatProperties
<1>2. \A a, b, c \in Seq(S) : (a \o b) \o c = a \o (b \o c)
  BY ConcatAssociative
<1>3. \A a \in Seq(S) : a \o <<>> = a /\ <<>> \o a = a
  BY ConcatEmptySeq
<1>4. \A a \in Seq(S), x \in S : Append(a, x) = a \o <<x>>
  OBVIOUS
<1> QED  BY <1>1, <1>2, <1>3, <1>4

(* The values of log statements are entries of the log,                      *)
LEMMA ValuesAre ==
    ASSUME NEW ss \in Seq(LogLine)
    PROVE  /\ Values(ss) \in Seq(Entry) /\ Len(Values(ss)) = Len(ss)
           /\ \A i \in 1 .. Len(ss) : Values(ss)[i] = ss[i].v /\ ss[i].v \in Entry
<1>1. DOMAIN ss = 1 .. Len(ss) /\ Len(ss) \in Nat /\ \A i \in 1 .. Len(ss) : ss[i] \in LogLine
  OBVIOUS
<1>2. \A i \in 1 .. Len(ss) : ss[i].v \in Entry
  BY <1>1 DEF LogLine
<1>3. Values(ss) = [i \in 1 .. Len(ss) |-> ss[i].v]
  BY <1>1 DEF Values
<1> QED  BY <1>1, <1>2, <1>3

(* and those of a concatenation are its parts' values.                       *)
LEMMA ValuesOfTwo ==
    ASSUME NEW a \in Seq(LogLine), NEW b \in Seq(LogLine)
    PROVE  /\ a \o b \in Seq(LogLine)
           /\ Values(a \o b) = Values(a) \o Values(b)
<1> DEFINE u == Values(a)
           v == Values(b)
           w == Values(a \o b)
<1>1. /\ a \o b \in Seq(LogLine) /\ Len(a \o b) = Len(a) + Len(b)
      /\ \A i \in 1 .. Len(a) + Len(b) :
            (a \o b)[i] = IF i <= Len(a) THEN a[i] ELSE b[i - Len(a)]
  BY ConcatProperties
<1>2. /\ u \in Seq(Entry) /\ Len(u) = Len(a) /\ \A i \in 1 .. Len(a) : u[i] = a[i].v
      /\ v \in Seq(Entry) /\ Len(v) = Len(b) /\ \A i \in 1 .. Len(b) : v[i] = b[i].v
      /\ w \in Seq(Entry) /\ Len(w) = Len(a) + Len(b)
      /\ \A i \in 1 .. Len(a) + Len(b) : w[i] = (a \o b)[i].v
  <2> DEFINE ab == a \o b
  <2>1. ab \in Seq(LogLine) /\ Len(ab) = Len(a) + Len(b)
    BY <1>1
  <2> HIDE DEF ab
  <2>2. /\ Values(ab) \in Seq(Entry) /\ Len(Values(ab)) = Len(ab)
        /\ \A i \in 1 .. Len(ab) : Values(ab)[i] = ab[i].v
    BY <2>1, ValuesAre
  <2>3. /\ w \in Seq(Entry) /\ Len(w) = Len(a) + Len(b)
        /\ \A i \in 1 .. Len(a) + Len(b) : w[i] = (a \o b)[i].v
    BY <2>1, <2>2 DEF ab
  <2>4. /\ u \in Seq(Entry) /\ Len(u) = Len(a) /\ \A i \in 1 .. Len(a) : u[i] = a[i].v
    BY ValuesAre
  <2>5. /\ v \in Seq(Entry) /\ Len(v) = Len(b) /\ \A i \in 1 .. Len(b) : v[i] = b[i].v
    BY ValuesAre
  <2> QED  BY <2>3, <2>4, <2>5
<1>3. Len(a) \in Nat /\ Len(b) \in Nat
  OBVIOUS
<1> HIDE DEF u, v, w
<1>4. /\ u \o v \in Seq(Entry) /\ Len(u \o v) = Len(a) + Len(b)
      /\ \A i \in 1 .. Len(a) + Len(b) :
            (u \o v)[i] = IF i <= Len(a) THEN u[i] ELSE v[i - Len(a)]
  <2>1. /\ u \o v \in Seq(Entry) /\ Len(u \o v) = Len(u) + Len(v)
        /\ \A i \in 1 .. Len(u) + Len(v) :
              (u \o v)[i] = IF i <= Len(u) THEN u[i] ELSE v[i - Len(u)]
    BY <1>2, Concatenation
  <2> QED  BY <1>2, <2>1
<1>5. ASSUME NEW i \in 1 .. Len(a) + Len(b) PROVE w[i] = (u \o v)[i]
  <2>1. CASE i <= Len(a)
    BY <1>1, <1>2, <1>3, <1>4, <2>1
  <2>2. CASE ~(i <= Len(a))
    <3>1. i - Len(a) \in 1 .. Len(b)
      BY <1>3, <2>2
    <3> QED  BY <1>1, <1>2, <1>3, <1>4, <2>2, <3>1
  <2> QED  BY <2>1, <2>2
<1>6. w = u \o v
  BY <1>2, <1>4, <1>5, SeqEqual
<1> QED  BY <1>1, <1>6 DEF u, v, w

(* Finally bodies and exits are log statements of the C++.                   *)
LEMMA LogLinesAre ==
    /\ Straight \subseteq Seq(LogLine)
    /\ Seq([k : {"log"}, v : {"exit"} \X Manager]) \subseteq Seq(LogLine)
    /\ \A B : Seq(LogLine) \subseteq Seq(CodeStatement(B))
<1>1. \A B : LogLine \subseteq CodeStatement(B)
  BY DEF LogLine, CodeStatement
<1>2. [k : {"log"}, v : Value] \subseteq LogLine
  BY DEF LogLine, Entry
<1>3. [k : {"log"}, v : {"exit"} \X Manager] \subseteq LogLine
  BY DEF LogLine, Entry
<1> QED  BY <1>1, <1>2, <1>3, SeqMonotonic DEF Straight

(* A context, field by field.                                                *)
LEMMA ContextIs ==
    ASSUME NEW c \in Context
    PROVE  /\ c = [finals |-> c.finals, exits |-> c.exits, flag |-> c.flag, depth |-> c.depth]
           /\ c.finals \in Straight /\ c.finals \in Seq(LogLine)
           /\ c.exits \in Seq([k : {"log"}, v : {"exit"} \X Manager])
           /\ c.exits \in Seq(LogLine)
           /\ c.flag \in Nat /\ c.depth \in Nat \ {0}
BY LogLinesAre DEF Context

(* Straight-line code logs its values and does nothing else.                 *)
LEMMA CodeOfLogs ==
    ASSUME NEW B, NEW walk \in [B -> [Memory -> Memory]], NEW code \in Seq(LogLine),
           NEW st \in Memory, st.out = "normal"
    PROVE  CppBody(code, st, walk) = [st EXCEPT !.log = st.log \o Values(code)]
<1> DEFINE N == Len(code)
           V == Values(code)
           steps == StepsOf(code, walk)
<1>1. /\ N \in Nat /\ V \in Seq(Entry) /\ Len(V) = N
      /\ \A i \in 1 .. N : V[i] = code[i].v /\ code[i].v \in Entry /\ code[i].k = "log"
  <2>1. V \in Seq(Entry) /\ Len(V) = N /\ \A i \in 1 .. N : V[i] = code[i].v /\ code[i].v \in Entry
    BY ValuesAre
  <2>2. \A i \in 1 .. N : code[i] \in LogLine
    OBVIOUS
  <2> QED  BY <2>1, <2>2 DEF LogLine
<1>2. /\ steps \in Seq([Memory -> Memory]) /\ Len(steps) = N
      /\ \A i \in 1 .. N : steps[i] = [q \in Memory |-> CppStmt(code[i], q, walk)]
  BY LogLinesAre, StepsAre
<1>3. CppBody(code, st, walk) = Chain(steps, st)
  BY DEF CppBody, StepsOf
<1> HIDE DEF steps, V, N
<1>4. PICK F : ChainRuns(Memory, steps, st, F)
  BY <1>2, ChainUnfolds
<1>5. F[0] = st /\ Chain(steps, st) = F[N] /\ \A n \in 0 .. N : F[n] \in Memory
  BY <1>1, <1>2, <1>4 DEF ChainRuns
<1>6. st.log \in Seq(Entry) /\ \A q \in Memory : q.log \in Seq(Entry)
  BY MemoryIs
<1> DEFINE L == [n \in 0 .. N |-> st.log \o SubSeq(V, 1, n)]
           A == {n \in 0 .. N : F[n] = [st EXCEPT !.log = L[n]]}
<1>7. 0 \in A
  <2>1. SubSeq(V, 1, 0) = <<>>
    BY SubSeqEmpty
  <2>2. L[0] = st.log
    BY <1>1, <1>6, <2>1, ConcatEmptySeq
  <2> HIDE DEF L
  <2>3. [st EXCEPT !.log = L[0]] = st
    BY <2>2, MemoryIs
  <2> QED  BY <1>1, <1>5, <2>3
<1>8. ASSUME NEW n \in 1 .. N, n - 1 \in A PROVE n \in A
  <2>1. n \in 0 .. N /\ n - 1 \in 0 .. N
    BY <1>1
  <2>2. L[n] = Append(L[n - 1], V[n])
    <3>1. SubSeq(V, 1, n) = SubSeq(V, 1, n - 1) \o <<V[n]>>
      BY <1>1, SubSeqRecursiveSecond
    <3>2. SubSeq(V, 1, n - 1) \in Seq(Entry)
      BY <1>1, SubSeqProperties
    <3>3. <<V[n]>> \in Seq(Entry)
      BY <1>1
    <3> DEFINE p == SubSeq(V, 1, n - 1)
    <3>4. L[n] = st.log \o (p \o <<V[n]>>) /\ L[n - 1] = st.log \o p
      BY <2>1, <3>1
    <3>5. p \in Seq(Entry)
      BY <3>2
    <3> HIDE DEF L, p
    <3>6. st.log \o (p \o <<V[n]>>) = (st.log \o p) \o <<V[n]>>
      <4> DEFINE x == st.log
                 y == <<V[n]>>
      <4>1. x \in Seq(Entry) /\ y \in Seq(Entry)
        BY <1>6, <3>3
      <4> HIDE DEF x, y
      <4>2. (x \o p) \o y = x \o (p \o y)
        BY <3>5, <4>1, Concatenation
      <4> QED  BY <4>2 DEF x, y
    <3>7. st.log \o p \in Seq(Entry)
      BY <1>6, <3>5, Concatenation
    <3>8. V[n] \in Entry
      BY <1>1
    <3>9. Append(st.log \o p, V[n]) = (st.log \o p) \o <<V[n]>>
      BY <3>7, <3>8, Concatenation
    <3> QED  BY <3>4, <3>6, <3>9
  <2> HIDE DEF L
  <2>3. F[n - 1] = [st EXCEPT !.log = L[n - 1]] /\ F[n - 1] \in Memory
    BY <1>5, <1>8, <2>1
  <2>4. F[n - 1].out = "normal" /\ F[n - 1].log = L[n - 1]
    BY <2>3 DEF Memory
  <2>5. F[n] = steps[n][F[n - 1]]
    BY <1>2, <1>4, <2>4 DEF ChainRuns
  <2>6. F[n] = CppStmt(code[n], F[n - 1], walk)
    BY <1>2, <2>3, <2>5
  <2>7. CppStmt(code[n], F[n - 1], walk) = [F[n - 1] EXCEPT !.log = Append(L[n - 1], V[n])]
    BY <1>1, <2>4 DEF CppStmt, Jumps
  <2>8. [F[n - 1] EXCEPT !.log = L[n]] = [st EXCEPT !.log = L[n]]
    BY <2>3 DEF Memory
  <2> QED  BY <2>1, <2>2, <2>6, <2>7, <2>8
<1>9. N \in A
  <2>1. 0 \in 0 .. N /\ N \in 0 .. N
    BY <1>1
  <2> HIDE DEF A
  <2> QED  BY <1>1, <1>7, <1>8, <2>1, Induction
<1>10. L[N] = st.log \o V
  <2>1. SubSeq(V, 1, N) = V /\ N \in 0 .. N
    BY <1>1, SubSeqFull
  <2> QED  BY <2>1
<1> HIDE DEF L
<1> QED  BY <1>3, <1>5, <1>9, <1>10 DEF V

(* What is logged by the C++ in advance when it leaves a context: by a jump, *)
(* the finally bodies and the exits of all that is around it.                *)
Extra(c, how) ==
    IF how \in {"return", "break"} THEN Values(c.finals) \o Values(c.exits)
    ELSE IF how = "continue" THEN Values(c.finals)
    ELSE <<>>

(* What a place says of its context.                                         *)
Describes(a, c) ==
    /\ ~a.final => c.finals = <<>>
    /\ ~a.with => c.exits = <<>>
    /\ c.flag < c.depth

(* How a body may end at a place.                                            *)
Allowed(a, how) ==
    /\ how # NoExc
    /\ how \in Exc => "raise" \in a.may
    /\ how \in Jumps => how \in a.may

(* The flags of the statements around are left alone, but for the one that a *)
(* break clears.                                                             *)
Flags(c, how, up, was) ==
    \A f \in 1 .. c.depth - 1 :
        IF how = "break" /\ f = c.flag THEN f \notin up ELSE f \in up <=> f \in was

(* A run of the C++ from st is at y when the Python program is at x.         *)
Arrives(c, a, x, y, st) ==
    /\ y.out = x.out /\ y.cur = st.cur
    /\ y.log = x.log \o Extra(c, x.out)
    /\ Allowed(a, x.out)
    /\ Flags(c, x.out, y.up, st.up)

(* The two runs, still going on, have logged the same.                       *)
Same(r, st) == r.out = "normal" /\ st.out = "normal" /\ st.log = r.log

(* From the same, the C++ arrives where the Python program does.             *)
Follows(c, a, p, q) ==
    /\ p \in [Result -> Result] /\ q \in [Memory -> Memory]
    /\ \A r \in Result, st \in Memory : Same(r, st) => Arrives(c, a, p[r], q[st], st)

(* What is logged in advance is entries, and nothing without a jump.         *)
LEMMA ExtraIsTyped ==
    ASSUME NEW c \in Context, NEW how
    PROVE  /\ Extra(c, how) \in Seq(Entry)
           /\ how \notin Jumps => Extra(c, how) = <<>>
<1>1. Values(c.finals) \in Seq(Entry) /\ Values(c.exits) \in Seq(Entry)
  BY ContextIs, ValuesAre
<1> DEFINE u == Values(c.finals)
           v == Values(c.exits)
<1>2. u \o v \in Seq(Entry)
  <2> HIDE DEF u, v
  <2> QED  BY <1>1, Concatenation DEF u, v
<1> QED  BY <1>1, <1>2 DEF Extra, Jumps

(* Nothing done,                                                             *)
LEMMA SameEnds ==
    ASSUME NEW c \in Context, NEW a \in Place, NEW r \in Result, NEW st \in Memory, Same(r, st)
    PROVE  Arrives(c, a, r, st, st)
<1>1. "normal" \notin Jumps /\ "normal" # NoExc /\ "normal" \notin Exc
  BY FlowAssumption DEF Jumps, NoExc
<1>2. r.log \o <<>> = r.log
  BY ResultIs, Concatenation
<1>3. Extra(c, "normal") = <<>>
  BY <1>1, ExtraIsTyped
<1> QED  BY <1>1, <1>2, <1>3 DEF Arrives, Same, Allowed, Flags

(* and what is done after a normal end.                                      *)
LEMMA ThenEnds ==
    ASSUME NEW c \in Context, NEW a \in Place, NEW x \in Result, NEW y \in Memory,
           NEW st, Arrives(c, a, x, y, st), x.out = "normal"
    PROVE  /\ Same(x, y)
           /\ \A z, w : Arrives(c, a, z, w, y) => Arrives(c, a, z, w, st)
<1>1. "normal" \notin Jumps
  BY DEF Jumps
<1>2. x.log \o <<>> = x.log
  BY ResultIs, Concatenation
<1>3. Extra(c, "normal") = <<>>
  BY <1>1, ExtraIsTyped
<1>4. Same(x, y)
  BY <1>2, <1>3 DEF Arrives, Same
<1>5. ASSUME NEW z, NEW w, Arrives(c, a, z, w, y)
      PROVE  Arrives(c, a, z, w, st)
  <2>1. y.cur = st.cur /\ \A f \in 1 .. c.depth - 1 : f \in y.up <=> f \in st.up
    BY DEF Arrives, Flags
  <2>2. Flags(c, z.out, w.up, st.up)
    BY <1>5, <2>1 DEF Arrives, Flags
  <2> QED  BY <1>5, <2>1, <2>2 DEF Arrives
<1> QED  BY <1>4, <1>5

(* Steps that follow each other make chains that do.                         *)
LEMMA ChainsFollow ==
    ASSUME NEW c \in Context, NEW a \in Place,
           NEW ps \in Seq([Result -> Result]), NEW qs \in Seq([Memory -> Memory]),
           Len(ps) = Len(qs), \A i \in 1 .. Len(ps) : Follows(c, a, ps[i], qs[i]),
           NEW r \in Result, NEW st \in Memory, Same(r, st)
    PROVE  Arrives(c, a, Chain(ps, r), Chain(qs, st), st)
<1>1. PICK P : ChainRuns(Result, ps, r, P)
  BY ChainUnfolds
<1>2. PICK Q : ChainRuns(Memory, qs, st, Q)
  BY ChainUnfolds
<1> DEFINE N == Len(ps)
           A == {n \in 0 .. N : Arrives(c, a, P[n], Q[n], st)}
<1>3. N \in Nat /\ 0 \in 0 .. N /\ N \in 0 .. N
      /\ \A n \in 1 .. N : n - 1 \in 0 .. N /\ n \in 0 .. N
  OBVIOUS
<1>4. \A n \in 0 .. N : P[n] \in Result /\ Q[n] \in Memory
  BY <1>1, <1>2 DEF ChainRuns
<1>5. 0 \in A
  BY <1>1, <1>2, <1>3, SameEnds DEF ChainRuns
<1>6. ASSUME NEW n \in 1 .. N, n - 1 \in A PROVE n \in A
  <2> DEFINE x == P[n - 1]
             y == Q[n - 1]
  <2>1. Arrives(c, a, x, y, st) /\ x \in Result /\ y \in Memory
    BY <1>3, <1>4, <1>6
  <2>2. /\ P[n] = IF x.out = "normal" THEN ps[n][x] ELSE x
        /\ Q[n] = IF y.out = "normal" THEN qs[n][y] ELSE y
    BY <1>1, <1>2 DEF ChainRuns
  <2>3. y.out = x.out
    BY <2>1 DEF Arrives
  <2>4. Follows(c, a, ps[n], qs[n])
    OBVIOUS
  <2> HIDE DEF x, y
  <2>5. CASE x.out = "normal"
    <3>1. Same(x, y) /\ \A z, w : Arrives(c, a, z, w, y) => Arrives(c, a, z, w, st)
      BY <2>1, <2>5, ThenEnds
    <3>2. Arrives(c, a, ps[n][x], qs[n][y], y)
      BY <2>1, <2>4, <3>1 DEF Follows
    <3> QED  BY <1>3, <2>2, <2>3, <2>5, <3>1, <3>2
  <2>6. CASE x.out # "normal"
    BY <1>3, <2>1, <2>2, <2>3, <2>6
  <2> QED  BY <2>5, <2>6
<1>7. N \in A
  <2> HIDE DEF A, N
  <2> QED  BY <1>3, <1>5, <1>6, Induction
<1> QED  BY <1>1, <1>2, <1>7 DEF ChainRuns

(* The contexts and places inside a statement.                               *)
LEMMA PlaceIs ==
    ASSUME NEW a \in Place
    PROVE  /\ a = [may |-> a.may, final |-> a.final, with |-> a.with]
           /\ a.may \in SUBSET (Jumps \union {"raise"}) /\ a.final \in BOOLEAN
           /\ a.with \in BOOLEAN
BY DEF Place

(* What each of the places inside a statement allows.                        *)
LEMMA PlacesInside ==
    ASSUME NEW a \in Place
    PROVE  /\ BesideFinal(a) \in Place /\ BesideFinal(a).final
           /\ BesideFinal(a).may = a.may /\ (BesideFinal(a).with <=> a.with)
           /\ PastTry(a) \in Place /\ PastTry(a).final
           /\ PastTry(a).may = a.may \ {"raise"} /\ (PastTry(a).with <=> a.with)
           /\ InsideWith(a) \in Place /\ InsideWith(a).with
           /\ InsideWith(a).may
                = a.may \ ({"raise", "continue"} \union IF a.final THEN Jumps ELSE {})
           /\ InsideWith(a).final <=> a.final
<1>1. /\ BesideFinal(a) \in Place /\ BesideFinal(a).final
      /\ BesideFinal(a).may = a.may /\ (BesideFinal(a).with <=> a.with)
  BY DEF BesideFinal, Place
<1>2. /\ PastTry(a) \in Place /\ PastTry(a).final
      /\ PastTry(a).may = a.may \ {"raise"} /\ (PastTry(a).with <=> a.with)
  BY DEF PastTry, Place
<1>3. /\ InsideWith(a) \in Place /\ InsideWith(a).with
      /\ InsideWith(a).may
           = a.may \ ({"raise", "continue"} \union IF a.final THEN Jumps ELSE {})
      /\ InsideWith(a).final <=> a.final
  BY DEF InsideWith, Place
<1> QED  BY <1>1, <1>2, <1>3

(* The contexts, field by field.                                             *)
LEMMA DeeperIs ==
    ASSUME NEW c \in Context
    PROVE  /\ Deeper(c) \in Context
           /\ Deeper(c) = [finals |-> c.finals, exits |-> c.exits, flag |-> c.flag,
                           depth |-> c.depth + 1]
BY DEF Deeper, Context

(* Records with another field: for the contexts,                             *)
LEMMA ContextChanged ==
    ASSUME NEW c \in Context, NEW x
    PROVE  /\ [c EXCEPT !.finals = x]
                = [finals |-> x, exits |-> c.exits, flag |-> c.flag, depth |-> c.depth]
           /\ [c EXCEPT !.exits = x]
                = [finals |-> c.finals, exits |-> x, flag |-> c.flag, depth |-> c.depth]
           /\ [c EXCEPT !.flag = x]
                = [finals |-> c.finals, exits |-> c.exits, flag |-> x, depth |-> c.depth]
BY DEF Context

(* and so what each statement makes of its context.                          *)
LEMMA ContextsInside ==
    ASSUME NEW c \in Context, NEW final, NEW m, NEW flag
    PROVE  /\ InTry(c, final) = [finals |-> final \o c.finals, exits |-> c.exits,
                                 flag |-> c.flag, depth |-> c.depth + 1]
           /\ InWith(c, m) = [finals |-> c.finals, exits |-> <<Log(<<"exit", m>>)>> \o c.exits,
                              flag |-> c.flag, depth |-> c.depth + 1]
           /\ InLoop(c, flag) = [finals |-> c.finals, exits |-> c.exits,
                                 flag |-> flag, depth |-> c.depth + 1]
<1> DEFINE d == Deeper(c)
           x == final \o d.finals
           y == <<Log(<<"exit", m>>)>> \o d.exits
<1>1. /\ InTry(c, final) = [d EXCEPT !.finals = x]
      /\ InWith(c, m) = [d EXCEPT !.exits = y]
      /\ InLoop(c, flag) = [d EXCEPT !.flag = flag]
  BY DEF InTry, InWith, InLoop
<1> HIDE DEF d, x, y
<1>2. /\ d \in Context
      /\ d = [finals |-> c.finals, exits |-> c.exits, flag |-> c.flag, depth |-> c.depth + 1]
  BY DeeperIs DEF d
<1>3. /\ [d EXCEPT !.finals = x]
           = [finals |-> x, exits |-> d.exits, flag |-> d.flag, depth |-> d.depth]
      /\ [d EXCEPT !.exits = y]
           = [finals |-> d.finals, exits |-> y, flag |-> d.flag, depth |-> d.depth]
      /\ [d EXCEPT !.flag = flag]
           = [finals |-> d.finals, exits |-> d.exits, flag |-> flag, depth |-> d.depth]
  BY <1>2, ContextChanged
<1> QED  BY <1>1, <1>2, <1>3 DEF x, y

(* The place of a try's body,                                                *)
TryPlace(a, s) == IF s.final # <<>> THEN BesideFinal(a) ELSE a

(* and that of its handlers and else.                                        *)
PastPlace(a, s) == IF s.final # <<>> THEN PastTry(a) ELSE a

(* A place describes the context inside a statement when it describes the    *)
(* one around it: one level deeper,                                          *)
LEMMA DeeperFits ==
    ASSUME NEW c \in Context, NEW a \in Place, Describes(a, c)
    PROVE  /\ Deeper(c) \in Context /\ Describes(a, Deeper(c))
           /\ Deeper(c).depth = c.depth + 1 /\ Deeper(c).flag = c.flag
           /\ \A how : Extra(Deeper(c), how) = Extra(c, how)
<1> DEFINE d == Deeper(c)
<1>1. d = [finals |-> c.finals, exits |-> c.exits, flag |-> c.flag, depth |-> c.depth + 1]
  BY DeeperIs
<1> HIDE DEF d
<1>2. d \in Context
  BY <1>1, ContextIs DEF Context
<1>3. Describes(a, d)
  BY <1>1, ContextIs DEF Describes
<1>4. \A how : Extra(d, how) = Extra(c, how)
  BY <1>1 DEF Extra
<1> QED  BY <1>1, <1>2, <1>3, <1>4 DEF d

(* in a try, whose finally body a jump logs first,                           *)
LEMMA TryFits ==
    ASSUME NEW c \in Context, NEW a \in Place, Describes(a, c), NEW s, s.final \in Straight
    PROVE  /\ InTry(c, s.final) \in Context
           /\ TryPlace(a, s) \in Place /\ Describes(TryPlace(a, s), InTry(c, s.final))
           /\ PastPlace(a, s) \in Place /\ Describes(PastPlace(a, s), InTry(c, s.final))
           /\ InTry(c, s.final).depth = c.depth + 1 /\ InTry(c, s.final).flag = c.flag
           /\ \A how \in Jumps :
                 Extra(InTry(c, s.final), how) = Values(s.final) \o Extra(c, how)
<1> DEFINE d == InTry(c, s.final)
           e == TryPlace(a, s)
           p == PastPlace(a, s)
           F == s.final
<1>1. d = [finals |-> F \o c.finals, exits |-> c.exits, flag |-> c.flag, depth |-> c.depth + 1]
  BY ContextsInside
<1>2. F \in Seq(LogLine) /\ F \in Straight
  BY LogLinesAre
<1>3. /\ e \in Place /\ (e.final <=> a.final \/ F # <<>>) /\ (e.with <=> a.with)
      /\ p \in Place /\ (p.final <=> a.final \/ F # <<>>) /\ (p.with <=> a.with)
  BY PlacesInside DEF TryPlace, PastPlace
<1> HIDE DEF d, e, p, F
<1>5. F \o c.finals \in Straight /\ (F = <<>> /\ c.finals = <<>> => F \o c.finals = <<>>)
  BY <1>2, ContextIs, Concatenation DEF Straight
<1>6. d \in Context
  BY <1>1, <1>5, ContextIs DEF Context
<1>7. Describes(e, d) /\ Describes(p, d)
  BY <1>1, <1>2, <1>3, <1>5, ContextIs DEF Describes
<1>8. ASSUME NEW how \in Jumps PROVE Extra(d, how) = Values(F) \o Extra(c, how)
  <2> DEFINE u == Values(F)
             v == Values(c.finals)
             w == Values(c.exits)
  <2>1. u \in Seq(Entry) /\ v \in Seq(Entry) /\ w \in Seq(Entry)
    BY <1>2, ContextIs, ValuesAre
  <2>2. Values(d.finals) = u \o v /\ Values(d.exits) = w
    BY <1>1, <1>2, ContextIs, ValuesOfTwo
  <2>3. (u \o v) \o w = u \o (v \o w)
    <3> HIDE DEF u, v, w
    <3> QED  BY <2>1, Concatenation
  <2> QED  BY <2>2, <2>3 DEF Extra, Jumps
<1>9. d.depth = c.depth + 1 /\ d.flag = c.flag
  BY <1>1
<1> QED  BY <1>3, <1>6, <1>7, <1>8, <1>9 DEF d, e, p, F

(* in a with, whose exit a return or break logs before those around it,      *)
LEMMA WithFits ==
    ASSUME NEW c \in Context, NEW a \in Place, Describes(a, c), NEW m \in Manager
    PROVE  /\ InWith(c, m) \in Context
           /\ InsideWith(a) \in Place /\ Describes(InsideWith(a), InWith(c, m))
           /\ InWith(c, m).depth = c.depth + 1 /\ InWith(c, m).flag = c.flag
           /\ \A how \in {"return", "break"} : how \in InsideWith(a).may =>
                 Extra(InWith(c, m), how) = <<<<"exit", m>>>> \o Extra(c, how)
           /\ InsideWith(a).may \subseteq a.may \ {"raise", "continue"}
<1> DEFINE d == InWith(c, m)
           e == InsideWith(a)
           x == <<Log(<<"exit", m>>)>>
<1>1. d = [finals |-> c.finals, exits |-> x \o c.exits, flag |-> c.flag, depth |-> c.depth + 1]
  BY ContextsInside
<1>2. /\ e \in Place /\ e.with /\ (e.final <=> a.final)
      /\ e.may = a.may \ ({"raise", "continue"} \union IF a.final THEN Jumps ELSE {})
  BY PlacesInside
<1>3. /\ x \in Seq([k : {"log"}, v : {"exit"} \X Manager]) /\ x \in Seq(LogLine)
      /\ Values(x) = <<<<"exit", m>>>>
  <2>1. x \in Seq([k : {"log"}, v : {"exit"} \X Manager])
    BY DEF Log
  <2>2. Values(x) = <<<<"exit", m>>>>
    BY DEF Log, Values
  <2> QED  BY <2>1, <2>2, LogLinesAre
<1> HIDE DEF d, e, x
<1>5. x \o c.exits \in Seq([k : {"log"}, v : {"exit"} \X Manager])
  BY <1>3, ContextIs, Concatenation
<1>6. d \in Context
  BY <1>1, <1>5, ContextIs DEF Context
<1>7. Describes(e, d)
  BY <1>1, <1>2, ContextIs DEF Describes
<1>8. ASSUME NEW how \in {"return", "break"}, how \in e.may
      PROVE  Extra(d, how) = <<<<"exit", m>>>> \o Extra(c, how)
  <2> DEFINE u == Values(c.exits)
             w == Values(x)
  <2>1. c.finals = <<>>
    BY <1>2, <1>8 DEF Describes, Jumps
  <2>2. Values(c.finals) = <<>>
    BY <2>1 DEF Values
  <2>3. Values(d.finals) = <<>> /\ Values(d.exits) = w \o u
    BY <1>1, <1>3, <2>2, ContextIs, ValuesOfTwo
  <2>4. u \in Seq(Entry) /\ w \in Seq(Entry)
    BY <1>3, ContextIs, ValuesAre
  <2>5. <<>> \o (w \o u) = w \o u /\ <<>> \o u = u
    <3> HIDE DEF u, w
    <3> QED  BY <2>4, Concatenation
  <2> QED  BY <1>3, <2>2, <2>3, <2>5 DEF Extra
<1>9. d.depth = c.depth + 1 /\ d.flag = c.flag /\ e.may \subseteq a.may \ {"raise", "continue"}
  BY <1>1, <1>2
<1> QED  BY <1>2, <1>6, <1>7, <1>8, <1>9 DEF d, e

(* and in a loop, from which a jump that stays inside logs nothing.          *)
LEMMA LoopFits ==
    ASSUME NEW c \in Context, NEW a \in Place, Describes(a, c), NEW flag \in {NoFlag, c.depth}
    PROVE  /\ InLoop(c, flag) \in Context
           /\ InsideLoop(a) \in Place /\ Describes(InsideLoop(a), InLoop(c, flag))
           /\ InLoop(c, flag).depth = c.depth + 1 /\ InLoop(c, flag).flag = flag
           /\ Extra(InLoop(c, flag), "return") = Extra(c, "return")
           /\ \A how \in {"break", "continue"} : how \in InsideLoop(a).may =>
                 Extra(InLoop(c, flag), how) = <<>>
           /\ \A how \in {"raise", "return"} : how \in InsideLoop(a).may => how \in a.may
<1> DEFINE d == InLoop(c, flag)
           e == InsideLoop(a)
<1>1. d = [finals |-> c.finals, exits |-> c.exits, flag |-> flag, depth |-> c.depth + 1]
  BY ContextsInside
<1>2. e = [may |-> (a.may \intersect {"raise", "return"})
                     \union (IF a.final THEN {} ELSE {"continue"})
                     \union (IF a.final \/ a.with THEN {} ELSE {"break"}),
           final |-> a.final, with |-> a.with]
  BY DEF InsideLoop, Place
<1> HIDE DEF d, e
<1>3. flag \in Nat /\ flag < c.depth + 1
  BY ContextIs DEF NoFlag
<1>4. e \in Place
  BY <1>2, PlaceIs DEF Place, Jumps
<1>5. d \in Context
  BY <1>1, <1>3, ContextIs DEF Context
<1>6. Describes(e, d)
  BY <1>1, <1>2, <1>3 DEF Describes
<1>7. Extra(d, "return") = Extra(c, "return")
  BY <1>1 DEF Extra
<1>8. Values(<<>>) = <<>> /\ <<>> \o <<>> = <<>>
  BY DEF Values
<1>9. ASSUME NEW how \in {"break", "continue"}, how \in e.may
      PROVE  Extra(d, how) = <<>>
  <2>1. c.finals = <<>> /\ (how = "break" => c.exits = <<>>)
    BY <1>2, <1>9 DEF Describes
  <2> QED  BY <1>1, <1>8, <2>1 DEF Extra
<1>10. \A how \in {"raise", "return"} : how \in e.may => how \in a.may
  BY <1>2
<1> QED  BY <1>1, <1>4, <1>5, <1>6, <1>7, <1>9, <1>10 DEF d, e

(* What one level of nesting knows of the bodies inside: D is the code of    *)
(* two levels below, below what runs it.                                     *)
Blocks(D) == Seq(CodeStatement(D))

(* What runs the code one level up.                                          *)
Running(D, below) ==
    [code \in Blocks(D) |-> [st \in Memory |-> CppBody(code, st, below)]]

(* The code two levels below is code, and is run as code.                    *)
Grounded(D, below) ==
    /\ D \subseteq Blocks(D) /\ below \in [D -> [Memory -> Memory]]
    /\ \A code \in D, st \in Memory : below[code][st] = CppBody(code, st, below)

(* What is known of the bodies in B: their results, their code and whether   *)
(* they are clean are typed, an empty body does nothing, and the code of a   *)
(* clean one follows it.                                                     *)
Given(B, D, below, ref, low, clean) ==
    /\ Grounded(D, below)
    /\ ref \in [B -> [Result -> Result]]
    /\ low \in [B -> [Context -> Blocks(D)]]
    /\ clean \in [B -> [Place -> BOOLEAN]]
    /\ \A r \in Result : <<>> \in B => ref[<<>>][r] = r
    /\ \A ss \in B, c \in Context, a \in Place :
          Describes(a, c) /\ clean[ss][a]
             => Follows(c, a, ref[ss], Running(D, below)[low[ss][c]])

(* Code does the same one level up.                                          *)
LEMMA SameStatement ==
    ASSUME NEW D, NEW E, NEW s \in CodeStatement(D), NEW below, NEW above,
           \A code \in D, st \in Memory : below[code][st] = above[code][st],
           below \in [D -> [Memory -> Memory]],
           NEW st \in Memory
    PROVE  CppStmt(s, st, below) = CppStmt(s, st, above)
<1> USE CodeStatementIs
<1>1. CASE s.k \notin {"if", "ctry", "cloop"}
  BY <1>1 DEF CppStmt, Jumps
<1>2. CASE s.k = "if"
  BY <1>2 DEF CppStmt, Jumps
<1>3. CASE s.k = "ctry"
  <2> DEFINE tried == below[s.body][st]
             fit == Fit(s.catches, tried.out)
             next == [tried EXCEPT !.out = "normal", !.cur = tried.out]
             inner == s.catches[First(fit)].body
  <2>1. tried \in Memory /\ tried = above[s.body][st]
    BY <1>3
  <2>2. /\ CppStmt(s, st, below)
             = IF tried.out \notin Exc \/ fit = {} THEN tried
               ELSE [below[inner][next] EXCEPT !.cur = st.cur]
        /\ CppStmt(s, st, above)
             = IF tried.out \notin Exc \/ fit = {} THEN tried
               ELSE [above[inner][next] EXCEPT !.cur = st.cur]
    BY <1>3, <2>1 DEF CppStmt, CppTrying, Jumps
  <2>3. ASSUME tried.out \in Exc, fit # {} PROVE below[inner][next] = above[inner][next]
    <3>1. next \in Memory
      BY <2>1, <2>3 DEF Memory, Outcome
    <3>2. inner \in D
      BY <1>3, <2>3, FitIs
    <3> HIDE DEF next, inner
    <3> QED  BY <3>1, <3>2
  <2> HIDE DEF tried, fit, next, inner
  <2>4. CASE tried.out \notin Exc \/ fit = {}
    BY <2>2, <2>4
  <2>5. CASE tried.out \in Exc /\ fit # {}
    BY <2>2, <2>3, <2>5
  <2> QED  BY <2>4, <2>5
<1>4. CASE s.k = "cloop"
  <2>1. [q \in Memory |-> AfterRound(below[s.body][q])]
          = [q \in Memory |-> AfterRound(above[s.body][q])]
    BY <1>4
  <2>2. \A w : CppStmt(s, st, w)
          = AfterLoop(Chain([i \in 1 .. s.n |-> [q \in Memory |-> AfterRound(w[s.body][q])]], st))
    BY <1>4 DEF CppStmt, Jumps
  <2> HIDE DEF CppStmt
  <2> QED  BY <2>1, <2>2
<1> QED  BY <1>1, <1>2, <1>3, <1>4

(* So do all the lines of a piece of code.                                   *)
LEMMA SameCode ==
    ASSUME NEW D, NEW code \in Blocks(D), NEW below, NEW above,
           below \in [D -> [Memory -> Memory]],
           \A x \in D, st \in Memory : below[x][st] = above[x][st],
           NEW st \in Memory
    PROVE  CppBody(code, st, below) = CppBody(code, st, above)
<1>1. \A i \in DOMAIN code : code[i] \in CodeStatement(D)
  BY DEF Blocks
<1>2. \A i \in DOMAIN code : \A q \in Memory :
         CppStmt(code[i], q, below) = CppStmt(code[i], q, above)
  BY <1>1, SameStatement
<1>3. StepsOf(code, below) = StepsOf(code, above)
  BY <1>2 DEF StepsOf
<1> QED  BY <1>3 DEF CppBody, StepsOf

(* More code inside makes more code.                                         *)
LEMMA BlocksGrow ==
    ASSUME NEW D, NEW E, D \subseteq E
    PROVE  Blocks(D) \subseteq Blocks(E)
<1>1. ASSUME NEW s \in CodeStatement(D) PROVE s \in CodeStatement(E)
  <2>1. Seq(HandlerOf(D)) \subseteq Seq(HandlerOf(E))
    <3>1. HandlerOf(D) \subseteq HandlerOf(E)
      BY DEF HandlerOf
    <3> QED  BY <3>1, SeqMonotonic
  <2> QED  BY <2>1 DEF CodeStatement
<1> QED  BY <1>1, SeqMonotonic DEF Blocks

(* What runs the code one level up is grounded too.                          *)
LEMMA RunningIs ==
    ASSUME NEW D, NEW below, Grounded(D, below)
    PROVE  /\ Grounded(Blocks(D), Running(D, below))
           /\ \A code \in Blocks(D), st \in Memory :
                 /\ CppBody(code, st, below) \in Memory
                 /\ Running(D, below)[code][st] = CppBody(code, st, below)
                 /\ CppBody(code, st, Running(D, below)) = CppBody(code, st, below)
           /\ Running(D, below) \in [Blocks(D) -> [Memory -> Memory]]
<1> DEFINE W == Running(D, below)
           E == Blocks(D)
<1>1. \A code \in E, st \in Memory :
         CppBody(code, st, below) \in Memory /\ W[code][st] = CppBody(code, st, below)
  BY CodeIsTyped DEF Grounded, Running, Blocks
<1>2. W \in [E -> [Memory -> Memory]]
  <2>1. W = [code \in E |-> [st \in Memory |-> CppBody(code, st, below)]]
    BY DEF Running
  <2> HIDE DEF W, E
  <2> QED  BY <1>1, <2>1
<1>3. \A x \in D, st \in Memory : below[x][st] = W[x][st]
  BY <1>1 DEF Grounded
<1>4. \A code \in E, st \in Memory : CppBody(code, st, below) = CppBody(code, st, W)
  <2> HIDE DEF W
  <2> QED  BY <1>3, SameCode DEF Grounded
<1>5. E \subseteq Blocks(E)
  BY BlocksGrow DEF Grounded
<1> HIDE DEF W, E
<1> QED  BY <1>1, <1>2, <1>4, <1>5 DEF W, E, Grounded

(* A statement of Python takes a result to a result.                         *)
LEMMA PyTyped ==
    ASSUME NEW B, NEW ref \in [B -> [Result -> Result]], NEW s \in FlowStatement(B),
           NEW r \in Result
    PROVE  PyStmt(s, r, ref) \in Result
<1> USE FlowStatementIs
<1>0. /\ r.log \in Seq(Entry)
      /\ \A x \in Seq(Entry) : [r EXCEPT !.log = x] \in Result
      /\ \A x \in Outcome : [r EXCEPT !.out = x] \in Result
  BY DEF Result
<1>1. CASE s.k = "log"
  <2>1. Append(r.log, s.v) \in Seq(Entry)
    BY <1>0, <1>1 DEF Entry
  <2> QED  BY <1>0, <1>1, <2>1 DEF PyStmt, Jumps
<1>2. CASE s.k = "raise"
  <2>1. s.e \in Outcome
    BY <1>2 DEF Outcome
  <2> QED  BY <1>0, <1>2, <2>1 DEF PyStmt, Jumps
<1>3. CASE s.k \in Jumps
  BY <1>0, <1>3 DEF PyStmt, Jumps, Outcome
<1>4. CASE s.k = "with"
  <2> DEFINE end == ref[s.body][[r EXCEPT !.log = Append(r.log, <<"enter", s.m>>)]]
  <2>1. Append(r.log, <<"enter", s.m>>) \in Seq(Entry)
    BY <1>0, <1>4 DEF Entry
  <2>2. end \in Result
    BY <1>0, <1>4, <2>1
  <2>3. PyStmt(s, r, ref) = [end EXCEPT !.log = Append(end.log, <<"exit", s.m>>)]
    BY <1>4 DEF PyStmt, PyWith, Jumps
  <2> HIDE DEF end
  <2>4. Append(end.log, <<"exit", s.m>>) \in Seq(Entry)
    BY <1>4, <2>2, ResultIs DEF Entry
  <2> QED  BY <2>2, <2>3, <2>4 DEF Result
<1>5. CASE s.k = "loop"
  <2> DEFINE steps == [i \in 1 .. s.n |-> [q \in Result |-> AfterRound(ref[s.body][q])]]
             rounds == Chain(steps, r)
  <2>1. steps \in Seq([Result -> Result])
    BY <1>5, RoundsAreTyped, AfterResult
  <2> HIDE DEF steps
  <2>2. rounds \in Result
    BY <2>1, ChainIsTyped
  <2>3. PyStmt(s, r, ref)
          = IF rounds.out = "normal" THEN ref[s.orelse][rounds] ELSE AfterLoop(rounds)
    BY <1>5 DEF PyStmt, PyLoop, Jumps, steps
  <2> HIDE DEF rounds
  <2> QED  BY <1>5, <2>2, <2>3, AfterResult
<1>6. CASE s.k = "try"
  <2> DEFINE tried == ref[s.body][r]
             fit == Fit(s.handlers, tried.out)
             next == [tried EXCEPT !.out = "normal"]
             inner == s.handlers[First(fit)].body
             rest == IF tried.out \in Exc /\ fit # {} THEN ref[inner][next]
                     ELSE IF tried.out = "normal" THEN ref[s.orelse][tried]
                     ELSE tried
  <2>1. tried \in Result
    BY <1>6
  <2>2. ASSUME fit # {} PROVE ref[inner][next] \in Result
    <3>1. next \in Result
      BY <2>1 DEF Result, Outcome
    <3>2. inner \in B
      BY <1>6, <2>2, FitIs
    <3> HIDE DEF next, inner
    <3> QED  BY <3>1, <3>2
  <2>3. ref[s.orelse] \in [Result -> Result]
    BY <1>6
  <2>4. PyStmt(s, r, ref) = Logged(rest, s.final)
    BY <1>6 DEF PyStmt, PyTry, Jumps
  <2>5. rest \in Result
    <3> HIDE DEF tried, fit, next, inner
    <3> QED  BY <2>1, <2>2, <2>3
  <2> HIDE DEF rest
  <2>6. Values(s.final) \in Seq(Entry) /\ rest.log \in Seq(Entry)
    BY <1>6, <2>5, LogLinesAre, ValuesAre, ResultIs
  <2>7. rest.log \o Values(s.final) \in Seq(Entry)
    <3> DEFINE u == rest.log
               v == Values(s.final)
    <3> HIDE DEF u, v
    <3> QED  BY <2>6, Concatenation DEF u, v
  <2>8. PyStmt(s, r, ref) = [rest EXCEPT !.log = rest.log \o Values(s.final)]
    BY <2>4 DEF Logged, Values
  <2> QED  BY <2>5, <2>7, <2>8 DEF Result
<1> QED  BY <1>1, <1>2, <1>3, <1>4, <1>5, <1>6 DEF Jumps

(* The code of a statement: its lines by themselves, and then in a row.      *)
LEMMA LinesAre ==
    ASSUME NEW E
    PROVE  /\ Seq(LogLine) \subseteq Blocks(E) /\ <<>> \in Blocks(E)
           /\ \A j \in Jumps : <<Jump(j)>> \in Blocks(E)
           /\ <<Rethrow>> \in Blocks(E)
           /\ \A f \in Nat, b \in BOOLEAN : <<SetFlag(f, b)>> \in Blocks(E)
           /\ \A f \in Nat, inner \in E : <<IfFlag(f, inner)>> \in Blocks(E)
           /\ \A inner \in E, hs \in Seq(HandlerOf(E)) : <<CppTry(inner, hs)>> \in Blocks(E)
           /\ \A n \in Nat, inner \in E : <<CppLoop(n, inner)>> \in Blocks(E)
           /\ \A x, y \in Blocks(E) : x \o y \in Blocks(E)
<1>1. \A x \in CodeStatement(E) : <<x>> \in Blocks(E)
  BY DEF Blocks
<1>2. Seq(LogLine) \subseteq Blocks(E) /\ <<>> \in Blocks(E)
  BY LogLinesAre DEF Blocks
<1>3. /\ \A j \in Jumps : Jump(j) \in CodeStatement(E)
      /\ Rethrow \in CodeStatement(E)
      /\ \A f \in Nat, b \in BOOLEAN : SetFlag(f, b) \in CodeStatement(E)
      /\ \A f \in Nat, inner \in E : IfFlag(f, inner) \in CodeStatement(E)
      /\ \A n \in Nat, inner \in E : CppLoop(n, inner) \in CodeStatement(E)
  BY DEF CodeStatement, Jump, Rethrow, SetFlag, IfFlag, CppLoop
<1>4. \A inner \in E, hs \in Seq(HandlerOf(E)) : CppTry(inner, hs) \in CodeStatement(E)
  BY DEF CodeStatement, CppTry
<1>5. \A x, y \in Blocks(E) : x \o y \in Blocks(E)
  BY Concatenation DEF Blocks
<1> QED  BY <1>1, <1>2, <1>3, <1>4, <1>5

(* The contexts inside a statement are contexts.                             *)
LEMMA ContextsTyped ==
    ASSUME NEW c \in Context
    PROVE  /\ \A final \in Straight : InTry(c, final) \in Context
           /\ \A m \in Manager : InWith(c, m) \in Context
           /\ \A flag \in Nat : InLoop(c, flag) \in Context
           /\ Deeper(c) \in Context
<1> DEFINE S == [k : {"log"}, v : {"exit"} \X Manager]
<1>0. \A x \in Straight, y \in Seq(S), f \in Nat, n \in Nat \ {0} :
         [finals |-> x, exits |-> y, flag |-> f, depth |-> n] \in Context
  BY DEF Context
<1>1. /\ c.finals \in Straight /\ c.exits \in Seq(S) /\ c.flag \in Nat
      /\ c.depth + 1 \in Nat \ {0}
  <2>1. c.finals \in Straight /\ c.exits \in Seq(S) /\ c.flag \in Nat
    BY DEF Context
  <2>2. c.depth \in Nat
    BY DEF Context
  <2> QED  BY <2>1, <2>2
<1>2. ASSUME NEW final \in Straight PROVE InTry(c, final) \in Context
  <2>1. final \o c.finals \in Straight
    BY <1>1, Concatenation DEF Straight
  <2> HIDE DEF S
  <2> QED  BY <1>0, <1>1, <2>1, ContextsInside
<1>3. ASSUME NEW m \in Manager PROVE InWith(c, m) \in Context
  <2> DEFINE x == <<Log(<<"exit", m>>)>>
  <2>1. x \in Seq(S)
    <3>1. Log(<<"exit", m>>) \in S
      BY DEF Log
    <3> QED  BY <3>1
  <2> HIDE DEF x, S
  <2>2. x \o c.exits \in Seq(S)
    BY <1>1, <2>1, Concatenation
  <2>3. InWith(c, m) = [finals |-> c.finals, exits |-> x \o c.exits,
                        flag |-> c.flag, depth |-> c.depth + 1]
    BY ContextsInside DEF x
  <2> QED  BY <1>0, <1>1, <2>2, <2>3
<1>4. ASSUME NEW flag \in Nat PROVE InLoop(c, flag) \in Context
  <2> HIDE DEF S
  <2> QED  BY <1>0, <1>1, ContextsInside
<1> QED  BY <1>2, <1>3, <1>4, DeeperIs

(* The catch clauses of a try.                                               *)
Cleared(s, c) == IF s.orelse # <<>> THEN <<SetFlag(c.depth, FALSE)>> ELSE <<>>

(* The clauses of the handlers,                                              *)
CaughtBy(s, c, low) ==
    [i \in DOMAIN s.handlers |->
        Handler(s.handlers[i].types, s.handlers[i].bare,
                Cleared(s, c) \o low[s.handlers[i].body][InTry(c, s.final)])]

(* the clause for whatever they do not take,                                 *)
Others(s, c) == Handler({}, TRUE, Cleared(s, c) \o s.final \o <<Rethrow>>)

(* and all of them.                                                          *)
Clauses(s, c, low) ==
    IF \E i \in DOMAIN s.handlers : s.handlers[i].bare THEN CaughtBy(s, c, low)
    ELSE Append(CaughtBy(s, c, low), Others(s, c))

(* The clauses are catch clauses, one for each handler and one more when no  *)
(* handler is bare.                                                          *)
LEMMA ClausesAre ==
    ASSUME NEW B, NEW D, NEW low \in [B -> [Context -> Blocks(D)]],
           NEW s \in FlowStatement(B), s.k = "try", NEW c \in Context
    PROVE  /\ Clauses(s, c, low) \in Seq(HandlerOf(Blocks(D)))
           /\ Len(Clauses(s, c, low)) = IF \E i \in DOMAIN s.handlers : s.handlers[i].bare
                                        THEN Len(s.handlers) ELSE Len(s.handlers) + 1
           /\ \A i \in 1 .. Len(s.handlers) :
                 Clauses(s, c, low)[i]
                   = Handler(s.handlers[i].types, s.handlers[i].bare,
                             Cleared(s, c) \o low[s.handlers[i].body][InTry(c, s.final)])
           /\ ~(\E i \in DOMAIN s.handlers : s.handlers[i].bare)
                 => Clauses(s, c, low)[Len(s.handlers) + 1] = Others(s, c)
           /\ Cleared(s, c) \in Blocks(D)
<1> DEFINE E == Blocks(D)
           H == HandlerOf(E)
           hs == s.handlers
           N == Len(hs)
           d == InTry(c, s.final)
           cl == Cleared(s, c)
           G(i) == Handler(hs[i].types, hs[i].bare, cl \o low[hs[i].body][d])
           u == CaughtBy(s, c, low)
           o == Others(s, c)
<1>1. hs \in Seq(HandlerOf(B)) /\ s.final \in Straight /\ DOMAIN hs = 1 .. N /\ N \in Nat
  BY FlowStatementIs
<1>2. \A i \in 1 .. N : hs[i] \in HandlerOf(B)
  BY <1>1
<1>3. c.depth \in Nat /\ d \in Context
  BY <1>1, ContextIs, ContextsTyped
<1>4. \A x, y \in E : x \o y \in E
  BY LinesAre
<1>5. cl \in E /\ s.final \in E /\ <<Rethrow>> \in E
  BY <1>1, <1>3, LinesAre, LogLinesAre DEF Cleared
<1>6. \A t \in SUBSET Exc, b \in BOOLEAN, x \in E : Handler(t, b, x) \in H
  BY DEF Handler, HandlerOf
<1>7. ASSUME NEW i \in 1 .. N PROVE G(i) \in H
  <2>1. hs[i].types \in SUBSET Exc /\ hs[i].bare \in BOOLEAN /\ hs[i].body \in B
    BY <1>2 DEF HandlerOf
  <2>2. low[hs[i].body][d] \in E
    BY <1>3, <2>1
  <2> HIDE DEF cl, d, E, H
  <2>3. cl \o low[hs[i].body][d] \in E
    BY <1>4, <1>5, <2>2
  <2> QED  BY <1>6, <2>1, <2>3
<1>8. o \in H
  <2>1. cl \o s.final \o <<Rethrow>> \in E
    <3> HIDE DEF cl, E
    <3> QED  BY <1>4, <1>5
  <2>2. {} \in SUBSET Exc /\ TRUE \in BOOLEAN
    OBVIOUS
  <2> HIDE DEF H, E
  <2> QED  BY <1>6, <2>1, <2>2 DEF Others
<1>9. u = [i \in 1 .. N |-> G(i)]
  BY <1>1 DEF CaughtBy
<1> HIDE DEF G, u, H, o, N, hs
<1>10. u \in Seq(H) /\ Len(u) = N /\ \A i \in 1 .. N : u[i] = G(i)
  BY <1>1, <1>7, <1>9
<1>11. /\ Append(u, o) \in Seq(H) /\ Len(Append(u, o)) = N + 1
       /\ \A i \in 1 .. N : Append(u, o)[i] = u[i]
       /\ Append(u, o)[N + 1] = o
  BY <1>1, <1>8, <1>10
<1>12. Clauses(s, c, low) = IF \E i \in DOMAIN hs : hs[i].bare THEN u ELSE Append(u, o)
  BY DEF Clauses, u, o, hs
<1>13. \A i \in 1 .. N : Clauses(s, c, low)[i] = G(i)
  BY <1>10, <1>11, <1>12
<1>14. /\ Clauses(s, c, low) \in Seq(H)
       /\ Len(Clauses(s, c, low)) = IF \E i \in DOMAIN hs : hs[i].bare THEN N ELSE N + 1
       /\ ~(\E i \in DOMAIN hs : hs[i].bare) => Clauses(s, c, low)[N + 1] = o
  BY <1>10, <1>11, <1>12
<1> QED  BY <1>5, <1>13, <1>14 DEF G, H, o, N, hs

(* Which clause takes an exception, and what is in it.                       *)
ClauseTaken(s, c, low, e) ==
    LET fit == Fit(s.handlers, e)
        cs == Clauses(s, c, low)
    IN  /\ Fit(cs, e) # {}
        /\ fit # {} =>
              /\ First(Fit(cs, e)) = First(fit) /\ First(fit) \in 1 .. Len(s.handlers)
              /\ cs[First(fit)].body
                   = Cleared(s, c) \o low[s.handlers[First(fit)].body][InTry(c, s.final)]
        /\ fit = {} =>
              cs[First(Fit(cs, e))].body = Cleared(s, c) \o s.final \o <<Rethrow>>

(* The clause that takes an exception is that of the first handler that      *)
(* does, and the last one if there is no such handler.                       *)
LEMMA ClauseThatFits ==
    ASSUME NEW B, NEW D, NEW low \in [B -> [Context -> Blocks(D)]],
           NEW s \in FlowStatement(B), s.k = "try", NEW c \in Context, NEW e \in Exc
    PROVE  ClauseTaken(s, c, low, e)
<1> DEFINE hs == s.handlers
           cs == Clauses(s, c, low)
           N == Len(hs)
           M == Len(cs)
           d == InTry(c, s.final)
           hasBare == \E i \in DOMAIN hs : hs[i].bare
<1>1. /\ hs \in Seq(HandlerOf(B)) /\ DOMAIN hs = 1 .. N /\ N \in Nat
      /\ cs \in Seq(HandlerOf(Blocks(D))) /\ DOMAIN cs = 1 .. M /\ M \in Nat
  BY FlowStatementIs, ClausesAre
<1>2. /\ M = IF hasBare THEN N ELSE N + 1
      /\ \A i \in 1 .. N : cs[i] = Handler(hs[i].types, hs[i].bare,
                                           Cleared(s, c) \o low[hs[i].body][d])
      /\ ~hasBare => cs[N + 1] = Others(s, c)
  BY ClausesAre
<1> HIDE DEF cs
<1>14. \A t, b, x : LET h == Handler(t, b, x) IN h.types = t /\ h.bare = b /\ h.body = x
  BY DEF Handler
<1>3. ASSUME NEW i \in 1 .. N PROVE Catches(cs[i], e) <=> Catches(hs[i], e)
  <2>1. cs[i].types = hs[i].types /\ cs[i].bare = hs[i].bare
    <3> DEFINE x == Cleared(s, c) \o low[hs[i].body][d]
    <3>1. cs[i] = Handler(hs[i].types, hs[i].bare, x)
      BY <1>2
    <3> HIDE DEF x, hs
    <3> QED  BY <1>14, <3>1
  <2> QED  BY <2>1, Zenon DEF Catches
<1>4. ~hasBare => Catches(cs[N + 1], e)
  BY <1>2 DEF Catches, Others, Handler
<1> DEFINE fh == Fit(hs, e)
           fc == Fit(cs, e)
<1>5. fh = {i \in 1 .. N : Catches(hs[i], e)} /\ fc = {i \in 1 .. M : Catches(cs[i], e)}
  BY <1>1 DEF Fit
<1>6. fh \subseteq fc /\ fc \in SUBSET Nat /\ fh \in SUBSET Nat /\ \A i \in fc : i <= N => i \in fh
  BY <1>1, <1>2, <1>3, <1>5
<1>7. ~hasBare => N + 1 \in fc
  BY <1>1, <1>2, <1>4, <1>5
<1>8. hasBare => fh # {}
  BY <1>1, <1>5 DEF Catches
<1>9. fc # {}
  BY <1>6, <1>7, <1>8
<1> HIDE DEF fh, fc
<1>10. ASSUME fh # {}
       PROVE  /\ First(fc) = First(fh) /\ First(fh) \in 1 .. N
              /\ cs[First(fh)].body = Cleared(s, c) \o low[hs[First(fh)].body][d]
  <2> DEFINE m == First(fh)
  <2>1. m \in fh /\ \A j \in fh : m <= j
    BY <1>6, <1>10, FirstIsLeast
  <2>2. m \in 1 .. N
    BY <1>5, <2>1
  <2> HIDE DEF m
  <2>3. \A j \in fc : m <= j
    BY <1>1, <1>6, <2>1, <2>2
  <2>4. First(fc) = m
    BY <1>6, <2>1, <2>3, FirstIsUnique
  <2>5. cs[m].body = Cleared(s, c) \o low[hs[m].body][d]
    <3> DEFINE x == Cleared(s, c) \o low[hs[m].body][d]
    <3>1. cs[m] = Handler(hs[m].types, hs[m].bare, x)
      BY <1>2, <2>2
    <3> HIDE DEF x, hs
    <3>2. cs[m].body = x
      BY <1>14, <3>1
    <3> QED  BY <3>2 DEF x
  <2> QED  BY <2>2, <2>4, <2>5 DEF m
<1>11. ASSUME fh = {}
       PROVE  cs[First(fc)].body = Cleared(s, c) \o s.final \o <<Rethrow>>
  <2>1. ~hasBare
    BY <1>8, <1>11
  <2>2. \A j \in fc : j = N + 1
    BY <1>1, <1>2, <1>5, <1>6, <1>11, <2>1
  <2>3. First(fc) = N + 1
    <3> HIDE DEF hasBare, N
    <3> QED  BY <1>6, <1>9, <2>2, FirstIsLeast
  <2> QED  BY <1>2, <2>1, <2>3 DEF Others, Handler
<1> QED  BY <1>9, <1>10, <1>11 DEF ClauseTaken, fh, fc, cs

(* The code of a try, in one row.                                            *)
LEMMA LowTryIs ==
    ASSUME NEW s, NEW c, NEW low
    PROVE  LowTry(s, c, low)
             = (IF s.orelse # <<>> THEN <<SetFlag(c.depth, TRUE)>> ELSE <<>>)
               \o <<CppTry(low[s.body][InTry(c, s.final)], Clauses(s, c, low))>>
               \o (IF s.orelse # <<>> THEN <<IfFlag(c.depth, low[s.orelse][InTry(c, s.final)])>>
                   ELSE <<>>)
               \o s.final
BY DEF LowTry, Clauses, CaughtBy, Others, Cleared

(* The code of every statement is code.                                      *)
LEMMA LowTyped ==
    ASSUME NEW B, NEW D, D \subseteq Blocks(D), NEW low \in [B -> [Context -> Blocks(D)]],
           NEW s \in FlowStatement(B), NEW c \in Context
    PROVE  LowStmt(s, c, low) \in Blocks(Blocks(D))
<1> DEFINE E == Blocks(D)
<1> USE FlowStatementIs
<1>0. /\ E \subseteq Blocks(E) /\ \A x, y \in Blocks(E) : x \o y \in Blocks(E)
      /\ c.finals \in Blocks(E) /\ c.exits \in Blocks(E) /\ <<>> \in Blocks(E)
      /\ c.depth \in Nat /\ c.flag \in Nat
  BY BlocksGrow, LinesAre, ContextIs
<1>1. CASE s.k \in {"log", "raise"}
  <2>1. LowStmt(s, c, low) = <<s>>
    BY <1>1 DEF LowStmt
  <2>2. s \in CodeStatement(E)
    BY <1>1 DEF CodeStatement, Entry
  <2> QED  BY <2>1, <2>2 DEF Blocks
<1>2. CASE s.k \in Jumps
  <2>1. <<Jump(s.k)>> \in Blocks(E)
    BY <1>2, LinesAre
  <2>2. \A f \in Nat : <<SetFlag(f, FALSE)>> \in Blocks(E)
    BY LinesAre
  <2> HIDE DEF E
  <2>3. /\ LowReturn(c) \in Blocks(E) \/ s.k # "return"
        /\ LowBreak(c) \in Blocks(E) \/ s.k # "break"
        /\ LowContinue(c) \in Blocks(E) \/ s.k # "continue"
    BY <1>0, <2>1, <2>2 DEF LowReturn, LowBreak, LowContinue
  <2> QED  BY <1>2, <2>3 DEF LowStmt, Jumps, E
<1>3. CASE s.k = "with"
  <2> DEFINE x == <<Log(<<"enter", s.m>>)>>
             y == <<Log(<<"exit", s.m>>)>>
             z == low[s.body][InWith(c, s.m)]
  <2>1. x \in Seq(LogLine) /\ y \in Seq(LogLine)
    BY <1>3 DEF Log, LogLine, Entry
  <2>2. x \in Blocks(E) /\ y \in Blocks(E)
    BY <2>1, LinesAre
  <2>3. z \in E
    <3>1. InWith(c, s.m) \in Context
      BY <1>3, ContextsTyped
    <3> QED  BY <1>3, <3>1
  <2>4. LowStmt(s, c, low) = x \o z \o y
    BY <1>3 DEF LowStmt, LowWith
  <2> HIDE DEF x, y, z, E
  <2> QED  BY <1>0, <2>2, <2>3, <2>4 DEF E
<1>4. CASE s.k = "loop"
  <2>1. \A flag \in Nat : low[s.body][InLoop(c, flag)] \in E
    BY <1>4, ContextsTyped
  <2>2. low[s.orelse][Deeper(c)] \in E
    BY <1>4, ContextsTyped
  <2>3. \A n \in Nat, x \in E : CppLoop(n, x) \in CodeStatement(E)
    BY DEF CodeStatement, CppLoop
  <2>4. \A f \in Nat, x \in E : IfFlag(f, x) \in CodeStatement(E)
                                /\ SetFlag(f, TRUE) \in CodeStatement(E)
    BY DEF CodeStatement, SetFlag, IfFlag
  <2>5. LowStmt(s, c, low) = LowLoop(s, c, low)
    BY <1>4 DEF LowStmt
  <2>6. CASE s.orelse = <<>>
    <3>1. LowLoop(s, c, low) = <<CppLoop(s.n, low[s.body][InLoop(c, NoFlag)])>>
      BY <2>6 DEF LowLoop
    <3>2. CppLoop(s.n, low[s.body][InLoop(c, NoFlag)]) \in CodeStatement(E)
      BY <1>4, <2>1, <2>3 DEF NoFlag
    <3> QED  BY <2>5, <3>1, <3>2 DEF Blocks
  <2>7. CASE s.orelse # <<>>
    <3> DEFINE x == SetFlag(c.depth, TRUE)
               y == CppLoop(s.n, low[s.body][InLoop(c, c.depth)])
               z == IfFlag(c.depth, low[s.orelse][Deeper(c)])
    <3>1. LowLoop(s, c, low) = <<x, y, z>>
      BY <2>7 DEF LowLoop
    <3>2. x \in CodeStatement(E) /\ y \in CodeStatement(E) /\ z \in CodeStatement(E)
      <4> HIDE DEF E
      <4> QED  BY <1>0, <1>4, <2>1, <2>2, <2>3, <2>4
    <3> HIDE DEF x, y, z
    <3> QED  BY <2>5, <3>1, <3>2 DEF Blocks
  <2> QED  BY <2>6, <2>7
<1>5. CASE s.k = "try"
  <2> DEFINE d == InTry(c, s.final)
             hs == Clauses(s, c, low)
             w == IF s.orelse # <<>> THEN <<SetFlag(c.depth, TRUE)>> ELSE <<>>
             x == <<CppTry(low[s.body][d], hs)>>
             y == IF s.orelse # <<>> THEN <<IfFlag(c.depth, low[s.orelse][d])>> ELSE <<>>
             z == s.final
  <2>1. d \in Context /\ z \in Seq(LogLine)
    BY <1>5, ContextsTyped, LogLinesAre
  <2>2. low[s.body][d] \in E /\ low[s.orelse][d] \in E
    BY <1>5, <2>1
  <2>3. hs \in Seq(HandlerOf(E))
    BY <1>5, ClausesAre
  <2> HIDE DEF d, hs
  <2>4. w \in Blocks(E) /\ x \in Blocks(E) /\ y \in Blocks(E) /\ z \in Blocks(E)
    BY <1>0, <2>1, <2>2, <2>3, LinesAre
  <2>5. LowStmt(s, c, low) = w \o x \o y \o z
    BY <1>5, LowTryIs DEF LowStmt, d, hs
  <2> HIDE DEF w, x, y, z, E
  <2> QED  BY <1>0, <2>4, <2>5 DEF E
<1> QED  BY <1>1, <1>2, <1>3, <1>4, <1>5 DEF Jumps

(* What is logged before anything else.                                      *)
Logging(st, code) == [st EXCEPT !.log = st.log \o Values(code)]

(* Straight-line code before other code.                                     *)
LEMMA LogsThen ==
    ASSUME NEW B, NEW walk \in [B -> [Memory -> Memory]], NEW code \in Seq(LogLine),
           NEW tail \in Blocks(B), NEW st \in Memory, st.out = "normal"
    PROVE  /\ Logging(st, code) \in Memory /\ Logging(st, code).out = "normal"
           /\ Logging(st, code).log = st.log \o Values(code)
           /\ Logging(st, code).up = st.up /\ Logging(st, code).cur = st.cur
           /\ CppBody(code, st, walk) = Logging(st, code)
           /\ CppBody(code \o tail, st, walk) = CppBody(tail, Logging(st, code), walk)
<1> DEFINE x == st.log
           v == Values(code)
<1>1. x \in Seq(Entry) /\ v \in Seq(Entry)
  BY MemoryIs, ValuesAre
<1>2. x \o v \in Seq(Entry)
  <2> HIDE DEF x, v
  <2> QED  BY <1>1, Concatenation
<1>3. /\ Logging(st, code) \in Memory /\ Logging(st, code).out = "normal"
      /\ Logging(st, code).log = st.log \o Values(code)
      /\ Logging(st, code).up = st.up /\ Logging(st, code).cur = st.cur
  <2> HIDE DEF v
  <2>1. Logging(st, code) = [st EXCEPT !.log = x \o v]
    BY DEF Logging, v
  <2> DEFINE l == x \o v
  <2> HIDE DEF l
  <2>2. /\ [st EXCEPT !.log = l] \in Memory /\ [st EXCEPT !.log = l].out = "normal"
        /\ [st EXCEPT !.log = l].log = l
        /\ [st EXCEPT !.log = l].up = st.up /\ [st EXCEPT !.log = l].cur = st.cur
    BY <1>2 DEF Memory, l
  <2> QED  BY <2>1, <2>2 DEF l, v
<1>4. CppBody(code, st, walk) = Logging(st, code)
  BY CodeOfLogs DEF Logging
<1>5. code \in Seq(CodeStatement(B)) /\ tail \in Seq(CodeStatement(B))
  BY LogLinesAre DEF Blocks
<1>6. CppBody(code \o tail, st, walk) = CppBody(tail, CppBody(code, st, walk), walk)
  BY <1>5, CodeOfTwo
<1> QED  BY <1>3, <1>4, <1>6

(* An end that is not a jump.                                                *)
LEMMA PlainEnds ==
    ASSUME NEW c \in Context, NEW a \in Place, NEW x \in Result, NEW y, NEW st,
           x.out \notin Jumps, Allowed(a, x.out),
           y.out = x.out, y.log = x.log, y.cur = st.cur, Flags(c, x.out, y.up, st.up)
    PROVE  Arrives(c, a, x, y, st)
<1>1. Extra(c, x.out) = <<>>
  BY ExtraIsTyped
<1>2. x.log \o <<>> = x.log
  BY ResultIs, Concatenation
<1> QED  BY <1>1, <1>2 DEF Arrives

(* A normal end is none by a jump, and is allowed everywhere.                *)
LEMMA NormalIsPlain ==
    /\ "normal" \notin Jumps
    /\ \A a : Allowed(a, "normal")
    /\ \A e \in Exc : e \notin Jumps /\ e # NoExc /\ e # "normal"
BY FlowAssumption DEF Jumps, Allowed, NoExc

(* log and raise.                                                            *)
LEMMA LogEnds ==
    ASSUME NEW B, NEW ref, NEW low, NEW walk \in [B -> [Memory -> Memory]],
           NEW c \in Context, NEW a \in Place,
           NEW v \in Value, NEW r \in Result, NEW st \in Memory, Same(r, st)
    PROVE  LET s == [k |-> "log", v |-> v]
           IN  Arrives(c, a, PyStmt(s, r, ref), CppBody(LowStmt(s, c, low), st, walk), st)
<1> DEFINE s == [k |-> "log", v |-> v]
           l == Append(r.log, v)
<1>1. s \in CodeStatement(B) /\ LowStmt(s, c, low) = <<s>>
  BY DEF CodeStatement, Entry, LowStmt
<1>2. CppBody(LowStmt(s, c, low), st, walk) = CppStmt(s, st, walk)
  <2> HIDE DEF s
  <2> QED  BY <1>1, CodeOfOne DEF Same
<1>3. CppStmt(s, st, walk) = [st EXCEPT !.log = l] /\ PyStmt(s, r, ref) = [r EXCEPT !.log = l]
  BY DEF CppStmt, PyStmt, Jumps, Same
<1>4. l \in Seq(Entry)
  BY ResultIs DEF Entry
<1> HIDE DEF s, l
<1>5. [r EXCEPT !.log = l] \in Result
  BY <1>4 DEF Result
<1>6. /\ [r EXCEPT !.log = l].out = "normal" /\ [r EXCEPT !.log = l].log = l
      /\ [st EXCEPT !.log = l].out = "normal" /\ [st EXCEPT !.log = l].log = l
      /\ [st EXCEPT !.log = l].up = st.up /\ [st EXCEPT !.log = l].cur = st.cur
  BY DEF Result, Memory, Same
<1>7. Arrives(c, a, [r EXCEPT !.log = l], [st EXCEPT !.log = l], st)
  BY <1>5, <1>6, PlainEnds, NormalIsPlain DEF Flags
<1> QED  BY <1>2, <1>3, <1>7 DEF s

(* What is raised is raised on both sides.                                   *)
LEMMA RaiseEnds ==
    ASSUME NEW B, NEW ref, NEW low, NEW walk \in [B -> [Memory -> Memory]],
           NEW c \in Context, NEW a \in Place, "raise" \in a.may,
           NEW e \in Exc, NEW r \in Result, NEW st \in Memory, Same(r, st)
    PROVE  LET s == [k |-> "raise", e |-> e]
           IN  Arrives(c, a, PyStmt(s, r, ref), CppBody(LowStmt(s, c, low), st, walk), st)
<1> DEFINE s == [k |-> "raise", e |-> e]
<1>1. s \in CodeStatement(B) /\ LowStmt(s, c, low) = <<s>>
  BY DEF CodeStatement, LowStmt
<1>2. CppBody(LowStmt(s, c, low), st, walk) = CppStmt(s, st, walk)
  <2> HIDE DEF s
  <2> QED  BY <1>1, CodeOfOne DEF Same
<1>3. CppStmt(s, st, walk) = [st EXCEPT !.out = e] /\ PyStmt(s, r, ref) = [r EXCEPT !.out = e]
  BY DEF CppStmt, PyStmt, Jumps
<1> HIDE DEF s
<1>4. [r EXCEPT !.out = e] \in Result
  BY DEF Result, Outcome
<1>5. /\ [r EXCEPT !.out = e].out = e /\ [r EXCEPT !.out = e].log = r.log
      /\ [st EXCEPT !.out = e].out = e /\ [st EXCEPT !.out = e].log = st.log
      /\ [st EXCEPT !.out = e].up = st.up /\ [st EXCEPT !.out = e].cur = st.cur
  BY DEF Result, Memory
<1>6. Allowed(a, e) /\ e \notin Jumps /\ st.log = r.log /\ e # "break"
  BY NormalIsPlain DEF Allowed, Same, Jumps
<1>7. Arrives(c, a, [r EXCEPT !.out = e], [st EXCEPT !.out = e], st)
  BY <1>4, <1>5, <1>6, PlainEnds DEF Flags
<1> QED  BY <1>2, <1>3, <1>7 DEF s

(* The jumps: what is around logs first, break clears the flag of its loop.  *)
Cut(st, code, j, down) ==
    [log |-> st.log \o Values(code), out |-> j, up |-> st.up \ down, cur |-> st.cur]

(* Records with another field: for the memories.                             *)
LEMMA MemoryChanged ==
    ASSUME NEW st \in Memory, NEW x
    PROVE  /\ [st EXCEPT !.log = x]
                = [log |-> x, out |-> st.out, up |-> st.up, cur |-> st.cur]
           /\ [st EXCEPT !.out = x]
                = [log |-> st.log, out |-> x, up |-> st.up, cur |-> st.cur]
           /\ [st EXCEPT !.up = x]
                = [log |-> st.log, out |-> st.out, up |-> x, cur |-> st.cur]
           /\ [st EXCEPT !.cur = x]
                = [log |-> st.log, out |-> st.out, up |-> st.up, cur |-> x]
BY DEF Memory

(* The line that clears a flag.                                              *)
Clear(f) == <<SetFlag(f, FALSE)>>

(* The code of a jump cuts the run short.                                    *)
LEMMA JumpCode ==
    ASSUME NEW B, NEW walk \in [B -> [Memory -> Memory]], NEW code \in Seq(LogLine),
           NEW j \in Jumps, NEW st \in Memory, st.out = "normal"
    PROVE  /\ code \o <<Jump(j)>> \in Blocks(B)
           /\ CppBody(code \o <<Jump(j)>>, st, walk) = Cut(st, code, j, {})
           /\ \A f \in Nat :
                 CppBody(code \o Clear(f) \o <<Jump(j)>>, st, walk)
                   = Cut(st, code, j, {f})
<1> DEFINE y == Logging(st, code)
           t == <<Jump(j)>>
<1>1. /\ Jump(j) \in CodeStatement(B) /\ t \in Blocks(B) /\ code \in Blocks(B)
      /\ \A f \in Nat : SetFlag(f, FALSE) \in CodeStatement(B)
                        /\ Clear(f) \in Blocks(B)
  <2>1. /\ Jump(j) \in CodeStatement(B)
        /\ \A f \in Nat : SetFlag(f, FALSE) \in CodeStatement(B)
    BY DEF CodeStatement, Jump, SetFlag
  <2> QED  BY <2>1, LinesAre DEF Clear
<1>2. /\ y \in Memory /\ y.out = "normal" /\ y.log = st.log \o Values(code)
      /\ y.up = st.up /\ y.cur = st.cur
      /\ \A tail \in Blocks(B) : CppBody(code \o tail, st, walk) = CppBody(tail, y, walk)
  <2>1. <<>> \in Blocks(B)
    BY LinesAre
  <2> QED  BY <2>1, LogsThen
<1>3. \A z \in Memory : z.out = "normal" => CppBody(t, z, walk) = [z EXCEPT !.out = j]
  <2> TAKE z \in Memory
  <2> HAVE z.out = "normal"
  <2>1. CppBody(t, z, walk) = CppStmt(Jump(j), z, walk)
    BY <1>1, CodeOfOne
  <2>2. CppStmt(Jump(j), z, walk) = [z EXCEPT !.out = j]
    BY DEF CppStmt, Jump, Jumps
  <2> QED  BY <2>1, <2>2
<1> HIDE DEF y, t
<1>4. CppBody(code \o t, st, walk) = [y EXCEPT !.out = j]
  BY <1>1, <1>2, <1>3
<1>5. [y EXCEPT !.out = j] = Cut(st, code, j, {})
  <2>1. [y EXCEPT !.out = j] = [log |-> y.log, out |-> j, up |-> y.up, cur |-> y.cur]
    BY <1>2, MemoryChanged
  <2> QED  BY <1>2, <2>1 DEF Cut
<1>6. ASSUME NEW f \in Nat
      PROVE  CppBody(code \o Clear(f) \o t, st, walk) = Cut(st, code, j, {f})
  <2> DEFINE u == Clear(f)
             w == [y EXCEPT !.up = y.up \ {f}]
  <2>1. u \in Blocks(B) /\ SetFlag(f, FALSE) \in CodeStatement(B)
    BY <1>1
  <2>2. CppBody(u, y, walk) = w
    <3>1. CppBody(u, y, walk) = CppStmt(SetFlag(f, FALSE), y, walk)
      BY <1>2, <2>1, CodeOfOne DEF Clear
    <3> QED  BY <3>1 DEF CppStmt, SetFlag, Jumps
  <2>3. w \in Memory /\ w.out = "normal"
        /\ w = [log |-> y.log, out |-> y.out, up |-> y.up \ {f}, cur |-> y.cur]
    <3>1. w = [log |-> y.log, out |-> y.out, up |-> y.up \ {f}, cur |-> y.cur]
      BY <1>2, MemoryChanged
    <3>2. y.log \in Seq(Entry) /\ y.out \in Outcome /\ y.up \ {f} \in SUBSET Nat
          /\ y.cur \in Exc \union {NoExc}
      BY <1>2, MemoryIs
    <3> HIDE DEF w
    <3> QED  BY <1>2, <3>1, <3>2 DEF Memory
  <2> HIDE DEF u, w
  <2>4. CppBody(code \o u, st, walk) = w
    BY <1>2, <2>1, <2>2
  <2>5. code \o u \in Blocks(B)
    BY <1>1, <2>1, LinesAre
  <2>6. CppBody((code \o u) \o t, st, walk) = CppBody(t, w, walk)
    <3> DEFINE v == code \o u
    <3>1. v \in Seq(CodeStatement(B)) /\ t \in Seq(CodeStatement(B))
      BY <1>1, <2>5 DEF Blocks
    <3> HIDE DEF v
    <3>2. CppBody(v \o t, st, walk) = CppBody(t, CppBody(v, st, walk), walk)
      BY <3>1, CodeOfTwo
    <3> QED  BY <2>4, <3>2 DEF v
  <2>7. CppBody(t, w, walk) = [w EXCEPT !.out = j]
    BY <1>3, <2>3
  <2>8. [w EXCEPT !.out = j] = [log |-> y.log, out |-> j, up |-> y.up \ {f}, cur |-> y.cur]
    BY <2>3, MemoryChanged
  <2> QED  BY <1>2, <2>6, <2>7, <2>8 DEF Cut, u
<1>7. code \o t \in Blocks(B)
  BY <1>1, LinesAre
<1> QED  BY <1>4, <1>5, <1>6, <1>7 DEF t

(* A run that was cut short so arrives where the jump of Python does.        *)
LEMMA CutEnds ==
    ASSUME NEW c \in Context, NEW a \in Place, NEW r \in Result, NEW st \in Memory,
           Same(r, st), NEW code, NEW j \in Jumps, j \in a.may,
           Values(code) = Extra(c, j), NEW down \in SUBSET Nat,
           \A f \in 1 .. c.depth - 1 : f \in down <=> j = "break" /\ f = c.flag
    PROVE  Arrives(c, a, [r EXCEPT !.out = j], Cut(st, code, j, down), st)
<1>1. /\ [r EXCEPT !.out = j].out = j /\ [r EXCEPT !.out = j].log = r.log
      /\ Cut(st, code, j, down).out = j /\ Cut(st, code, j, down).cur = st.cur
      /\ Cut(st, code, j, down).log = r.log \o Extra(c, j)
      /\ Cut(st, code, j, down).up = st.up \ down
  BY DEF Result, Cut, Same
<1>2. Allowed(a, j)
  BY NormalIsPlain, FlowAssumption DEF Allowed, Jumps, NoExc
<1>3. Flags(c, j, st.up \ down, st.up)
  BY DEF Flags
<1> QED  BY <1>1, <1>2, <1>3 DEF Arrives

(* Each of the three jumps does.                                             *)
LEMMA JumpEnds ==
    ASSUME NEW B, NEW ref, NEW low, NEW walk \in [B -> [Memory -> Memory]],
           NEW c \in Context, NEW a \in Place, Describes(a, c),
           NEW s, s.k \in Jumps, s.k \in a.may,
           NEW r \in Result, NEW st \in Memory, Same(r, st)
    PROVE  Arrives(c, a, PyStmt(s, r, ref), CppBody(LowStmt(s, c, low), st, walk), st)
<1> DEFINE F == c.finals
           X == c.exits
           j == s.k
<1>1. F \in Seq(LogLine) /\ X \in Seq(LogLine) /\ F \o X \in Seq(LogLine)
      /\ Values(F \o X) = Values(F) \o Values(X)
  BY ContextIs, ValuesOfTwo
<1>2. st.out = "normal"
  BY DEF Same
<1>3. PyStmt(s, r, ref) = [r EXCEPT !.out = j]
  BY DEF PyStmt, Jumps
<1>4. c.flag \in Nat /\ c.flag < c.depth /\ c.depth \in Nat
  BY ContextIs DEF Describes
<1> HIDE DEF F, X
<1>8. /\ \A x \in Seq(LogLine) :
            CppBody(x \o <<Jump(j)>>, st, walk) = Cut(st, x, j, {})
      /\ \A x \in Seq(LogLine) : \A f \in Nat :
            CppBody(x \o Clear(f) \o <<Jump(j)>>, st, walk) = Cut(st, x, j, {f})
  <2>1. j \in Jumps
    OBVIOUS
  <2> HIDE DEF j
  <2>2. ASSUME NEW x \in Seq(LogLine)
        PROVE  /\ CppBody(x \o <<Jump(j)>>, st, walk) = Cut(st, x, j, {})
               /\ \A f \in Nat :
                     CppBody(x \o Clear(f) \o <<Jump(j)>>, st, walk)
                       = Cut(st, x, j, {f})
    BY <1>2, <2>1, JumpCode
  <2> QED  BY <2>2
<1>5. CASE j = "return"
  <2>1. LowStmt(s, c, low) = (F \o X) \o <<Jump(j)>>
    BY <1>5 DEF LowStmt, LowReturn, F, X
  <2>2. CppBody(LowStmt(s, c, low), st, walk) = Cut(st, F \o X, j, {})
    BY <1>1, <1>8, <2>1
  <2>3. Values(F \o X) = Extra(c, j)
    BY <1>1, <1>5 DEF Extra, F, X
  <2> QED  BY <1>3, <1>5, <2>2, <2>3, CutEnds
<1>6. CASE j = "continue"
  <2>1. LowStmt(s, c, low) = F \o <<Jump(j)>>
    BY <1>6 DEF LowStmt, LowContinue, F
  <2>2. CppBody(LowStmt(s, c, low), st, walk) = Cut(st, F, j, {})
    BY <1>1, <1>8, <2>1
  <2>3. Values(F) = Extra(c, j)
    BY <1>6 DEF Extra, F
  <2> QED  BY <1>3, <1>6, <2>2, <2>3, CutEnds
<1>7. CASE j = "break"
  <2> DEFINE down == IF c.flag = NoFlag THEN {} ELSE {c.flag}
             G == F \o X
  <2>1. LowStmt(s, c, low)
          = G \o (IF c.flag = NoFlag THEN <<>> ELSE Clear(c.flag)) \o <<Jump(j)>>
    BY <1>7 DEF LowStmt, LowBreak, F, X, Clear
  <2>2. G \in Seq(LogLine) /\ Values(G) = Extra(c, j)
    BY <1>1, <1>7 DEF Extra, F, X
  <2> HIDE DEF G
  <2>3. G \o <<>> = G
    BY <2>2, Concatenation
  <2>4. CppBody(LowStmt(s, c, low), st, walk) = Cut(st, G, j, down)
    <3>1. CASE c.flag = NoFlag
      BY <1>8, <2>1, <2>2, <2>3, <3>1
    <3>2. CASE c.flag # NoFlag
      BY <1>4, <1>8, <2>1, <2>2, <3>2
    <3> QED  BY <3>1, <3>2
  <2>5. /\ down \in SUBSET Nat
        /\ \A f \in 1 .. c.depth - 1 : f \in down <=> j = "break" /\ f = c.flag
    BY <1>4, <1>7 DEF NoFlag
  <2> HIDE DEF down
  <2> QED  BY <1>3, <1>7, <2>2, <2>4, <2>5, CutEnds
<1> QED  BY <1>5, <1>6, <1>7 DEF Jumps

(* What a body inside does, run where its code is put.                       *)
Does(B, D, below, ref, low, clean) ==
    \A ss \in B, c \in Context, a \in Place, r \in Result, st \in Memory :
        Describes(a, c) /\ clean[ss][a] /\ Same(r, st)
           => /\ low[ss][c] \in Blocks(D) /\ ref[ss][r] \in Result
              /\ Running(D, below)[low[ss][c]][st] \in Memory
              /\ CppBody(low[ss][c], st, Running(D, below))
                   = Running(D, below)[low[ss][c]][st]
              /\ Arrives(c, a, ref[ss][r], Running(D, below)[low[ss][c]][st], st)

(* It follows from what is given.                                            *)
LEMMA GivenDoes ==
    ASSUME NEW B, NEW D, NEW below, NEW ref, NEW low, NEW clean,
           Given(B, D, below, ref, low, clean)
    PROVE  /\ Does(B, D, below, ref, low, clean)
           /\ Running(D, below) \in [Blocks(D) -> [Memory -> Memory]]
           /\ Blocks(D) \subseteq Blocks(Blocks(D))
<1> DEFINE W == Running(D, below)
           E == Blocks(D)
<1>1. /\ Grounded(E, W)
      /\ \A code \in E, st \in Memory : /\ CppBody(code, st, below) \in Memory
                                        /\ W[code][st] = CppBody(code, st, below)
                                        /\ CppBody(code, st, W) = CppBody(code, st, below)
      /\ W \in [E -> [Memory -> Memory]]
  BY RunningIs DEF Given
<1>2. E \subseteq Blocks(E)
  BY <1>1 DEF Grounded
<1> HIDE DEF W, E
<1>3. ASSUME NEW ss \in B, NEW c \in Context, NEW a \in Place, NEW r \in Result,
             NEW st \in Memory, Describes(a, c) /\ clean[ss][a], Same(r, st)
      PROVE  /\ low[ss][c] \in E /\ ref[ss][r] \in Result
             /\ W[low[ss][c]][st] \in Memory
             /\ CppBody(low[ss][c], st, W) = W[low[ss][c]][st]
             /\ Arrives(c, a, ref[ss][r], W[low[ss][c]][st], st)
  <2>1. low[ss][c] \in E /\ ref[ss][r] \in Result
    BY DEF Given, E
  <2>2. Follows(c, a, ref[ss], W[low[ss][c]])
    BY <1>3 DEF Given, W
  <2>3. Arrives(c, a, ref[ss][r], W[low[ss][c]][st], st)
    BY <1>3, <2>2 DEF Follows
  <2> QED  BY <1>1, <2>1, <2>3
<1> QED  BY <1>1, <1>2, <1>3 DEF Does, W, E

(* with: its body may leave it by return and break only.                     *)
LEMMA WithEnds ==
    ASSUME NEW B, NEW D, NEW below, NEW ref, NEW low, NEW clean,
           Given(B, D, below, ref, low, clean),
           NEW c \in Context, NEW a \in Place, Describes(a, c),
           NEW s \in FlowStatement(B), s.k = "with", clean[s.body][InsideWith(a)],
           NEW r \in Result, NEW st \in Memory, Same(r, st)
    PROVE  Arrives(c, a, PyStmt(s, r, ref),
                CppBody(LowStmt(s, c, low), st, Running(D, below)), st)
<1> DEFINE W == Running(D, below)
           E == Blocks(D)
           o == <<"exit", s.m>>
           i == <<"enter", s.m>>
           d == InWith(c, s.m)
           e == InsideWith(a)
           xin == <<Log(<<"enter", s.m>>)>>
           xout == <<Log(<<"exit", s.m>>)>>
           z == low[s.body][d]
           r1 == [r EXCEPT !.log = Append(r.log, i)]
           st1 == Logging(st, xin)
           X == ref[s.body][r1]
           Y == W[z][st1]
<1>1. s.m \in Manager /\ s.body \in B /\ o \in Entry /\ i \in Entry
  BY FlowStatementIs DEF Entry
<1>2. /\ xin \in Seq(LogLine) /\ Values(xin) = <<i>>
      /\ xout \in Seq(LogLine) /\ Values(xout) = <<o>>
  <2>1. xin \in Seq(LogLine) /\ xout \in Seq(LogLine)
    BY <1>1 DEF Log, LogLine
  <2> QED  BY <2>1 DEF Log, Values
<1>3. /\ d \in Context /\ e \in Place /\ Describes(e, d)
      /\ d.depth = c.depth + 1 /\ d.flag = c.flag
      /\ \A how \in {"return", "break"} : how \in e.may => Extra(d, how) = <<o>> \o Extra(c, how)
      /\ e.may \subseteq a.may \ {"raise", "continue"}
  BY <1>1, WithFits
<1>4. W \in [E -> [Memory -> Memory]] /\ E \subseteq Blocks(E) /\ Does(B, D, below, ref, low, clean)
  BY GivenDoes
<1>5. PyStmt(s, r, ref) = [X EXCEPT !.log = Append(X.log, o)]
  BY DEF PyStmt, PyWith, Jumps
<1>6. LowStmt(s, c, low) = xin \o z \o xout
  BY DEF LowStmt, LowWith
<1>7. z \in E
  BY <1>1, <1>3 DEF Given
<1> HIDE DEF W, E, d, e, xin, xout, z, r1, st1, o, i
<1>8. st1 \in Memory /\ Same(r1, st1) /\ st1.up = st.up /\ st1.cur = st.cur /\ r1 \in Result
      /\ \A tail \in Blocks(E) : CppBody(xin \o tail, st, W) = CppBody(tail, st1, W)
  <2>1. /\ st1 \in Memory /\ st1.out = "normal" /\ st1.log = st.log \o <<i>>
        /\ st1.up = st.up /\ st1.cur = st.cur
        /\ \A tail \in Blocks(E) : CppBody(xin \o tail, st, W) = CppBody(tail, st1, W)
    <3>1. <<>> \in Blocks(E) /\ st.out = "normal"
      BY LinesAre DEF Same
    <3>2. W \in [E -> [Memory -> Memory]]
      BY <1>4
    <3>3. /\ st1 \in Memory /\ st1.out = "normal" /\ st1.log = st.log \o Values(xin)
          /\ st1.up = st.up /\ st1.cur = st.cur
      BY <1>2, <3>1, <3>2, LogsThen DEF st1
    <3>4. \A tail \in Blocks(E) : CppBody(xin \o tail, st, W) = CppBody(tail, st1, W)
      BY <1>2, <3>1, <3>2, LogsThen DEF st1
    <3> QED  BY <1>2, <3>3, <3>4
  <2>2. Append(r.log, i) = r.log \o <<i>>
        /\ Append(r.log, i) \in Seq(Entry)
    BY <1>1, ResultIs, Concatenation
  <2>3. r1 \in Result /\ r1.out = "normal" /\ r1.log = Append(r.log, i)
    BY <2>2 DEF Result, Same, r1
  <2> QED  BY <2>1, <2>2, <2>3 DEF Same
<1>9. /\ X \in Result /\ Y \in Memory /\ CppBody(z, st1, W) = Y /\ Arrives(d, e, X, Y, st1)
  BY <1>1, <1>3, <1>4, <1>8 DEF Does, W, z, d, e
<1>10. CppBody(LowStmt(s, c, low), st, W) = CppBody(xout, Y, W)
  <2>1. xout \in Blocks(E) /\ z \in Blocks(E) /\ xin \in Blocks(E)
    BY <1>2, <1>4, <1>7, LinesAre
  <2>2. z \o xout \in Blocks(E)
    BY <2>1, LinesAre
  <2>3. (xin \o z) \o xout = xin \o (z \o xout)
    BY <2>1, Concatenation DEF Blocks
  <2>4. CppBody(z \o xout, st1, W) = CppBody(xout, CppBody(z, st1, W), W)
    BY <1>4, <1>8, <2>1, CodeOfTwo DEF Blocks
  <2> QED  BY <1>6, <1>8, <1>9, <2>2, <2>3, <2>4
<1>11. Allowed(e, X.out) /\ Y.out = X.out /\ X.out \in Outcome
  BY <1>9, ResultIs DEF Arrives
<1> DEFINE Xe == [X EXCEPT !.log = Append(X.log, o)]
<1> HIDE DEF X, Y
<1>12. Xe \in Result /\ Xe.out = X.out /\ Xe.log = X.log \o <<o>>
  <2>1. Append(X.log, o) = X.log \o <<o>> /\ Append(X.log, o) \in Seq(Entry)
    BY <1>1, <1>9, ResultIs, Concatenation
  <2> QED  BY <1>9, <2>1 DEF Result
<1>13. CASE X.out = "normal"
  <2>1. Same(X, Y)
    BY <1>3, <1>9, <1>13, ThenEnds
  <2>2. LET y == CppBody(xout, Y, W)
        IN  y.out = "normal" /\ y.log = Y.log \o <<o>> /\ y.up = Y.up /\ y.cur = Y.cur
    <3>1. /\ CppBody(xout, Y, W) = Logging(Y, xout) /\ Logging(Y, xout).out = "normal"
          /\ Logging(Y, xout).log = Y.log \o Values(xout)
          /\ Logging(Y, xout).up = Y.up /\ Logging(Y, xout).cur = Y.cur
      <4>1. <<>> \in Blocks(E) /\ Y.out = "normal"
        BY <2>1, LinesAre DEF Same
      <4>2. W \in [E -> [Memory -> Memory]] /\ Y \in Memory
        BY <1>4, <1>9
      <4>3. CppBody(xout, Y, W) = Logging(Y, xout)
        BY <1>2, <4>1, <4>2, LogsThen
      <4>4. /\ Logging(Y, xout).out = "normal"
            /\ Logging(Y, xout).log = Y.log \o Values(xout)
            /\ Logging(Y, xout).up = Y.up /\ Logging(Y, xout).cur = Y.cur
        BY <1>2, <4>1, <4>2, LogsThen
      <4> QED  BY <4>3, <4>4
    <3> QED  BY <1>2, <3>1
  <2>3. Y.cur = st.cur /\ Flags(c, "normal", Y.up, st.up)
    BY <1>3, <1>8, <1>9, <1>13, ContextIs DEF Arrives, Flags
  <2> HIDE DEF Xe
  <2>4. Arrives(c, a, Xe, CppBody(xout, Y, W), st)
    BY <1>12, <1>13, <2>1, <2>2, <2>3, PlainEnds, NormalIsPlain DEF Same
  <2> QED  BY <1>5, <1>10, <2>4 DEF Xe, W
<1>14. CASE X.out # "normal"
  <2>1. X.out \in {"return", "break"} /\ X.out \in e.may /\ X.out \in a.may
    BY <1>3, <1>11, <1>14 DEF Allowed, Outcome, Jumps
  <2>2. CppBody(xout, Y, W) = Y
    <3>1. xout \in Seq(CodeStatement(E))
      BY <1>2, LinesAre DEF Blocks
    <3> QED  BY <1>4, <1>9, <1>11, <1>14, <3>1, CodeIsTyped
  <2>3. Y.log = Xe.log \o Extra(c, X.out)
    <3> DEFINE u == Extra(c, X.out)
               v == X.log
               w == <<o>>
    <3>1. u \in Seq(Entry) /\ v \in Seq(Entry) /\ w \in Seq(Entry)
      BY <1>1, <1>9, ExtraIsTyped, ResultIs
    <3>2. Y.log = v \o (w \o u)
      BY <1>3, <1>9, <2>1 DEF Arrives
    <3> HIDE DEF u, v, w
    <3>3. v \o (w \o u) = (v \o w) \o u
      BY <3>1, Concatenation
    <3> QED  BY <1>12, <3>2, <3>3 DEF u, v, w
  <2>4. Y.cur = st.cur /\ Flags(c, X.out, Y.up, st.up)
    BY <1>3, <1>8, <1>9, ContextIs DEF Arrives, Flags
  <2>5. Allowed(a, X.out)
    BY <2>1, NormalIsPlain, FlowAssumption DEF Allowed, Jumps, NoExc
  <2> HIDE DEF Xe
  <2>6. Arrives(c, a, Xe, Y, st)
    BY <1>11, <1>12, <2>3, <2>4, <2>5 DEF Arrives
  <2> QED  BY <1>5, <1>10, <2>2, <2>6 DEF Xe, W
<1> QED  BY <1>13, <1>14

(* The rounds of a loop, in both languages.                                  *)
PyRounds(s, ref) == [i \in 1 .. s.n |-> [q \in Result |-> AfterRound(ref[s.body][q])]]

(* In the C++.                                                               *)
CppRounds(n, code, walk) == [i \in 1 .. n |-> [q \in Memory |-> AfterRound(walk[code][q])]]

(* What the end of a round or of a loop changes is how it ended.             *)
LEMMA AfterRoundIs ==
    /\ \A r \in Result : /\ AfterRound(r) \in Result /\ AfterRound(r).log = r.log
                         /\ AfterRound(r).out = IF r.out = "continue" THEN "normal" ELSE r.out
                         /\ AfterLoop(r) \in Result /\ AfterLoop(r).log = r.log
                         /\ AfterLoop(r).out = IF r.out = "break" THEN "normal" ELSE r.out
    /\ \A r \in Memory : /\ AfterRound(r) \in Memory /\ AfterRound(r).log = r.log
                         /\ AfterRound(r).out = IF r.out = "continue" THEN "normal" ELSE r.out
                         /\ AfterRound(r).up = r.up /\ AfterRound(r).cur = r.cur
                         /\ AfterLoop(r) \in Memory /\ AfterLoop(r).log = r.log
                         /\ AfterLoop(r).out = IF r.out = "break" THEN "normal" ELSE r.out
                         /\ AfterLoop(r).up = r.up /\ AfterLoop(r).cur = r.cur
<1>1. ASSUME NEW r \in Result
      PROVE  /\ AfterRound(r).log = r.log
             /\ AfterRound(r).out = IF r.out = "continue" THEN "normal" ELSE r.out
             /\ AfterLoop(r).log = r.log
             /\ AfterLoop(r).out = IF r.out = "break" THEN "normal" ELSE r.out
  BY DEF AfterRound, AfterLoop, Result
<1>2. ASSUME NEW r \in Memory
      PROVE  /\ AfterRound(r).log = r.log
             /\ AfterRound(r).out = IF r.out = "continue" THEN "normal" ELSE r.out
             /\ AfterRound(r).up = r.up /\ AfterRound(r).cur = r.cur
             /\ AfterLoop(r).log = r.log
             /\ AfterLoop(r).out = IF r.out = "break" THEN "normal" ELSE r.out
             /\ AfterLoop(r).up = r.up /\ AfterLoop(r).cur = r.cur
  BY DEF AfterRound, AfterLoop, Memory
<1> QED  BY <1>1, <1>2, AfterResult, AfterMemory

(* Both loops after their rounds: the same way, with the same logged unless  *)
(* they are left for good, and with the flag down after a break.             *)
RoundsEnded(c, a, flag, X, Y, st) ==
    /\ X \in Result /\ Y \in Memory /\ Y.out = X.out /\ X.out # "continue"
    /\ Y.cur = st.cur
    /\ X.out \in {"normal", "break"} => Y.log = X.log
    /\ X.out \notin {"normal", "break"} => Allowed(a, X.out) /\ Y.log = X.log \o Extra(c, X.out)
    /\ \A f \in 1 .. c.depth :
          IF X.out = "break" /\ f = flag THEN f \notin Y.up ELSE f \in Y.up <=> f \in st.up

(* Round by round, the two loops arrive there.                               *)
LEMMA FlowRoundsEnd ==
    ASSUME NEW B, NEW D, NEW below, NEW ref, NEW low, NEW clean,
           Given(B, D, below, ref, low, clean),
           NEW c \in Context, NEW a \in Place, Describes(a, c),
           NEW s \in FlowStatement(B), s.k = "loop", clean[s.body][InsideLoop(a)],
           NEW flag \in {NoFlag, c.depth},
           NEW r \in Result, NEW st \in Memory, Same(r, st)
    PROVE  RoundsEnded(c, a, flag, Chain(PyRounds(s, ref), r),
                       Chain(CppRounds(s.n, low[s.body][InLoop(c, flag)], Running(D, below)), st),
                       st)
<1> DEFINE W == Running(D, below)
           d == InLoop(c, flag)
           e == InsideLoop(a)
           e1 == [e EXCEPT !.may = e.may \ {"continue"}]
           z == low[s.body][d]
           p == [q \in Result |-> AfterRound(ref[s.body][q])]
           g == [q \in Memory |-> AfterRound(W[z][q])]
           ps == PyRounds(s, ref)
           gs == CppRounds(s.n, z, W)
           X == Chain(ps, r)
           Y == Chain(gs, st)
<1>1. s.n \in Nat /\ s.body \in B /\ ref[s.body] \in [Result -> Result]
  BY FlowStatementIs DEF Given
<1>2. /\ d \in Context /\ e \in Place /\ Describes(e, d)
      /\ d.depth = c.depth + 1 /\ d.flag = flag
      /\ Extra(d, "return") = Extra(c, "return")
      /\ \A how \in {"break", "continue"} : how \in e.may => Extra(d, how) = <<>>
      /\ \A how \in {"raise", "return"} : how \in e.may => how \in a.may
  BY LoopFits
<1>3. W[z] \in [Memory -> Memory] /\ z \in Blocks(D) /\ Does(B, D, below, ref, low, clean)
  <2>1. z \in Blocks(D)
    BY <1>1, <1>2 DEF Given
  <2> QED  BY <2>1, GivenDoes
<1>4. e1 \in Place /\ e1.may = e.may \ {"continue"}
  BY <1>2 DEF Place
<1> HIDE DEF W, d, e, e1, z
<1>5. /\ p \in [Result -> Result] /\ g \in [Memory -> Memory]
      /\ ps \in Seq([Result -> Result]) /\ gs \in Seq([Memory -> Memory])
      /\ Len(ps) = s.n /\ Len(gs) = s.n
      /\ \A i \in 1 .. s.n : ps[i] = p /\ gs[i] = g
  <2>1. p \in [Result -> Result] /\ g \in [Memory -> Memory]
    BY <1>1, <1>3, AfterResult, AfterMemory
  <2>2. ps = [i \in 1 .. s.n |-> p] /\ gs = [i \in 1 .. s.n |-> g]
    BY DEF PyRounds, CppRounds
  <2>3. \A T, f : f \in T => LET fs == [i \in 1 .. s.n |-> f]
                             IN  fs \in Seq(T) /\ Len(fs) = s.n /\ \A i \in 1 .. s.n : fs[i] = f
    BY <1>1
  <2> HIDE DEF p, g, ps, gs
  <2>4. ps \in Seq([Result -> Result]) /\ Len(ps) = s.n /\ \A i \in 1 .. s.n : ps[i] = p
    BY <2>1, <2>2, <2>3
  <2>5. gs \in Seq([Memory -> Memory]) /\ Len(gs) = s.n /\ \A i \in 1 .. s.n : gs[i] = g
    BY <2>1, <2>2, <2>3
  <2> QED  BY <2>1, <2>4, <2>5
<1>6. ASSUME NEW q \in Result, NEW m \in Memory, Same(q, m)
      PROVE  Arrives(d, e1, p[q], g[m], m)
  <2> DEFINE x == ref[s.body][q]
             y == W[z][m]
  <2>1. x \in Result /\ y \in Memory /\ Arrives(d, e, x, y, m)
    BY <1>1, <1>2, <1>3, <1>6 DEF Does, W, e, z
  <2>2. p[q] = AfterRound(x) /\ g[m] = AfterRound(y)
    OBVIOUS
  <2> HIDE DEF x, y, p, g
  <2>3. /\ AfterRound(x).log = x.log /\ AfterRound(y).log = y.log
        /\ AfterRound(y).up = y.up /\ AfterRound(y).cur = y.cur
        /\ AfterRound(x).out = IF x.out = "continue" THEN "normal" ELSE x.out
        /\ AfterRound(y).out = IF y.out = "continue" THEN "normal" ELSE y.out
        /\ AfterRound(x) \in Result
    BY <2>1, AfterRoundIs
  <2>4. CASE x.out = "continue"
    <3>1. "continue" \in e.may
      BY <2>1, <2>4 DEF Arrives, Allowed, Jumps
    <3>2. y.log = x.log
      <4>1. y.log = x.log \o <<>>
        BY <1>2, <2>1, <2>4, <3>1 DEF Arrives
      <4> QED  BY <2>1, <4>1, ResultIs, Concatenation
    <3>3. Flags(d, "normal", y.up, m.up)
      BY <2>1, <2>4 DEF Arrives, Flags
    <3>4. /\ p[q].out = "normal" /\ p[q].log = x.log /\ p[q] \in Result
          /\ g[m].out = "normal" /\ g[m].log = x.log /\ g[m].up = y.up /\ g[m].cur = m.cur
      BY <2>1, <2>2, <2>3, <2>4, <3>2 DEF Arrives
    <3>5. Allowed(e1, "normal") /\ "normal" \notin Jumps
      BY NormalIsPlain
    <3> QED  BY <1>2, <1>4, <3>3, <3>4, <3>5, PlainEnds
  <2>5. CASE x.out # "continue"
    <3>1. Allowed(e1, x.out)
      BY <1>4, <2>1, <2>5 DEF Arrives, Allowed
    <3>2. /\ p[q].out = x.out /\ p[q].log = x.log
          /\ g[m].out = x.out /\ g[m].log = y.log /\ g[m].up = y.up /\ g[m].cur = y.cur
      BY <2>1, <2>2, <2>3, <2>5 DEF Arrives
    <3>3. /\ y.out = x.out /\ y.cur = m.cur /\ y.log = x.log \o Extra(d, x.out)
          /\ Flags(d, x.out, y.up, m.up)
      BY <2>1 DEF Arrives
    <3>4. g[m].out = p[q].out /\ g[m].cur = m.cur /\ Allowed(e1, p[q].out)
      BY <3>1, <3>2, <3>3
    <3>5. g[m].log = p[q].log \o Extra(d, p[q].out)
      BY <3>2, <3>3
    <3>6. Flags(d, p[q].out, g[m].up, m.up)
      BY <3>2, <3>3
    <3> QED  BY <3>4, <3>5, <3>6 DEF Arrives
  <2> QED  BY <2>4, <2>5
<1>7. Follows(d, e1, p, g)
  <2> HIDE DEF p, g
  <2> QED  BY <1>5, <1>6 DEF Follows
<1>8. X \in Result /\ Y \in Memory /\ Arrives(d, e1, X, Y, st)
  <2> HIDE DEF p, g, ps, gs
  <2>1. X \in Result /\ Y \in Memory
    BY <1>5, ChainIsTyped
  <2>2. \A i \in 1 .. Len(ps) : Follows(d, e1, ps[i], gs[i])
    BY <1>5, <1>7
  <2> QED  BY <1>2, <1>4, <1>5, <2>1, <2>2, ChainsFollow
<1> HIDE DEF X, Y
<1>9. Y.out = X.out /\ Y.cur = st.cur /\ X.out # "continue"
  BY <1>4, <1>8 DEF Arrives, Allowed, Jumps
<1>10. ASSUME X.out \in {"normal", "break"} PROVE Y.log = X.log
  <2>1. Extra(d, X.out) = <<>>
    <3>1. CASE X.out = "normal"
      BY <1>2, <3>1, ExtraIsTyped, NormalIsPlain
    <3>2. CASE X.out = "break"
      BY <1>2, <1>4, <1>8, <3>2 DEF Arrives, Allowed, Jumps
    <3> QED  BY <1>10, <3>1, <3>2
  <2>2. Y.log = X.log \o <<>>
    BY <1>8, <2>1 DEF Arrives
  <2> QED  BY <1>8, <2>2, ResultIs, Concatenation
<1>11. ASSUME X.out \notin {"normal", "break"}
       PROVE  Allowed(a, X.out) /\ Y.log = X.log \o Extra(c, X.out)
  <2>1. Allowed(a, X.out)
    BY <1>2, <1>4, <1>8, <1>9, <1>11 DEF Arrives, Allowed, Jumps
  <2>2. Extra(d, X.out) = Extra(c, X.out)
    <3>1. CASE X.out \in Jumps
      BY <1>2, <1>9, <1>11, <3>1 DEF Jumps
    <3>2. CASE X.out \notin Jumps
      BY <1>2, <3>2, ExtraIsTyped
    <3> QED  BY <3>1, <3>2
  <2> QED  BY <1>8, <2>1, <2>2 DEF Arrives
<1>12. ASSUME NEW f \in 1 .. c.depth
       PROVE  IF X.out = "break" /\ f = flag THEN f \notin Y.up
              ELSE f \in Y.up <=> f \in st.up
  <2>1. f \in 1 .. d.depth - 1
    BY <1>2, ContextIs
  <2> QED  BY <1>2, <1>8, <2>1 DEF Arrives, Flags
<1>13. RoundsEnded(c, a, flag, X, Y, st)
  BY <1>8, <1>9, <1>10, <1>11, <1>12 DEF RoundsEnded
<1> QED  BY <1>13 DEF X, Y, ps, gs, z, W, d

(* A statement of the C++, and what follows it.                              *)
LEMMA OneThen ==
    ASSUME NEW B, NEW walk \in [B -> [Memory -> Memory]], NEW s \in CodeStatement(B),
           NEW tail \in Blocks(B), NEW st \in Memory, st.out = "normal"
    PROVE  /\ <<s>> \o tail \in Blocks(B)
           /\ CppStmt(s, st, walk) \in Memory
           /\ CppBody(<<s>>, st, walk) = CppStmt(s, st, walk)
           /\ CppBody(<<s>> \o tail, st, walk) = CppBody(tail, CppStmt(s, st, walk), walk)
<1>1. <<s>> \in Seq(CodeStatement(B)) /\ tail \in Seq(CodeStatement(B))
  BY DEF Blocks
<1>2. CppBody(<<s>>, st, walk) = CppStmt(s, st, walk)
  BY CodeOfOne
<1>3. CppStmt(s, st, walk) \in Memory
  BY CppTyped
<1>4. CppBody(<<s>> \o tail, st, walk) = CppBody(tail, CppBody(<<s>>, st, walk), walk)
  <2> DEFINE u == <<s>>
  <2> HIDE DEF u
  <2>1. u \in Seq(CodeStatement(B)) /\ tail \in Seq(CodeStatement(B))
    BY <1>1 DEF u
  <2>2. CppBody(u \o tail, st, walk) = CppBody(tail, CppBody(u, st, walk), walk)
    BY <2>1, CodeOfTwo
  <2> QED  BY <2>2 DEF u
<1>5. <<s>> \o tail \in Blocks(B)
  BY <1>1, Concatenation DEF Blocks
<1> QED  BY <1>2, <1>3, <1>4, <1>5

(* Three statements of the C++, spelt out: the loop,                         *)
LEMMA CppLoopIs ==
    ASSUME NEW n, NEW code, NEW st, NEW walk
    PROVE  CppStmt(CppLoop(n, code), st, walk)
             = AfterLoop(Chain(CppRounds(n, code, walk), st))
BY DEF CppStmt, CppLoop, CppRounds, Jumps

(* the test of a flag,                                                       *)
LEMMA IfIs ==
    ASSUME NEW f, NEW inner, NEW st, NEW walk
    PROVE  CppStmt(IfFlag(f, inner), st, walk) = IF f \in st.up THEN walk[inner][st] ELSE st
BY DEF CppStmt, IfFlag, Jumps

(* and the setting of one.                                                   *)
LEMMA SetIs ==
    ASSUME NEW f \in Nat, NEW st \in Memory, NEW walk
    PROVE  /\ CppStmt(SetFlag(f, TRUE), st, walk) = [st EXCEPT !.up = st.up \union {f}]
           /\ CppStmt(SetFlag(f, FALSE), st, walk) = [st EXCEPT !.up = st.up \ {f}]
           /\ \A u \in SUBSET Nat :
                 LET m == [st EXCEPT !.up = u]
                 IN  m \in Memory /\ m.up = u /\ m.out = st.out /\ m.log = st.log /\ m.cur = st.cur
<1>1. CppStmt(SetFlag(f, TRUE), st, walk) = [st EXCEPT !.up = st.up \union {f}]
  BY DEF CppStmt, SetFlag, Jumps
<1>2. CppStmt(SetFlag(f, FALSE), st, walk) = [st EXCEPT !.up = st.up \ {f}]
  BY DEF CppStmt, SetFlag, Jumps
<1>3. ASSUME NEW u \in SUBSET Nat
      PROVE  LET m == [st EXCEPT !.up = u]
             IN  m \in Memory /\ m.up = u /\ m.out = st.out /\ m.log = st.log /\ m.cur = st.cur
  BY DEF Memory
<1> QED  BY <1>1, <1>2, <1>3

(* A loop without an else.                                                   *)
LEMMA PlainLoopEnds ==
    ASSUME NEW B, NEW D, NEW below, NEW ref, NEW low, NEW clean,
           Given(B, D, below, ref, low, clean),
           NEW c \in Context, NEW a \in Place, Describes(a, c),
           NEW s \in FlowStatement(B), s.k = "loop", clean[s.body][InsideLoop(a)],
           s.orelse = <<>>,
           NEW r \in Result, NEW st \in Memory, Same(r, st)
    PROVE  Arrives(c, a, PyStmt(s, r, ref),
                CppBody(LowStmt(s, c, low), st, Running(D, below)), st)
<1> DEFINE W == Running(D, below)
           z == low[s.body][InLoop(c, NoFlag)]
           X == Chain(PyRounds(s, ref), r)
           Y == Chain(CppRounds(s.n, z, W), st)
<1>1. /\ X \in Result /\ Y \in Memory /\ Y.out = X.out /\ X.out # "continue"
      /\ Y.cur = st.cur
      /\ X.out \in {"normal", "break"} => Y.log = X.log
      /\ X.out \notin {"normal", "break"} => Allowed(a, X.out) /\ Y.log = X.log \o Extra(c, X.out)
      /\ \A f \in 1 .. c.depth : f \in Y.up <=> f \in st.up
  <2>1. NoFlag \in {NoFlag, c.depth} /\ \A f \in 1 .. c.depth : f # NoFlag
    BY DEF NoFlag
  <2>2. RoundsEnded(c, a, NoFlag, X, Y, st)
    BY <2>1, FlowRoundsEnd
  <2> HIDE DEF X, Y
  <2> QED  BY <2>1, <2>2 DEF RoundsEnded
<1>2. s.n \in Nat /\ s.body \in B /\ s.orelse \in B
  BY FlowStatementIs
<1>3. z \in Blocks(D) /\ W \in [Blocks(D) -> [Memory -> Memory]]
  <2>1. InLoop(c, NoFlag) \in Context
    BY ContextsTyped DEF NoFlag
  <2>2. z \in Blocks(D)
    BY <1>2, <2>1 DEF Given
  <2> QED  BY <2>2, GivenDoes
<1>4. PyStmt(s, r, ref) = AfterLoop(X)
  <2>1. PyStmt(s, r, ref) = IF X.out = "normal" THEN ref[s.orelse][X] ELSE AfterLoop(X)
    BY DEF PyStmt, PyLoop, PyRounds, Jumps
  <2> HIDE DEF X
  <2>2. X.out = "normal" => AfterLoop(X) = X
    BY DEF AfterLoop
  <2>3. ref[s.orelse][X] = X
    BY <1>1, <1>2 DEF Given
  <2> QED  BY <2>1, <2>2, <2>3
<1>5. CppBody(LowStmt(s, c, low), st, W) = AfterLoop(Y)
  <2>1. LowStmt(s, c, low) = <<CppLoop(s.n, z)>>
    BY DEF LowStmt, LowLoop
  <2>2. CppLoop(s.n, z) \in CodeStatement(Blocks(D)) /\ st.out = "normal"
    BY <1>2, <1>3 DEF CodeStatement, CppLoop, Same
  <2>3. CppStmt(CppLoop(s.n, z), st, W) = AfterLoop(Y)
    BY CppLoopIs
  <2> HIDE DEF W, z, Y
  <2> QED  BY <1>3, <2>1, <2>2, <2>3, CodeOfOne
<1> HIDE DEF X, Y, W
<1> DEFINE x == AfterLoop(X)
           y == AfterLoop(Y)
<1>6. /\ x \in Result /\ x.log = X.log /\ x.out = IF X.out = "break" THEN "normal" ELSE X.out
      /\ y.log = Y.log /\ y.out = x.out /\ y.up = Y.up /\ y.cur = Y.cur
  BY <1>1, AfterRoundIs
<1> HIDE DEF x, y
<1>7. \A how : how # "break" => Flags(c, how, y.up, st.up)
  BY <1>1, <1>6, ContextIs DEF Flags
<1>8. Arrives(c, a, x, y, st)
  <2>1. CASE X.out \in {"normal", "break"}
    <3>1. x.out = "normal" /\ y.out = "normal" /\ y.log = x.log /\ y.cur = st.cur
      BY <1>1, <1>6, <2>1
    <3> QED  BY <1>6, <1>7, <3>1, PlainEnds, NormalIsPlain
  <2>2. CASE X.out \notin {"normal", "break"}
    BY <1>1, <1>6, <1>7, <2>2 DEF Arrives
  <2> QED  BY <2>1, <2>2
<1> QED  BY <1>4, <1>5, <1>8 DEF x, y, W

(* Three lines are one, one and one.                                         *)
LEMMA ThreeLines ==
    ASSUME NEW S, NEW x \in S, NEW y \in S, NEW z \in S
    PROVE  <<x, y, z>> = <<x>> \o (<<y>> \o <<z>>)
<1> DEFINE a == <<x>>
           b == <<y>>
           e == <<z>>
           u == <<x, y, z>>
<1>1. /\ a \in Seq(S) /\ b \in Seq(S) /\ e \in Seq(S) /\ u \in Seq(S)
      /\ Len(a) = 1 /\ Len(b) = 1 /\ Len(e) = 1 /\ Len(u) = 3
      /\ u[1] = a[1] /\ u[2] = b[1] /\ u[3] = e[1]
  OBVIOUS
<1> HIDE DEF a, b, e, u
<1> DEFINE v == b \o e
           w == a \o v
<1>2. v \in Seq(S) /\ Len(v) = 2 /\ v[1] = b[1] /\ v[2] = e[1]
  <2>1. /\ v \in Seq(S) /\ Len(v) = Len(b) + Len(e)
        /\ \A i \in 1 .. Len(b) + Len(e) : v[i] = IF i <= Len(b) THEN b[i] ELSE e[i - Len(b)]
    BY <1>1, Concatenation
  <2> HIDE DEF v
  <2> QED  BY <1>1, <2>1
<1> HIDE DEF v
<1>3. w \in Seq(S) /\ Len(w) = 3 /\ \A i \in 1 .. 3 : w[i] = IF i <= 1 THEN a[i] ELSE v[i - 1]
  <2>1. /\ w \in Seq(S) /\ Len(w) = Len(a) + Len(v)
        /\ \A i \in 1 .. Len(a) + Len(v) : w[i] = IF i <= Len(a) THEN a[i] ELSE v[i - Len(a)]
    BY <1>1, <1>2, Concatenation
  <2> HIDE DEF w
  <2> QED  BY <1>1, <1>2, <2>1
<1> HIDE DEF w
<1>4. \A i \in 1 .. 3 : w[i] = u[i]
  BY <1>1, <1>2, <1>3
<1>5. w = u
  BY <1>1, <1>3, <1>4, SeqEqual
<1> QED  BY <1>5 DEF a, b, e, u, v, w

(* An end one level deeper.                                                  *)
LEMMA DeeperEnds ==
    ASSUME NEW c \in Context, NEW a \in Place, NEW d,
           d.depth = c.depth + 1, d.flag = c.flag, \A how : Extra(d, how) = Extra(c, how),
           NEW x, NEW y, NEW m, NEW st, Arrives(d, a, x, y, m),
           m.cur = st.cur, \A f \in 1 .. c.depth - 1 : f \in m.up <=> f \in st.up
    PROVE  Arrives(c, a, x, y, st)
<1>1. 1 .. c.depth - 1 \subseteq 1 .. d.depth - 1
  BY ContextIs
<1>2. Flags(d, x.out, y.up, m.up)
  BY DEF Arrives
<1>3. Flags(c, x.out, y.up, st.up)
  BY <1>1, <1>2 DEF Flags
<1> QED  BY <1>3 DEF Arrives

(* A loop with an else, which runs when no break has cleared the flag.       *)
LEMMA ElseLoopEnds ==
    ASSUME NEW B, NEW D, NEW below, NEW ref, NEW low, NEW clean,
           Given(B, D, below, ref, low, clean),
           NEW c \in Context, NEW a \in Place, Describes(a, c),
           NEW s \in FlowStatement(B), s.k = "loop", clean[s.body][InsideLoop(a)],
           clean[s.orelse][a], s.orelse # <<>>,
           NEW r \in Result, NEW st \in Memory, Same(r, st)
    PROVE  Arrives(c, a, PyStmt(s, r, ref),
                CppBody(LowStmt(s, c, low), st, Running(D, below)), st)
<1> DEFINE W == Running(D, below)
           E == Blocks(D)
           z == low[s.body][InLoop(c, c.depth)]
           o == low[s.orelse][Deeper(c)]
           st1 == [st EXCEPT !.up = st.up \union {c.depth}]
           X == Chain(PyRounds(s, ref), r)
           Y == Chain(CppRounds(s.n, z, W), st1)
           x == AfterLoop(X)
           y == AfterLoop(Y)
           l1 == SetFlag(c.depth, TRUE)
           l2 == CppLoop(s.n, z)
           l3 == IfFlag(c.depth, o)
<1>1. s.n \in Nat /\ s.body \in B /\ s.orelse \in B /\ c.depth \in Nat /\ c.depth \in 1 .. c.depth
  BY FlowStatementIs, ContextIs
<1>2. z \in E /\ o \in E /\ W \in [E -> [Memory -> Memory]] /\ Does(B, D, below, ref, low, clean)
  <2>1. InLoop(c, c.depth) \in Context /\ Deeper(c) \in Context
    BY <1>1, ContextsTyped
  <2>2. z \in E /\ o \in E
    BY <1>1, <2>1 DEF Given
  <2> QED  BY <2>2, GivenDoes
<1>3. /\ st1 \in Memory /\ Same(r, st1) /\ st1.up = st.up \union {c.depth} /\ st1.cur = st.cur
      /\ CppStmt(l1, st, W) = st1
  <2>1. st.up \union {c.depth} \in SUBSET Nat
    BY <1>1, MemoryIs
  <2>2. CppStmt(l1, st, W) = st1
    BY <1>1, SetIs
  <2>3. st1 \in Memory /\ st1.up = st.up \union {c.depth} /\ st1.out = st.out
        /\ st1.log = st.log /\ st1.cur = st.cur
    BY <1>1, <2>1, SetIs
  <2> QED  BY <2>2, <2>3 DEF Same
<1> HIDE DEF st1
<1>4. RoundsEnded(c, a, c.depth, X, Y, st1)
  BY <1>3, FlowRoundsEnd
<1>5. CppStmt(l2, st1, W) = y
  BY CppLoopIs
<1>6. LowStmt(s, c, low) = <<l1, l2, l3>>
  BY DEF LowStmt, LowLoop
<1>7. l1 \in CodeStatement(E) /\ l2 \in CodeStatement(E) /\ l3 \in CodeStatement(E)
  <2>1. l1 \in CodeStatement(E)
    BY <1>1 DEF CodeStatement, SetFlag
  <2>2. l2 \in CodeStatement(E)
    BY <1>1, <1>2 DEF CodeStatement, CppLoop
  <2>3. l3 \in CodeStatement(E)
    BY <1>1, <1>2 DEF CodeStatement, IfFlag
  <2> QED  BY <2>1, <2>2, <2>3
<1>8. \A q : CppStmt(l3, q, W) = IF c.depth \in q.up THEN W[o][q] ELSE q
  BY IfIs
<1>9. PyStmt(s, r, ref) = IF X.out = "normal" THEN ref[s.orelse][X] ELSE x
  BY DEF PyStmt, PyLoop, PyRounds, Jumps
<1> HIDE DEF l1, l2, l3, W, X, Y, E, x, y
<1>10. CppBody(LowStmt(s, c, low), st, W) = CppBody(<<l3>>, y, W)
  <2>1. <<l1, l2, l3>> = <<l1>> \o (<<l2>> \o <<l3>>)
    BY <1>7, ThreeLines
  <2>2. <<l3>> \in Blocks(E)
    BY <1>7 DEF Blocks
  <2>3. st.out = "normal" /\ st1.out = "normal"
    BY <1>3 DEF Same
  <2>4. <<l2>> \o <<l3>> \in Blocks(E)
        /\ CppBody(<<l2>> \o <<l3>>, st1, W) = CppBody(<<l3>>, CppStmt(l2, st1, W), W)
    BY <1>2, <1>3, <1>7, <2>2, <2>3, OneThen
  <2>5. CppBody(<<l1>> \o (<<l2>> \o <<l3>>), st, W)
          = CppBody(<<l2>> \o <<l3>>, CppStmt(l1, st, W), W)
    BY <1>2, <1>7, <2>3, <2>4, OneThen
  <2> QED  BY <1>3, <1>5, <1>6, <2>1, <2>4, <2>5
<1>11. /\ X \in Result /\ Y \in Memory /\ Y.out = X.out /\ X.out # "continue"
       /\ Y.cur = st.cur
       /\ X.out \in {"normal", "break"} => Y.log = X.log
       /\ X.out \notin {"normal", "break"} => Allowed(a, X.out) /\ Y.log = X.log \o Extra(c, X.out)
       /\ \A f \in 1 .. c.depth - 1 : f \in Y.up <=> f \in st.up
       /\ c.depth \in Y.up <=> X.out # "break"
  <2>1. \A f \in 1 .. c.depth :
           IF X.out = "break" /\ f = c.depth THEN f \notin Y.up ELSE f \in Y.up <=> f \in st1.up
    BY <1>4 DEF RoundsEnded
  <2>2. c.depth \in Y.up <=> X.out # "break"
    BY <1>1, <1>3, <2>1
  <2>3. \A f \in 1 .. c.depth - 1 : f \in Y.up <=> f \in st.up
    <3> TAKE f \in 1 .. c.depth - 1
    <3>1. f \in 1 .. c.depth /\ f # c.depth
      BY <1>1
    <3>2. f \in Y.up <=> f \in st1.up
      BY <2>1, <3>1
    <3> QED  BY <1>3, <3>1, <3>2
  <2> QED  BY <1>3, <1>4, <2>2, <2>3 DEF RoundsEnded
<1>12. /\ x \in Result /\ x.log = X.log /\ x.out = IF X.out = "break" THEN "normal" ELSE X.out
       /\ y \in Memory /\ y.log = Y.log /\ y.out = x.out /\ y.up = Y.up /\ y.cur = Y.cur
  BY <1>11, AfterRoundIs DEF x, y
<1>13. \A how : how # "break" => Flags(c, how, y.up, st.up)
  BY <1>11, <1>12 DEF Flags
<1>14. y.out = "normal" => CppBody(<<l3>>, y, W) = CppStmt(l3, y, W)
  BY <1>2, <1>7, <1>12, CodeOfOne
<1>15. CASE X.out = "normal"
  <2>1. /\ Deeper(c) \in Context /\ Describes(a, Deeper(c))
        /\ Deeper(c).depth = c.depth + 1 /\ Deeper(c).flag = c.flag
        /\ \A how : Extra(Deeper(c), how) = Extra(c, how)
    BY DeeperFits
  <2>2. Same(X, y)
    BY <1>11, <1>12, <1>15 DEF Same
  <2>3. Arrives(Deeper(c), a, ref[s.orelse][X], W[o][y], y)
    BY <1>1, <1>2, <1>11, <1>12, <2>1, <2>2 DEF Does, W
  <2>4. Arrives(c, a, ref[s.orelse][X], W[o][y], st)
    <3>1. y.cur = st.cur /\ \A f \in 1 .. c.depth - 1 : f \in y.up <=> f \in st.up
      BY <1>11, <1>12
    <3> HIDE DEF o
    <3> QED  BY <2>1, <2>3, <3>1, DeeperEnds
  <2>5. CppBody(<<l3>>, y, W) = W[o][y]
    BY <1>8, <1>11, <1>12, <1>14, <1>15
  <2> QED  BY <1>9, <1>10, <1>15, <2>4, <2>5 DEF W
<1>16. CASE X.out = "break"
  <2>1. CppBody(<<l3>>, y, W) = y
    BY <1>8, <1>11, <1>12, <1>14, <1>16
  <2>2. x.out = "normal" /\ y.out = "normal" /\ y.log = x.log /\ y.cur = st.cur
    BY <1>11, <1>12, <1>16
  <2>3. Arrives(c, a, x, y, st)
    BY <1>12, <1>13, <2>2, PlainEnds, NormalIsPlain
  <2> QED  BY <1>9, <1>10, <1>16, <2>1, <2>3 DEF W
<1>17. CASE X.out \notin {"normal", "break"}
  <2>1. CppBody(<<l3>>, y, W) = y
    <3>1. <<l3>> \in Seq(CodeStatement(E)) /\ y.out # "normal"
      BY <1>7, <1>12, <1>17
    <3> QED  BY <1>2, <1>12, <3>1, CodeIsTyped
  <2>2. Arrives(c, a, x, y, st)
    BY <1>11, <1>12, <1>13, <1>17 DEF Arrives
  <2> QED  BY <1>9, <1>10, <1>17, <2>1, <2>2 DEF W
<1> QED  BY <1>15, <1>16, <1>17

(* Both languages before the finally body: what did not end normally has it  *)
(* in the C++ log already.                                                   *)
BeforeFinal(c, a, final, x, y, st) ==
    /\ y.out = x.out
    /\ x.out = "normal" => y.log = x.log
    /\ x.out # "normal" => y.log = x.log \o (Values(final) \o Extra(c, x.out))
    /\ Allowed(a, x.out)
    /\ Flags(c, x.out, y.up, st.up)

(* The finally body brings the logs together.                                *)
LEMMA FinalEnds ==
    ASSUME NEW E, NEW walk \in [E -> [Memory -> Memory]],
           NEW c \in Context, NEW a \in Place, NEW final \in Straight,
           NEW x \in Result, NEW y \in Memory, NEW st, y.cur = st.cur,
           BeforeFinal(c, a, final, x, y, st)
    PROVE  Arrives(c, a, Logged(x, final), CppBody(final, y, walk), st)
<1> DEFINE v == Values(final)
           l == x.log \o v
           z == Logged(x, final)
<1>1. final \in Seq(LogLine) /\ v \in Seq(Entry) /\ x.log \in Seq(Entry)
  <2>1. final \in Seq(LogLine)
    BY LogLinesAre
  <2> QED  BY <2>1, ValuesAre, ResultIs
<1>2. l \in Seq(Entry)
  <2> DEFINE u == x.log
  <2> HIDE DEF u, v
  <2> QED  BY <1>1, Concatenation DEF u
<1>3. z = [x EXCEPT !.log = l]
  BY DEF Logged, Values
<1> HIDE DEF v, l, z
<1>4. z \in Result /\ z.log = l /\ z.out = x.out
  BY <1>2, <1>3 DEF Result
<1>5. CASE x.out = "normal"
  <2> DEFINE m == CppBody(final, y, walk)
  <2>1. m = Logging(y, final) /\ m.out = "normal" /\ m.log = y.log \o v /\ m.up = y.up
        /\ m.cur = y.cur
    <3>1. <<>> \in Blocks(E) /\ y.out = "normal"
      BY <1>5, LinesAre DEF BeforeFinal
    <3>2. m = Logging(y, final)
      BY <1>1, <3>1, LogsThen
    <3>3. /\ Logging(y, final).out = "normal" /\ Logging(y, final).log = y.log \o v
          /\ Logging(y, final).up = y.up /\ Logging(y, final).cur = y.cur
      BY <1>1, <3>1, LogsThen DEF v
    <3> QED  BY <3>2, <3>3
  <2> HIDE DEF m
  <2>2. m.log = z.log /\ m.out = z.out /\ m.cur = st.cur /\ z.out = "normal"
    BY <1>4, <1>5, <2>1 DEF BeforeFinal, l
  <2>3. Flags(c, z.out, m.up, st.up)
    BY <1>5, <2>1, <2>2 DEF BeforeFinal
  <2>4. z.out \notin Jumps /\ Allowed(a, z.out)
    BY <2>2, NormalIsPlain
  <2>5. Arrives(c, a, z, m, st)
    BY <1>4, <2>2, <2>3, <2>4, PlainEnds
  <2> QED  BY <2>5 DEF m, z
<1>6. CASE x.out # "normal"
  <2>1. CppBody(final, y, walk) = y
    <3>1. final \in Seq(CodeStatement(E)) /\ y.out # "normal"
      BY <1>1, <1>6, LogLinesAre DEF BeforeFinal
    <3> QED  BY <3>1, CodeIsTyped
  <2>2. y.log = l \o Extra(c, x.out)
    <3> DEFINE u == x.log
               w == Extra(c, x.out)
    <3>1. u \in Seq(Entry) /\ v \in Seq(Entry) /\ w \in Seq(Entry)
      BY <1>1, ExtraIsTyped
    <3>2. y.log = u \o (v \o w) /\ l = u \o v
      BY <1>6 DEF BeforeFinal, v, l
    <3> HIDE DEF u, w
    <3>3. u \o (v \o w) = (u \o v) \o w
      BY <3>1, Concatenation
    <3> QED  BY <3>2, <3>3 DEF w
  <2>3. Arrives(c, a, z, y, st)
    <3>1. y.out = x.out /\ y.cur = st.cur /\ Allowed(a, x.out) /\ Flags(c, x.out, y.up, st.up)
      BY DEF BeforeFinal
    <3> QED  BY <1>4, <2>2, <3>1 DEF Arrives
  <2> QED  BY <2>1, <2>3 DEF z
<1> QED  BY <1>5, <1>6

(* What ends inside the try, in a body of it from which nothing is raised if *)
(* it has a finally body.                                                    *)
LEMMA InsideEnds ==
    ASSUME NEW c \in Context, NEW a \in Place, Describes(a, c), NEW s, s.final \in Straight,
           NEW q \in Place, q.may \subseteq a.may,
           NEW x \in Result, x.out \in Exc => s.final = <<>>,
           NEW y, NEW m, NEW st, Arrives(InTry(c, s.final), q, x, y, m),
           \A f \in 1 .. c.depth - 1 : f \in m.up <=> f \in st.up
    PROVE  BeforeFinal(c, a, s.final, x, y, st)
<1> DEFINE d == InTry(c, s.final)
           how == x.out
<1>1. /\ d.depth = c.depth + 1 /\ d.flag = c.flag /\ d \in Context
      /\ \A j \in Jumps : Extra(d, j) = Values(s.final) \o Extra(c, j)
  BY TryFits
<1> HIDE DEF d
<1>2. Arrives(d, q, x, y, m) /\ how \in Outcome
  BY ResultIs DEF d
<1>3. Allowed(a, how) /\ how # NoExc
  BY <1>2 DEF Arrives, Allowed
<1>4. Flags(c, how, y.up, st.up)
  <2>1. 1 .. c.depth - 1 \subseteq 1 .. d.depth - 1
    BY <1>1, ContextIs
  <2>2. Flags(d, how, y.up, m.up)
    BY <1>2 DEF Arrives
  <2> QED  BY <1>1, <2>1, <2>2 DEF Flags
<1>5. y.log = x.log \o Extra(d, how) /\ y.out = how
  BY <1>2 DEF Arrives
<1>6. how \notin Jumps => y.log = x.log
  <2>1. how \notin Jumps => Extra(d, how) = <<>>
    BY <1>1, ExtraIsTyped
  <2> QED  BY <1>5, <2>1, ResultIs, Concatenation
<1>7. ASSUME how # "normal" PROVE y.log = x.log \o (Values(s.final) \o Extra(c, how))
  <2>1. CASE how \in Jumps
    BY <1>1, <1>5, <2>1
  <2>2. CASE how \notin Jumps
    <3>1. how \in Exc
      BY <1>2, <1>3, <1>7, <2>2 DEF Outcome
    <3>2. Values(s.final) = <<>> /\ Extra(c, how) = <<>>
      BY <2>2, <3>1, ExtraIsTyped DEF Values
    <3>3. <<>> \o <<>> = <<>>
      BY Concatenation, EmptySeq
    <3>4. x.log \o <<>> = x.log
      BY ResultIs, Concatenation
    <3> QED  BY <1>6, <2>2, <3>2, <3>3, <3>4
  <2> QED  BY <2>1, <2>2
<1>8. how = "normal" => y.log = x.log
  BY <1>6, NormalIsPlain
<1> QED  BY <1>3, <1>4, <1>5, <1>7, <1>8 DEF BeforeFinal

(* A catch clause first clears the flag of an else.                          *)
ClauseStart(D, below, c, s, st, m) ==
    /\ m.out = "normal" /\ m.log = st.log /\ m.cur = st.cur
    /\ \A f \in 1 .. c.depth - 1 : f \in m.up <=> f \in st.up
    /\ s.orelse # <<>> => c.depth \notin m.up
    /\ \A tail \in Blocks(D) :
          CppBody(Cleared(s, c) \o tail, st, below) = CppBody(tail, m, below)

(* Whether or not there is a flag.                                           *)
LEMMA ClauseStarts ==
    ASSUME NEW D, NEW below \in [D -> [Memory -> Memory]], NEW c \in Context, NEW s,
           NEW st \in Memory, st.out = "normal"
    PROVE  \E m \in Memory : ClauseStart(D, below, c, s, st, m)
<1>1. c.depth \in Nat
  BY ContextIs
<1>2. CASE s.orelse = <<>>
  <2>1. Cleared(s, c) = <<>>
    BY <1>2 DEF Cleared
  <2>2. \A tail \in Blocks(D) : <<>> \o tail = tail
    BY Concatenation DEF Blocks
  <2>3. \A tail \in Blocks(D) :
           CppBody(Cleared(s, c) \o tail, st, below) = CppBody(tail, st, below)
    BY <2>1, <2>2
  <2> QED  BY <1>2, <2>3 DEF ClauseStart
<1>3. CASE s.orelse # <<>>
  <2> DEFINE g == SetFlag(c.depth, FALSE)
             m == CppStmt(g, st, below)
  <2>1. Cleared(s, c) = <<g>>
    BY <1>3 DEF Cleared
  <2>2. g \in CodeStatement(D)
    BY <1>1 DEF CodeStatement, SetFlag
  <2>3. m = [st EXCEPT !.up = st.up \ {c.depth}]
    BY <1>1, SetIs
  <2>4. st.up \ {c.depth} \in SUBSET Nat
    BY MemoryIs
  <2>5. m \in Memory /\ m.up = st.up \ {c.depth} /\ m.out = "normal" /\ m.log = st.log
        /\ m.cur = st.cur
    <3> HIDE DEF m
    <3> QED  BY <1>1, <2>3, <2>4, SetIs
  <2> HIDE DEF g
  <2>6. \A tail \in Blocks(D) :
           CppBody(<<g>> \o tail, st, below) = CppBody(tail, m, below)
    BY <2>2, OneThen
  <2> HIDE DEF m
  <2>7. /\ \A f \in 1 .. c.depth - 1 : f \in m.up <=> f \in st.up
        /\ c.depth \notin m.up
    BY <1>1, <2>5
  <2> QED  BY <2>1, <2>5, <2>6, <2>7 DEF ClauseStart
<1> QED  BY <1>2, <1>3

(* The handlers, and the clause for what they do not take.                   *)
ClauseEnd(c, a, s, ref, low, walk, X, Y, st) ==
    LET fit == Fit(s.handlers, X.out)
        cs == Clauses(s, c, low)
        st2 == [Y EXCEPT !.out = "normal", !.cur = X.out]
        T == walk[cs[First(Fit(cs, X.out))].body][st2]
        R == IF fit # {} THEN ref[s.handlers[First(fit)].body][[X EXCEPT !.out = "normal"]]
             ELSE X
    IN  /\ T \in Memory /\ R \in Result
        /\ BeforeFinal(c, a, s.final, R, T, st)
        /\ s.orelse # <<>> /\ T.out = "normal" => c.depth \notin T.up

(* What an exception in the body comes to, taken by a handler or thrown on.  *)
LEMMA ClauseEnds ==
    ASSUME NEW B, NEW D, NEW below, NEW ref, NEW low, NEW clean,
           Given(B, D, below, ref, low, clean),
           NEW c \in Context, NEW a \in Place, Describes(a, c),
           NEW s \in FlowStatement(B), s.k = "try",
           \A i \in DOMAIN s.handlers : clean[s.handlers[i].body][PastPlace(a, s)],
           NEW X \in Result, NEW Y \in Memory, NEW st \in Memory,
           X.out \in Exc, Y.out = X.out, Y.log = X.log, Allowed(a, X.out),
           \A f \in 1 .. c.depth - 1 : f \in Y.up <=> f \in st.up
    PROVE  ClauseEnd(c, a, s, ref, low, Running(D, below), X, Y, st)
<1> DEFINE W == Running(D, below)
           E == Blocks(D)
           e == X.out
           d == InTry(c, s.final)
           p == PastPlace(a, s)
           fit == Fit(s.handlers, e)
           cs == Clauses(s, c, low)
           cl == Cleared(s, c)
           code == cs[First(Fit(cs, e))].body
           st2 == [Y EXCEPT !.out = "normal", !.cur = e]
           T == W[code][st2]
           x == [X EXCEPT !.out = "normal"]
           F == s.final
<1>1. /\ s.handlers \in Seq(HandlerOf(B)) /\ F \in Straight /\ F \in Seq(LogLine)
      /\ Values(F) \in Seq(Entry)
  <2>1. s.handlers \in Seq(HandlerOf(B)) /\ F \in Straight
    BY FlowStatementIs
  <2>2. F \in Seq(LogLine)
    BY <2>1, LogLinesAre
  <2> QED  BY <2>1, <2>2, ValuesAre
<1>2. /\ d \in Context /\ p \in Place /\ Describes(p, d) /\ d.depth = c.depth + 1
      /\ d.flag = c.flag
  BY <1>1, TryFits
<1>3. /\ Does(B, D, below, ref, low, clean) /\ W \in [E -> [Memory -> Memory]]
      /\ below \in [D -> [Memory -> Memory]]
      /\ \A z \in E, m \in Memory : W[z][m] = CppBody(z, m, below) /\ CppBody(z, m, below) \in Memory
  <2>1. Grounded(D, below)
    BY DEF Given
  <2> QED  BY <2>1, GivenDoes, RunningIs DEF Grounded
<1>4. /\ st2 \in Memory /\ st2.out = "normal" /\ st2.log = X.log /\ st2.cur = e /\ st2.up = Y.up
  BY DEF Memory, Outcome
<1>5. x \in Result /\ x.out = "normal" /\ x.log = X.log
  BY DEF Result, Outcome
<1> HIDE DEF W, E, d, p, cs, cl, st2, x, F
<1>6. PICK m \in Memory :
         /\ m.out = "normal" /\ m.log = X.log /\ m.cur = e
         /\ \A f \in 1 .. c.depth - 1 : f \in m.up <=> f \in st.up
         /\ s.orelse # <<>> => c.depth \notin m.up
         /\ \A tail \in E : CppBody(cl \o tail, st2, below) = CppBody(tail, m, below)
  <2>1. below \in [D -> [Memory -> Memory]]
    BY <1>3
  <2>2. PICK m \in Memory : ClauseStart(D, below, c, s, st2, m)
    BY <1>4, <2>1, ClauseStarts
  <2> QED  BY <1>4, <2>2 DEF ClauseStart, E, cl
<1>7. cl \in E /\ \A u, v \in E : u \o v \in E
  <2>1. low \in [B -> [Context -> Blocks(D)]]
    BY DEF Given
  <2> QED  BY <2>1, ClausesAre, LinesAre DEF cl, E
<1>8. /\ fit # {} => /\ First(fit) \in 1 .. Len(s.handlers)
                     /\ code = cl \o low[s.handlers[First(fit)].body][d]
      /\ fit = {} => code = cl \o F \o <<Rethrow>>
  <2>1. low \in [B -> [Context -> Blocks(D)]]
    BY DEF Given
  <2>2. ClauseTaken(s, c, low, e)
    BY <2>1, ClauseThatFits
  <2> QED  BY <2>2 DEF ClauseTaken, cl, cs, d, F
<1> HIDE DEF code, fit
<1>9. ASSUME fit # {}
      PROVE  LET R == ref[s.handlers[First(fit)].body][x]
             IN  /\ T \in Memory /\ R \in Result /\ BeforeFinal(c, a, F, R, T, st)
                 /\ s.orelse # <<>> /\ T.out = "normal" => c.depth \notin T.up
  <2> DEFINE i == First(fit)
             ss == s.handlers[i].body
             R == ref[ss][x]
             z == low[ss][d]
  <2>1. i \in DOMAIN s.handlers /\ ss \in B
    <3>1. i \in DOMAIN s.handlers
      BY <1>1, <1>8, <1>9
    <3>2. s.handlers[i] \in HandlerOf(B)
      BY <1>1, <3>1
    <3> QED  BY <3>1, <3>2 DEF HandlerOf
  <2>2. clean[ss][p]
    BY <2>1, Zenon DEF p
  <2> HIDE DEF ss, i
  <2>3. Same(x, m)
    BY <1>5, <1>6 DEF Same
  <2>4. z \in E /\ R \in Result /\ W[z][m] \in Memory /\ Arrives(d, p, R, W[z][m], m)
    BY <1>2, <1>3, <1>5, <1>6, <2>1, <2>2, <2>3 DEF Does, W, E
  <2> HIDE DEF R, z
  <2>5. code \in E /\ T = W[z][m]
    <3>1. code = cl \o z
      BY <1>8, <1>9 DEF z, ss, i
    <3>2. code \in E
      BY <1>7, <2>4, <3>1
    <3>3. T = CppBody(cl \o z, st2, below)
      BY <1>3, <1>4, <3>1, <3>2
    <3>4. CppBody(cl \o z, st2, below) = CppBody(z, m, below)
      BY <1>6, <2>4
    <3>5. CppBody(z, m, below) = W[z][m]
      BY <1>3, <1>6, <2>4
    <3> QED  BY <3>2, <3>3, <3>4, <3>5
  <2> HIDE DEF T
  <2>6. p.may \subseteq a.may /\ (F # <<>> => "raise" \notin p.may)
    BY PlacesInside DEF p, PastPlace, F
  <2>7. R.out \in Exc => F = <<>>
    BY <2>4, <2>6 DEF Arrives, Allowed
  <2>8. BeforeFinal(c, a, F, R, T, st)
    <3>1. Arrives(InTry(c, s.final), p, R, T, m)
      BY <2>4, <2>5 DEF d
    <3> QED  BY <1>1, <1>2, <1>6, <2>4, <2>6, <2>7, <3>1, InsideEnds DEF F
  <2>9. ASSUME s.orelse # <<>>, T.out = "normal" PROVE c.depth \notin T.up
    <3>1. c.depth \in 1 .. d.depth - 1
      BY <1>2, ContextIs
    <3>2. R.out = "normal" /\ Flags(d, R.out, T.up, m.up)
      BY <2>4, <2>5, <2>9 DEF Arrives
    <3> QED  BY <1>6, <2>9, <3>1, <3>2 DEF Flags
  <2> QED  BY <2>4, <2>5, <2>8, <2>9 DEF R, ss, i
<1>10. ASSUME fit = {}
       PROVE  /\ T \in Memory /\ BeforeFinal(c, a, F, X, T, st)
              /\ s.orelse # <<>> /\ T.out = "normal" => c.depth \notin T.up
  <2> DEFINE g == <<Rethrow>>
             y == Logging(m, F)
  <2>1. g \in E /\ F \in E /\ F \o g \in E /\ cl \o (F \o g) \in E /\ Rethrow \in CodeStatement(D)
    <3>1. g \in E /\ F \in E
      BY <1>1, LinesAre DEF E
    <3>2. Rethrow \in CodeStatement(D)
      BY DEF Rethrow, CodeStatement
    <3> HIDE DEF g
    <3> QED  BY <1>7, <3>1, <3>2
  <2>2. code = cl \o (F \o g)
    <3>1. (cl \o F) \o g = cl \o (F \o g)
      <4> HIDE DEF g
      <4> QED  BY <1>7, <2>1, Concatenation DEF E, Blocks
    <3> QED  BY <1>8, <1>10, <3>1
  <2>3. T = CppBody(F \o g, m, below)
    <3>1. T = CppBody(code, st2, below)
      BY <1>3, <1>4, <2>1, <2>2
    <3> HIDE DEF g
    <3> QED  BY <1>6, <2>1, <2>2, <3>1
  <2>4. /\ y \in Memory /\ y.out = "normal" /\ y.log = m.log \o Values(F) /\ y.up = m.up
        /\ y.cur = m.cur
    <3>1. below \in [D -> [Memory -> Memory]] /\ <<>> \in Blocks(D)
      BY <1>3, LinesAre
    <3>2. m \in Memory /\ m.out = "normal"
      BY <1>6
    <3> QED  BY <1>1, <3>1, <3>2, LogsThen
  <2>5. CppBody(F \o g, m, below) = CppBody(g, y, below)
    <3> HIDE DEF g
    <3>1. below \in [D -> [Memory -> Memory]] /\ g \in Blocks(D)
      BY <1>3, <2>1 DEF E
    <3> QED  BY <1>1, <1>6, <3>1, LogsThen
  <2>6. CppBody(g, y, below) = CppStmt(Rethrow, y, below)
    <3> HIDE DEF y
    <3>1. below \in [D -> [Memory -> Memory]]
      BY <1>3
    <3> QED  BY <2>1, <2>4, <3>1, CodeOfOne
  <2>7. CppStmt(Rethrow, y, below) = [y EXCEPT !.out = y.cur]
    BY DEF CppStmt, Rethrow, Jumps
  <2> HIDE DEF T, y
  <2>8. /\ T.out = e /\ T.log = X.log \o Values(F) /\ T.up = m.up /\ T \in Memory
    <3>1. T = [y EXCEPT !.out = y.cur]
      BY <2>3, <2>5, <2>6, <2>7
    <3>2. e \in Outcome
      BY DEF Outcome
    <3> QED  BY <1>6, <2>4, <3>1, <3>2 DEF Memory
  <2>9. T.log = X.log \o (Values(F) \o Extra(c, e))
    <3>1. Extra(c, e) = <<>>
      BY NormalIsPlain, ExtraIsTyped
    <3>2. Values(F) \o <<>> = Values(F)
      BY <1>1, Concatenation
    <3> QED  BY <2>8, <3>1, <3>2
  <2>10. Flags(c, e, T.up, st.up) /\ e # "normal"
    BY <1>6, <2>8, NormalIsPlain DEF Flags, Jumps
  <2> QED  BY <2>8, <2>9, <2>10 DEF BeforeFinal
<1> HIDE DEF T
<1>11. LET R == IF fit # {} THEN ref[s.handlers[First(fit)].body][x] ELSE X
       IN  /\ T \in Memory /\ R \in Result /\ BeforeFinal(c, a, F, R, T, st)
           /\ s.orelse # <<>> /\ T.out = "normal" => c.depth \notin T.up
  BY <1>9, <1>10
<1> QED  BY <1>11 DEF ClauseEnd, T, W, code, cs, st2, x, F, fit

(* The code of a try: its flag, its C++ try, its else and its finally body.  *)
FlagUp(s, c) == IF s.orelse # <<>> THEN <<SetFlag(c.depth, TRUE)>> ELSE <<>>

(* The code of the else,                                                     *)
ElseCode(s, c, low) ==
    IF s.orelse # <<>> THEN <<IfFlag(c.depth, low[s.orelse][InTry(c, s.final)])>> ELSE <<>>

(* and the C++ try.                                                          *)
TryCode(s, c, low) == CppTry(low[s.body][InTry(c, s.final)], Clauses(s, c, low))

(* The memory once the flag is up.                                           *)
Flagged(s, c, r, st, m) ==
    /\ Same(r, m) /\ m.cur = st.cur
    /\ \A f \in 1 .. c.depth - 1 : f \in m.up <=> f \in st.up
    /\ s.orelse # <<>> => c.depth \in m.up

(* The first line of a try puts it up.                                       *)
LEMMA FlagIsUp ==
    ASSUME NEW E, NEW walk \in [E -> [Memory -> Memory]], NEW c \in Context, NEW s,
           NEW r, NEW st \in Memory, Same(r, st)
    PROVE  /\ FlagUp(s, c) \in Blocks(E)
           /\ CppBody(FlagUp(s, c), st, walk) \in Memory
           /\ Flagged(s, c, r, st, CppBody(FlagUp(s, c), st, walk))
<1>1. c.depth \in Nat /\ st.out = "normal" /\ st.log = r.log /\ r.out = "normal"
  BY ContextIs DEF Same
<1>2. CASE s.orelse = <<>>
  <2>1. FlagUp(s, c) = <<>> /\ <<>> \in Blocks(E)
    BY <1>2, LinesAre DEF FlagUp
  <2>2. CppBody(<<>>, st, walk) = st
    BY CodeOfNone
  <2> QED  BY <1>2, <2>1, <2>2 DEF Flagged
<1>3. CASE s.orelse # <<>>
  <2> DEFINE g == SetFlag(c.depth, TRUE)
             m == CppStmt(g, st, walk)
  <2>1. FlagUp(s, c) = <<g>> /\ <<g>> \in Blocks(E)
    BY <1>1, <1>3, LinesAre DEF FlagUp
  <2>2. g \in CodeStatement(E)
    BY <1>1 DEF CodeStatement, SetFlag
  <2>3. m = [st EXCEPT !.up = st.up \union {c.depth}]
    BY <1>1, SetIs
  <2>4. st.up \union {c.depth} \in SUBSET Nat
    BY <1>1, MemoryIs
  <2>5. m \in Memory /\ m.up = st.up \union {c.depth} /\ m.out = "normal" /\ m.log = st.log
        /\ m.cur = st.cur
    <3> HIDE DEF m
    <3> QED  BY <1>1, <2>3, <2>4, SetIs
  <2>6. CppBody(<<g>>, st, walk) = m
    <3> HIDE DEF g
    <3> QED  BY <1>1, <2>2, CodeOfOne
  <2> HIDE DEF g, m
  <2>7. \A f \in 1 .. c.depth - 1 : f \in m.up <=> f \in st.up
    BY <1>1, <2>5
  <2>8. Same(r, m) /\ c.depth \in m.up
    BY <1>1, <2>5 DEF Same
  <2> QED  BY <2>1, <2>5, <2>6, <2>7, <2>8 DEF Flagged
<1> QED  BY <1>2, <1>3

(* A try runs by its C++ try, then the else, then the finally body.          *)
TryRun(E, walk, s, c, low, st, m) ==
    LET T == CppStmt(TryCode(s, c, low), m, walk)
    IN  /\ T \in Memory /\ ElseCode(s, c, low) \in Blocks(E)
        /\ CppBody(ElseCode(s, c, low), T, walk) \in Memory
        /\ CppBody(LowStmt(s, c, low), st, walk)
             = CppBody(s.final, CppBody(ElseCode(s, c, low), T, walk), walk)

(* That is how the code of a try runs.                                       *)
LEMMA TryRuns ==
    ASSUME NEW D, NEW E, E = Blocks(D), E \subseteq Blocks(E),
           NEW walk \in [E -> [Memory -> Memory]],
           NEW B, NEW low \in [B -> [Context -> E]], NEW s \in FlowStatement(B), s.k = "try",
           NEW c \in Context, NEW st \in Memory, NEW m \in Memory,
           CppBody(FlagUp(s, c), st, walk) = m, FlagUp(s, c) \in Blocks(E), m.out = "normal"
    PROVE  TryRun(E, walk, s, c, low, st, m)
<1> DEFINE w == FlagUp(s, c)
           l == TryCode(s, c, low)
           u == ElseCode(s, c, low)
           F == s.final
           T == CppStmt(l, m, walk)
           d == InTry(c, s.final)
<1>1. F \in Straight /\ F \in Blocks(E) /\ s.body \in B /\ s.orelse \in B
  BY FlowStatementIs, LogLinesAre, LinesAre
<1>2. d \in Context /\ c.depth \in Nat
  BY <1>1, ContextsTyped, ContextIs
<1>3. low[s.body][d] \in E /\ low[s.orelse][d] \in E
  BY <1>1, <1>2
<1>4. l \in CodeStatement(E)
  <2>1. Clauses(s, c, low) \in Seq(HandlerOf(E))
    BY ClausesAre
  <2>2. \A x \in E, y \in Seq(HandlerOf(E)) : CppTry(x, y) \in CodeStatement(E)
    BY DEF CodeStatement, CppTry
  <2> HIDE DEF d
  <2> QED  BY <1>3, <2>1, <2>2 DEF TryCode, d
<1>5. u \in Blocks(E)
  BY <1>2, <1>3, LinesAre DEF ElseCode
<1>6. LowStmt(s, c, low) = w \o <<l>> \o u \o F
  BY LowTryIs DEF LowStmt, FlagUp, TryCode, ElseCode
<1> HIDE DEF w, l, u, F, d
<1>7. <<l>> \in Blocks(E) /\ w \in Blocks(E)
  BY <1>4 DEF Blocks, w
<1>8. /\ \A x, y \in Blocks(E) : x \o y \in Blocks(E)
      /\ \A x, y \in Blocks(E), q \in Memory :
            CppBody(x \o y, q, walk) = CppBody(y, CppBody(x, q, walk), walk)
  BY LinesAre, CodeOfTwo DEF Blocks
<1>9. T \in Memory /\ CppBody(<<l>>, m, walk) = T
  BY <1>4, CppTyped, CodeOfOne
<1> HIDE DEF T
<1>10. CppBody(w \o <<l>>, st, walk) = T
  BY <1>7, <1>8, <1>9 DEF w
<1>11. CppBody(w \o <<l>> \o u, st, walk) = CppBody(u, T, walk)
  BY <1>5, <1>7, <1>8, <1>10
<1>12. CppBody(LowStmt(s, c, low), st, walk) = CppBody(F, CppBody(u, T, walk), walk)
  <2> DEFINE v == w \o <<l>> \o u
  <2>1. v \in Blocks(E)
    BY <1>5, <1>7, <1>8
  <2>2. LowStmt(s, c, low) = v \o F
    BY <1>6
  <2> HIDE DEF v
  <2>3. CppBody(v \o F, st, walk) = CppBody(F, CppBody(v, st, walk), walk)
    BY <1>1, <1>8, <2>1
  <2> QED  BY <1>11, <2>2, <2>3 DEF v
<1>13. CppBody(u, T, walk) \in Memory
  BY <1>5, <1>9, CodeIsTyped DEF Blocks
<1> QED  BY <1>5, <1>9, <1>12, <1>13 DEF TryRun, T, u, l, F

(* The else runs when its flag is up and nothing has ended otherwise.        *)
LEMMA ElseRuns ==
    ASSUME NEW E, NEW walk \in [E -> [Memory -> Memory]], NEW c \in Context, NEW s, NEW low,
           ElseCode(s, c, low) \in Blocks(E), NEW T \in Memory,
           s.orelse # <<>> => low[s.orelse][InTry(c, s.final)] \in E
    PROVE  /\ T.out # "normal" \/ s.orelse = <<>> \/ c.depth \notin T.up
                => CppBody(ElseCode(s, c, low), T, walk) = T
           /\ T.out = "normal" /\ s.orelse # <<>> /\ c.depth \in T.up
                => CppBody(ElseCode(s, c, low), T, walk)
                     = walk[low[s.orelse][InTry(c, s.final)]][T]
<1> DEFINE o == low[s.orelse][InTry(c, s.final)]
           u == ElseCode(s, c, low)
<1>1. T.out # "normal" => CppBody(u, T, walk) = T
  BY CodeIsTyped DEF Blocks
<1>2. s.orelse = <<>> => CppBody(u, T, walk) = T
  BY CodeOfNone DEF ElseCode
<1>3. ASSUME T.out = "normal", s.orelse # <<>>
      PROVE  CppBody(u, T, walk) = IF c.depth \in T.up THEN walk[o][T] ELSE T
  <2> DEFINE g == IfFlag(c.depth, o)
  <2>1. u = <<g>>
    BY <1>3 DEF ElseCode
  <2>2. g \in CodeStatement(E)
    BY <1>3, ContextIs DEF CodeStatement, IfFlag
  <2>3. CppStmt(g, T, walk) = IF c.depth \in T.up THEN walk[o][T] ELSE T
    BY IfIs
  <2> HIDE DEF g, u
  <2> QED  BY <1>3, <2>1, <2>2, <2>3, CodeOfOne
<1> QED  BY <1>1, <1>2, <1>3

(* try: whichever way its body ends, what follows up to the finally body     *)
(* brings both languages before it in the same way.                          *)
LEMMA TryEnds ==
    ASSUME NEW B, NEW D, NEW below, NEW ref, NEW low, NEW clean,
           Given(B, D, below, ref, low, clean),
           NEW c \in Context, NEW a \in Place, Describes(a, c),
           NEW s \in FlowStatement(B), s.k = "try",
           clean[s.body][TryPlace(a, s)], clean[s.orelse][PastPlace(a, s)],
           \A i \in DOMAIN s.handlers : clean[s.handlers[i].body][PastPlace(a, s)],
           NEW r \in Result, NEW st \in Memory, Same(r, st)
    PROVE  Arrives(c, a, PyStmt(s, r, ref),
                CppBody(LowStmt(s, c, low), st, Running(D, below)), st)
<1> DEFINE W == Running(D, below)
           E == Blocks(D)
           d == InTry(c, s.final)
           e == TryPlace(a, s)
           p == PastPlace(a, s)
           F == s.final
           u == ElseCode(s, c, low)
           zb == low[s.body][d]
           zo == low[s.orelse][d]
           cs == Clauses(s, c, low)
           X == ref[s.body][r]
           fit == Fit(s.handlers, X.out)
           x == [X EXCEPT !.out = "normal"]
           H == ref[s.handlers[First(fit)].body][x]
           R == IF X.out \in Exc /\ fit # {} THEN H
                ELSE IF X.out = "normal" THEN ref[s.orelse][X]
                ELSE X
<1>1. F \in Straight /\ s.body \in B /\ s.orelse \in B /\ c.depth \in Nat
  BY FlowStatementIs, ContextIs
<1>2. /\ d \in Context /\ d.depth = c.depth + 1 /\ d.flag = c.flag
      /\ e \in Place /\ Describes(e, d) /\ p \in Place /\ Describes(p, d)
  BY <1>1, TryFits
<1>3. e.may = a.may /\ p.may \subseteq a.may /\ (F # <<>> => "raise" \notin p.may)
  BY PlacesInside DEF TryPlace, PastPlace
<1>4. /\ W \in [E -> [Memory -> Memory]] /\ E \subseteq Blocks(E)
      /\ Does(B, D, below, ref, low, clean)
  BY GivenDoes
<1>5. low \in [B -> [Context -> E]] /\ ref \in [B -> [Result -> Result]]
      /\ \A q \in Result : <<>> \in B => ref[<<>>][q] = q
  BY DEF Given
<1>6. zb \in E /\ zo \in E
  BY <1>1, <1>2, <1>5
<1>7. PyStmt(s, r, ref) = Logged(R, F)
  BY DEF PyStmt, PyTry, Jumps
<1> DEFINE st1 == CppBody(FlagUp(s, c), st, W)
<1>8. /\ st1 \in Memory /\ Same(r, st1) /\ st1.cur = st.cur
      /\ FlagUp(s, c) \in Blocks(E)
      /\ \A f \in 1 .. c.depth - 1 : f \in st1.up <=> f \in st.up
      /\ s.orelse # <<>> => c.depth \in st1.up
  <2> HIDE DEF W, E
  <2>1. W \in [E -> [Memory -> Memory]]
    BY <1>4
  <2>2. st1 \in Memory /\ Flagged(s, c, r, st, st1) /\ FlagUp(s, c) \in Blocks(E)
    BY <2>1, FlagIsUp
  <2> QED  BY <2>2 DEF Flagged
<1> DEFINE Y == W[zb][st1]
           T == CppStmt(TryCode(s, c, low), st1, W)
           M == CppBody(u, T, W)
<1>9. /\ T \in Memory /\ u \in Blocks(E) /\ M \in Memory
      /\ CppBody(LowStmt(s, c, low), st, W) = CppBody(F, M, W)
  <2>1. E = Blocks(D) /\ st1.out = "normal"
    BY <1>8 DEF Same
  <2> HIDE DEF W, E, st1
  <2>2. TryRun(E, W, s, c, low, st, st1)
    BY <1>4, <1>5, <1>8, <2>1, TryRuns DEF st1
  <2> QED  BY <2>2 DEF TryRun
<1> DEFINE st2 == [Y EXCEPT !.out = "normal", !.cur = Y.out]
           G == W[cs[First(Fit(cs, Y.out))].body][st2]
<1>10. T = IF Y.out \notin Exc \/ Fit(cs, Y.out) = {} THEN Y ELSE [G EXCEPT !.cur = st1.cur]
  BY DEF CppStmt, CppTrying, TryCode, CppTry, Jumps
<1> HIDE DEF T, G, cs, X, Y, zb, zo, R, H, st1
<1>11. X \in Result /\ Y \in Memory /\ Arrives(d, e, X, Y, st1)
  <2> HIDE DEF W, E, d, e
  <2> QED  BY <1>1, <1>2, <1>4, <1>8 DEF Does, W, E, X, Y, zb, d, e
<1>12. /\ Y.out = X.out /\ Y.cur = st.cur /\ Allowed(e, X.out) /\ Y.log = X.log \o Extra(d, X.out)
       /\ \A f \in 1 .. c.depth - 1 :
             ~(X.out = "break" /\ f = c.flag) => (f \in Y.up <=> f \in st.up)
       /\ s.orelse # <<>> /\ X.out = "normal" => c.depth \in Y.up
  <2>1. /\ Y.out = X.out /\ Y.cur = st.cur /\ Allowed(e, X.out) /\ Y.log = X.log \o Extra(d, X.out)
        /\ Flags(d, X.out, Y.up, st1.up)
    BY <1>8, <1>11 DEF Arrives
  <2>2. \A f \in 1 .. c.depth - 1 : f \in 1 .. d.depth - 1
    BY <1>1, <1>2
  <2>3. c.depth \in 1 .. d.depth - 1
    <3>1. c.depth # 0
      BY ContextIs
    <3> QED  BY <1>1, <1>2, <3>1
  <2>4. \A f \in 1 .. c.depth - 1 :
           ~(X.out = "break" /\ f = c.flag) => (f \in Y.up <=> f \in st.up)
    BY <1>2, <1>8, <2>1, <2>2 DEF Flags
  <2>5. s.orelse # <<>> /\ X.out = "normal" => c.depth \in Y.up
    BY <1>8, <2>1, <2>3 DEF Flags
  <2> QED  BY <2>1, <2>4, <2>5
<1>13. /\ T.out # "normal" \/ s.orelse = <<>> \/ c.depth \notin T.up => M = T
       /\ T.out = "normal" /\ s.orelse # <<>> /\ c.depth \in T.up => M = W[zo][T]
  <2> HIDE DEF W, E, u
  <2> QED  BY <1>4, <1>6, <1>9, ElseRuns DEF u, zo, d
<1>14. ASSUME X.out \in Exc
       PROVE  R \in Result /\ M.cur = st.cur /\ BeforeFinal(c, a, F, R, M, st)
  <2>1. Y.log = X.log
    <3>1. Extra(d, X.out) = <<>>
      BY <1>2, <1>14, ExtraIsTyped, NormalIsPlain
    <3> QED  BY <1>11, <1>12, <3>1, ResultIs, Concatenation
  <2>2. Allowed(a, X.out) /\ \A f \in 1 .. c.depth - 1 : f \in Y.up <=> f \in st.up
    <3>1. X.out # "break"
      BY <1>14, NormalIsPlain DEF Jumps
    <3> QED  BY <1>3, <1>12, <3>1 DEF Allowed
  <2>3. LET R1 == IF fit # {} THEN H ELSE X
        IN  /\ G \in Memory /\ R1 \in Result
            /\ BeforeFinal(c, a, F, R1, G, st)
            /\ s.orelse # <<>> /\ G.out = "normal" => c.depth \notin G.up
    <3>1. Y.out = X.out
      BY <1>12
    <3>2. ClauseEnd(c, a, s, ref, low, W, X, Y, st)
      BY <1>11, <1>14, <2>1, <2>2, <3>1, ClauseEnds
    <3> QED  BY <3>1, <3>2 DEF ClauseEnd, G, H, cs
  <2>4. R = IF fit # {} THEN H ELSE X
    BY <1>14, NormalIsPlain DEF R
  <2>5. T = [G EXCEPT !.cur = st1.cur]
    <3>1. Fit(cs, X.out) # {}
      <4>1. low \in [B -> [Context -> Blocks(D)]]
        BY <1>5
      <4> QED  BY <1>14, <4>1, ClauseThatFits DEF ClauseTaken, cs
    <3> QED  BY <1>10, <1>12, <1>14, <3>1
  <2>6. T.out = G.out /\ T.log = G.log /\ T.up = G.up /\ T.cur = st.cur
    BY <1>8, <2>3, <2>5 DEF Memory
  <2>7. M = T
    <3> HIDE DEF M
    <3> QED  BY <1>13, <2>3, <2>6
  <2> HIDE DEF fit
  <2>8. R \in Result /\ BeforeFinal(c, a, F, R, G, st)
    BY <2>3, <2>4
  <2>9. BeforeFinal(c, a, F, R, T, st)
    BY <2>6, <2>8 DEF BeforeFinal
  <2> HIDE DEF M
  <2> QED  BY <2>6, <2>7, <2>8, <2>9
<1> HIDE DEF M
<1>15. ASSUME X.out = "normal"
       PROVE  R \in Result /\ M.cur = st.cur /\ BeforeFinal(c, a, F, R, M, st)
  <2>1. X.out \notin Exc /\ T = Y
    BY <1>10, <1>12, <1>15, NormalIsPlain
  <2>2. R = ref[s.orelse][X]
    BY <1>15, <2>1 DEF R
  <2>3. CASE s.orelse = <<>>
    <3>1. R = X /\ M = Y
      BY <1>1, <1>5, <1>11, <1>13, <2>1, <2>2, <2>3
    <3>2. BeforeFinal(c, a, s.final, X, Y, st)
      <4>1. X.out \in Exc => s.final = <<>>
        BY <2>1
      <4> QED  BY <1>1, <1>2, <1>3, <1>8, <1>11, <4>1, InsideEnds
    <3> QED  BY <1>11, <1>12, <3>1, <3>2
  <2>4. CASE s.orelse # <<>>
    <3>1. M = W[zo][Y] /\ Same(X, Y)
      <4>1. Same(X, Y)
        BY <1>2, <1>11, <1>15, ThenEnds
      <4> QED  BY <1>12, <1>13, <1>15, <2>1, <2>4, <4>1
    <3>2. R \in Result /\ Arrives(d, p, R, M, Y)
      <4> HIDE DEF W, E, d, p
      <4> QED  BY <1>1, <1>2, <1>4, <1>11, <2>2, <3>1 DEF Does, W, zo, d, p
    <3>3. R.out \in Exc => s.final = <<>>
      BY <1>3, <3>2 DEF Arrives, Allowed
    <3>4. \A f \in 1 .. c.depth - 1 : f \in Y.up <=> f \in st.up
      BY <1>12, <1>15
    <3>5. BeforeFinal(c, a, s.final, R, M, st)
      BY <1>1, <1>2, <1>3, <3>2, <3>3, <3>4, InsideEnds
    <3>6. M.cur = st.cur
      BY <1>12, <3>2 DEF Arrives
    <3> QED  BY <3>2, <3>5, <3>6
  <2> QED  BY <2>3, <2>4
<1>16. ASSUME X.out \notin Exc, X.out # "normal"
       PROVE  R \in Result /\ M.cur = st.cur /\ BeforeFinal(c, a, F, R, M, st)
  <2>1. T = Y /\ R = X
    BY <1>10, <1>12, <1>16 DEF R
  <2>2. M = Y
    BY <1>12, <1>13, <1>16, <2>1
  <2>3. BeforeFinal(c, a, s.final, X, Y, st)
    <3>1. X.out \in Exc => s.final = <<>>
      BY <1>16
    <3> QED  BY <1>1, <1>2, <1>3, <1>8, <1>11, <3>1, InsideEnds
  <2> QED  BY <1>11, <1>12, <2>1, <2>2, <2>3
<1>17. R \in Result /\ M.cur = st.cur /\ BeforeFinal(c, a, F, R, M, st)
  BY <1>14, <1>15, <1>16
<1>18. Arrives(c, a, Logged(R, F), CppBody(F, M, W), st)
  <2> HIDE DEF W, E, F
  <2> QED  BY <1>1, <1>4, <1>9, <1>17, FinalEnds
<1> QED  BY <1>7, <1>9, <1>18

(* Every statement follows.                                                  *)
Step(s, c, low, walk) == [st \in Memory |-> CppBody(LowStmt(s, c, low), st, walk)]

(* and of Python.                                                            *)
PyStep(s, ref) == [r \in Result |-> PyStmt(s, r, ref)]

(* Both are typed.                                                           *)
LEMMA StepsTyped ==
    ASSUME NEW B, NEW D, NEW below, NEW ref, NEW low, NEW clean,
           Given(B, D, below, ref, low, clean),
           NEW c \in Context, NEW s \in FlowStatement(B)
    PROVE  /\ LowStmt(s, c, low) \in Blocks(Blocks(D))
           /\ PyStep(s, ref) \in [Result -> Result]
           /\ Step(s, c, low, Running(D, below)) \in [Memory -> Memory]
<1> DEFINE W == Running(D, below)
           E == Blocks(D)
<1>1. /\ ref \in [B -> [Result -> Result]] /\ low \in [B -> [Context -> Blocks(D)]]
      /\ D \subseteq Blocks(D)
  BY DEF Given, Grounded
<1>2. LowStmt(s, c, low) \in Blocks(E)
  BY <1>1, LowTyped
<1>3. \A r \in Result : PyStmt(s, r, ref) \in Result
  BY <1>1, PyTyped
<1>4. W \in [E -> [Memory -> Memory]]
  BY GivenDoes
<1> HIDE DEF W, E
<1>5. \A st \in Memory : CppBody(LowStmt(s, c, low), st, W) \in Memory
  <2> DEFINE code == LowStmt(s, c, low)
  <2>1. code \in Seq(CodeStatement(E))
    BY <1>2 DEF Blocks
  <2> HIDE DEF code
  <2>2. \A st \in Memory : CppBody(code, st, W) \in Memory
    BY <1>4, <2>1, CodeIsTyped
  <2> QED  BY <2>2 DEF code
<1>6. PyStep(s, ref) \in [Result -> Result]
  BY <1>3 DEF PyStep
<1>7. Step(s, c, low, W) \in [Memory -> Memory]
  BY <1>5 DEF Step
<1> QED  BY <1>2, <1>6, <1>7 DEF W, E

(* The code of a clean statement follows it, whichever statement it is.      *)
LEMMA StatementFollows ==
    ASSUME NEW B, NEW D, NEW below, NEW ref, NEW low, NEW clean,
           Given(B, D, below, ref, low, clean),
           NEW c \in Context, NEW a \in Place, Describes(a, c),
           NEW s \in FlowStatement(B), CleanStmt(s, a, clean)
    PROVE  Follows(c, a, PyStep(s, ref), Step(s, c, low, Running(D, below)))
<1> DEFINE W == Running(D, below)
<1> USE FlowStatementIs
<1>1. W \in [Blocks(D) -> [Memory -> Memory]]
  BY GivenDoes
<1>2. ASSUME NEW r \in Result, NEW st \in Memory, Same(r, st)
      PROVE  Arrives(c, a, PyStmt(s, r, ref), CppBody(LowStmt(s, c, low), st, W), st)
  <2>1. CASE s.k = "log"
    <3>1. s.v \in Value /\ s = [k |-> "log", v |-> s.v]
      BY <2>1
    <3> DEFINE v == s.v
    <3>2. v \in Value /\ s = [k |-> "log", v |-> v]
      BY <3>1
    <3> HIDE DEF v, W
    <3> QED  BY <1>1, <1>2, <3>2, LogEnds
  <2>2. CASE s.k = "raise"
    <3> DEFINE v == s.e
    <3>1. v \in Exc /\ s = [k |-> "raise", e |-> v]
      BY <2>2
    <3>2. "raise" \in a.may
      BY <2>2 DEF CleanStmt, Jumps
    <3> HIDE DEF v, W
    <3> QED  BY <1>1, <1>2, <3>1, <3>2, RaiseEnds
  <2>3. CASE s.k \in Jumps
    <3>1. s.k \in a.may
      BY <2>3 DEF CleanStmt, Jumps
    <3> HIDE DEF W
    <3> QED  BY <1>1, <1>2, <2>3, <3>1, JumpEnds
  <2>4. CASE s.k = "with"
    <3>1. clean[s.body][InsideWith(a)]
      BY <2>4, Zenon DEF CleanStmt, Jumps
    <3> QED  BY <1>2, <2>4, <3>1, WithEnds
  <2>5. CASE s.k = "loop"
    <3>1. clean[s.body][InsideLoop(a)] /\ clean[s.orelse][a]
      BY <2>5, Zenon DEF CleanStmt, Jumps
    <3> QED  BY <1>2, <2>5, <3>1, PlainLoopEnds, ElseLoopEnds
  <2>6. CASE s.k = "try"
    <3>1. /\ clean[s.body][TryPlace(a, s)] /\ clean[s.orelse][PastPlace(a, s)]
          /\ \A i \in DOMAIN s.handlers : clean[s.handlers[i].body][PastPlace(a, s)]
      BY <2>6, Zenon DEF CleanStmt, Jumps, TryPlace, PastPlace
    <3> QED  BY <1>2, <2>6, <3>1, TryEnds
  <2> QED  BY <2>1, <2>2, <2>3, <2>4, <2>5, <2>6 DEF Jumps
<1>3. PyStep(s, ref) \in [Result -> Result] /\ Step(s, c, low, W) \in [Memory -> Memory]
  BY StepsTyped
<1>4. /\ \A r \in Result : PyStep(s, ref)[r] = PyStmt(s, r, ref)
      /\ \A st \in Memory : Step(s, c, low, W)[st] = CppBody(LowStmt(s, c, low), st, W)
  BY DEF PyStep, Step
<1> HIDE DEF W
<1> QED  BY <1>2, <1>3, <1>4 DEF Follows, W

(* The code of a body, line by line, and its run.                            *)
BuiltBy(lines, E, ss, c, low) ==
    /\ lines[0] = <<>> /\ LowBody(ss, c, low) = lines[Len(ss)]
    /\ \A n \in 0 .. Len(ss) : lines[n] \in Blocks(E)
    /\ \A n \in 1 .. Len(ss) : lines[n] = lines[n - 1] \o LowStmt(ss[n], c, low)

(* LowBody puts it together line by line.                                    *)
LEMMA LowBodyUnfolds ==
    ASSUME NEW E, NEW ss, NEW c, NEW low, Len(ss) \in Nat,
           \A i \in 1 .. Len(ss) : LowStmt(ss[i], c, low) \in Blocks(E)
    PROVE  \E lines : BuiltBy(lines, E, ss, c, low)
<1> DEFINE N == Len(ss)
           T == Blocks(E)
           O(n, v) == v \o LowStmt(ss[n], c, low)
           Unfolds(f) == f = [n \in 0 .. N |-> IF n = 0 THEN <<>> ELSE O(n, f[n - 1])]
<1>1. LowBody(ss, c, low) = (CHOOSE f : Unfolds(f))[N]
  BY DEF LowBody
<1>2. N \in Nat
  OBVIOUS
<1>3. <<>> \in T /\ \A n \in 1 .. N : \A v \in T : O(n, v) \in T
  BY LinesAre
<1>4. 0 \in 0 .. N /\ \A n \in 1 .. N : n - 1 \in 0 .. N /\ n \in 0 .. N /\ n # 0
  BY <1>2
<1> HIDE DEF O, N, T
<1>5. \E f : Unfolds(f)
  <2> DEFINE S == [n \in 0 .. N |-> T]
             G == [n \in 1 .. N |-> [v \in T |-> O(n, v)]]
  <2>1. \A n \in 0 .. N : S[n] = T
    OBVIOUS
  <2>2. \A n \in 1 .. N : \A v \in T : G[n][v] = O(n, v)
    OBVIOUS
  <2> HIDE DEF S, G
  <2>3. PICK f : /\ Unrolls(f, N, <<>>, G)
                 /\ \A n \in 0 .. N : f[n] \in S[n]
    <3>1. \A n \in 1 .. N : \A v \in S[n - 1] : G[n][v] \in S[n]
      BY <1>3, <1>4, <2>1, <2>2
    <3>2. <<>> \in S[0]
      BY <1>3, <1>4, <2>1
    <3> QED  BY <1>2, <3>1, <3>2, Recursion
  <2>4. \A n \in 0 .. N : n # 0 => n \in 1 .. N /\ G[n][f[n - 1]] = O(n, f[n - 1])
    BY <1>2, <1>4, <2>1, <2>2, <2>3
  <2>5. f = [n \in 0 .. N |-> IF n = 0 THEN <<>> ELSE O(n, f[n - 1])]
    BY <2>3, <2>4 DEF Unrolls
  <2> QED  BY <2>5
<1> DEFINE F == CHOOSE u : Unfolds(u)
<1>6. Unfolds(F)
  <2> HIDE DEF Unfolds
  <2> QED  BY <1>5
<1> HIDE DEF F
<1>7. F[0] = <<>> /\ \A n \in 1 .. N : F[n] = O(n, F[n - 1])
  <2>1. F[0] = <<>>
    BY <1>4, <1>6
  <2>2. ASSUME NEW n \in 1 .. N PROVE F[n] = O(n, F[n - 1])
    BY <1>4, <1>6
  <2> QED  BY <2>1, <2>2
<1>8. \A n \in 0 .. N : F[n] \in T
  <2> DEFINE A == {n \in 0 .. N : F[n] \in T}
  <2>1. 0 \in A /\ \A n \in 1 .. N : n - 1 \in A => n \in A
    BY <1>3, <1>4, <1>7
  <2>2. \A n \in 0 .. N : n \in A
    <3> HIDE DEF A
    <3> QED  BY <1>2, <2>1, Induction
  <2> QED  BY <2>2
<1>9. LowBody(ss, c, low) = F[N]
  BY <1>1 DEF F
<1>10. \A n \in 1 .. N : F[n] = F[n - 1] \o LowStmt(ss[n], c, low)
  BY <1>7 DEF O
<1>11. BuiltBy(F, E, ss, c, low)
  BY <1>7, <1>8, <1>9, <1>10 DEF N, T, BuiltBy
<1> QED  BY <1>11

(* The steps of a body in the C++,                                           *)
Steps(ss, c, low, walk) == [i \in DOMAIN ss |-> Step(ss[i], c, low, walk)]

(* and in Python.                                                            *)
PySteps(ss, ref) == [i \in DOMAIN ss |-> PyStep(ss[i], ref)]

(* They are typed, one for each statement.                                   *)
LEMMA BodyStepsTyped ==
    ASSUME NEW B, NEW D, NEW below, NEW ref, NEW low, NEW clean,
           Given(B, D, below, ref, low, clean),
           NEW c \in Context, NEW ss \in Seq(FlowStatement(B))
    PROVE  /\ Steps(ss, c, low, Running(D, below)) \in Seq([Memory -> Memory])
           /\ Len(Steps(ss, c, low, Running(D, below))) = Len(ss)
           /\ PySteps(ss, ref) \in Seq([Result -> Result]) /\ Len(PySteps(ss, ref)) = Len(ss)
           /\ \A i \in 1 .. Len(ss) :
                 /\ ss[i] \in FlowStatement(B)
                 /\ Steps(ss, c, low, Running(D, below))[i] = Step(ss[i], c, low, Running(D, below))
                 /\ PySteps(ss, ref)[i] = PyStep(ss[i], ref)
<1> DEFINE W == Running(D, below)
           g(i) == Step(ss[i], c, low, W)
           p(i) == PyStep(ss[i], ref)
           M == [Memory -> Memory]
           R == [Result -> Result]
<1>1. DOMAIN ss = 1 .. Len(ss) /\ Len(ss) \in Nat
      /\ \A i \in 1 .. Len(ss) : ss[i] \in FlowStatement(B)
  OBVIOUS
<1>2. \A i \in 1 .. Len(ss) : g(i) \in M /\ p(i) \in R
  BY <1>1, StepsTyped
<1>3. /\ Steps(ss, c, low, W) = [i \in 1 .. Len(ss) |-> g(i)]
      /\ PySteps(ss, ref) = [i \in 1 .. Len(ss) |-> p(i)]
  BY <1>1 DEF Steps, PySteps
<1> HIDE DEF g, p, M, R, W
<1>4. /\ Steps(ss, c, low, W) \in Seq(M) /\ Len(Steps(ss, c, low, W)) = Len(ss)
      /\ PySteps(ss, ref) \in Seq(R) /\ Len(PySteps(ss, ref)) = Len(ss)
      /\ \A i \in 1 .. Len(ss) : Steps(ss, c, low, W)[i] = g(i) /\ PySteps(ss, ref)[i] = p(i)
  BY <1>1, <1>2, <1>3
<1> QED  BY <1>1, <1>4 DEF g, p, M, R, W

(* The code of a body runs as the chain of its statements' steps.            *)
LEMMA BodyRuns ==
    ASSUME NEW B, NEW D, NEW below, NEW ref, NEW low, NEW clean,
           Given(B, D, below, ref, low, clean),
           NEW c \in Context, NEW ss \in Seq(FlowStatement(B))
    PROVE  /\ LowBody(ss, c, low) \in Blocks(Blocks(D))
           /\ \A st \in Memory :
                 CppBody(LowBody(ss, c, low), st, Running(D, below))
                   = Chain(Steps(ss, c, low, Running(D, below)), st)
<1> DEFINE W == Running(D, below)
           E == Blocks(D)
           gs == Steps(ss, c, low, W)
           N == Len(ss)
           L(i) == LowStmt(ss[i], c, low)
<1>1. /\ gs \in Seq([Memory -> Memory]) /\ Len(gs) = N /\ N \in Nat
      /\ \A i \in 1 .. N : gs[i] = [st \in Memory |-> CppBody(L(i), st, W)]
  BY BodyStepsTyped DEF Step
<1>2. \A i \in 1 .. N : L(i) \in Blocks(E)
  BY StepsTyped
<1>3. W \in [E -> [Memory -> Memory]]
  BY GivenDoes
<1> HIDE DEF W, E, gs
<1>a. PICK F : BuiltBy(F, E, ss, c, low)
  BY <1>1, <1>2, LowBodyUnfolds
<1>4. /\ F[0] = <<>> /\ LowBody(ss, c, low) = F[N]
      /\ \A n \in 0 .. N : F[n] \in Blocks(E)
      /\ \A n \in 1 .. N : F[n] = F[n - 1] \o L(n)
  BY <1>a DEF BuiltBy
<1> HIDE DEF L, N
<1>5. ASSUME NEW st \in Memory
      PROVE  CppBody(F[N], st, W) = Chain(gs, st)
  <2>1. PICK P : ChainRuns(Memory, gs, st, P)
    BY <1>1, ChainUnfolds
  <2>2. /\ P[0] = st /\ Chain(gs, st) = P[N] /\ \A n \in 0 .. N : P[n] \in Memory
        /\ \A n \in 1 .. N : P[n] = IF P[n - 1].out = "normal" THEN gs[n][P[n - 1]] ELSE P[n - 1]
    BY <1>1, <2>1 DEF ChainRuns
  <2> DEFINE A == {n \in 0 .. N : CppBody(F[n], st, W) = P[n]}
  <2>3. 0 \in A
    BY <1>1, <1>4, <2>2, CodeOfNone
  <2>4. ASSUME NEW n \in 1 .. N, n - 1 \in A PROVE n \in A
    <3>1. n \in 0 .. N /\ n - 1 \in 0 .. N
      BY <1>1
    <3> DEFINE u == F[n - 1]
               v == L(n)
               q == P[n - 1]
    <3>2. u \in Seq(CodeStatement(E)) /\ v \in Seq(CodeStatement(E)) /\ q \in Memory
          /\ F[n] = u \o v /\ CppBody(u, st, W) = q
      BY <1>2, <1>4, <2>2, <2>4, <3>1 DEF Blocks
    <3>3. gs[n][q] = CppBody(v, q, W)
      BY <1>1, <3>2
    <3>4. P[n] = IF q.out = "normal" THEN gs[n][q] ELSE q
      BY <2>2
    <3> HIDE DEF u, v, q
    <3>5. CppBody(u \o v, st, W) = CppBody(v, q, W)
      BY <1>3, <3>2, CodeOfTwo
    <3>6. q.out # "normal" => CppBody(v, q, W) = q
      BY <1>3, <3>2, CodeIsTyped
    <3> QED  BY <3>1, <3>2, <3>3, <3>4, <3>5, <3>6
  <2>5. N \in A
    <3>1. 0 \in 0 .. N /\ N \in 0 .. N
      BY <1>1
    <3> HIDE DEF A
    <3> QED  BY <1>1, <2>3, <2>4, <3>1, Induction
  <2> QED  BY <2>2, <2>5
<1>6. F[N] \in Blocks(E)
  BY <1>1, <1>4
<1> QED  BY <1>4, <1>5, <1>6 DEF W, E, gs

(* The code of a clean body follows it.                                      *)
LEMMA BodyFollows ==
    ASSUME NEW B, NEW D, NEW below, NEW ref, NEW low, NEW clean,
           Given(B, D, below, ref, low, clean),
           NEW c \in Context, NEW a \in Place, Describes(a, c),
           NEW ss \in Seq(FlowStatement(B)),
           \A i \in DOMAIN ss : CleanStmt(ss[i], a, clean),
           NEW r \in Result, NEW st \in Memory, Same(r, st)
    PROVE  Arrives(c, a, PyBody(ss, r, ref),
                CppBody(LowBody(ss, c, low), st, Running(D, below)), st)
<1> DEFINE W == Running(D, below)
           gs == Steps(ss, c, low, W)
           ps == PySteps(ss, ref)
<1>1. /\ gs \in Seq([Memory -> Memory]) /\ Len(gs) = Len(ss)
      /\ ps \in Seq([Result -> Result]) /\ Len(ps) = Len(ss)
  BY BodyStepsTyped
<1>2. \A i \in 1 .. Len(ps) : Follows(c, a, ps[i], gs[i])
  <2> TAKE i \in 1 .. Len(ps)
  <2>1. i \in 1 .. Len(ss) /\ i \in DOMAIN ss
    BY <1>1
  <2>2. ss[i] \in FlowStatement(B) /\ gs[i] = Step(ss[i], c, low, W) /\ ps[i] = PyStep(ss[i], ref)
    BY <2>1, BodyStepsTyped
  <2>3. CleanStmt(ss[i], a, clean)
    BY <2>1
  <2> HIDE DEF gs, ps
  <2> QED  BY <2>2, <2>3, StatementFollows
<1>3. PyBody(ss, r, ref) = Chain(ps, r)
  BY DEF PyBody, PySteps, PyStep
<1>4. CppBody(LowBody(ss, c, low), st, W) = Chain(gs, st)
  BY BodyRuns
<1> HIDE DEF gs, ps, W
<1>5. Arrives(c, a, Chain(ps, r), Chain(gs, st), st)
  BY <1>1, <1>2, ChainsFollow
<1> QED  BY <1>3, <1>4, <1>5 DEF W

(* The next level of bodies.                                                 *)
PyAbove(B, ref) ==
    [ss \in Seq(FlowStatement(B)) |-> [r \in Result |-> PyBody(ss, r, ref)]]

(* what the translator makes of them,                                        *)
LowAbove(B, low) ==
    [ss \in Seq(FlowStatement(B)) |-> [c \in Context |-> LowBody(ss, c, low)]]

(* and which of them are clean.                                              *)
CleanAbove(B, clean) ==
    [ss \in Seq(FlowStatement(B)) |-> [a \in Place |->
        \A i \in DOMAIN ss : CleanStmt(ss[i], a, clean)]]

(* The reference takes results to results one level up as well.              *)
LEMMA PyAboveTyped ==
    ASSUME NEW B, NEW D, NEW below, NEW ref, NEW low, NEW clean,
           Given(B, D, below, ref, low, clean)
    PROVE  /\ PyAbove(B, ref) \in [Seq(FlowStatement(B)) -> [Result -> Result]]
           /\ \A r \in Result : PyAbove(B, ref)[<<>>][r] = r
<1> DEFINE S == Seq(FlowStatement(B))
<1>1. ASSUME NEW ss \in S, NEW r \in Result
      PROVE  PyBody(ss, r, ref) \in Result
  <2>1. PICK c \in Context : TRUE
    <3>1. [finals |-> <<>>, exits |-> <<>>, flag |-> 0, depth |-> 1] \in Context
      BY DEF Context, Straight
    <3> QED  BY <3>1
  <2>2. PySteps(ss, ref) \in Seq([Result -> Result])
    BY BodyStepsTyped
  <2>3. PyBody(ss, r, ref) = Chain(PySteps(ss, ref), r)
    BY DEF PyBody, PySteps, PyStep
  <2> QED  BY <2>2, <2>3, ChainIsTyped
<1>2. ASSUME NEW r \in Result PROVE PyBody(<<>>, r, ref) = r
  <2>1. PyBody(<<>>, r, ref) = Chain(<<>>, r)
    BY DEF PyBody
  <2> QED  BY <2>1, ChainOfNone
<1>3. <<>> \in S
  OBVIOUS
<1> HIDE DEF S
<1>4. PyAbove(B, ref) = [ss \in S |-> [r \in Result |-> PyBody(ss, r, ref)]]
  BY DEF PyAbove, S
<1>5. PyAbove(B, ref) \in [S -> [Result -> Result]]
  BY <1>1, <1>4
<1>6. \A r \in Result : PyAbove(B, ref)[<<>>][r] = r
  BY <1>2, <1>3, <1>4
<1> QED  BY <1>5, <1>6 DEF S

(* What is given of one level of bodies holds of the next.                   *)
LEMMA GivenGrows ==
    ASSUME NEW B, NEW D, NEW below, NEW ref, NEW low, NEW clean,
           Given(B, D, below, ref, low, clean)
    PROVE  Given(Seq(FlowStatement(B)), Blocks(D), Running(D, below),
                 PyAbove(B, ref), LowAbove(B, low), CleanAbove(B, clean))
<1> DEFINE S == Seq(FlowStatement(B))
           E == Blocks(D)
           W == Running(D, below)
           P == PyAbove(B, ref)
           L == LowAbove(B, low)
           C == CleanAbove(B, clean)
           code(ss, c) == LowBody(ss, c, low)
           V == Running(E, W)
<1>1. Grounded(E, W)
  BY RunningIs DEF Given
<1>2. /\ V \in [Blocks(E) -> [Memory -> Memory]]
      /\ \A x \in Blocks(E), st \in Memory : V[x][st] = CppBody(x, st, W)
  <2> HIDE DEF E, W
  <2> QED  BY <1>1, RunningIs
<1>3. P \in [S -> [Result -> Result]] /\ \A r \in Result : P[<<>>][r] = r
  BY PyAboveTyped
<1>4. \A ss \in S, c \in Context : code(ss, c) \in Blocks(E)
  BY BodyRuns
<1>5. \A ss \in S, r \in Result : P[ss][r] = PyBody(ss, r, ref)
  BY DEF PyAbove
<1>6. /\ L \in [S -> [Context -> Blocks(E)]]
      /\ \A ss \in S, c \in Context : L[ss][c] = code(ss, c)
  <2>1. L = [ss \in S |-> [c \in Context |-> code(ss, c)]]
    BY DEF LowAbove
  <2> HIDE DEF L, S, code, E
  <2> QED  BY <1>4, <2>1
<1>7. \A ss \in S, a \in Place : C[ss][a] => \A i \in DOMAIN ss : CleanStmt(ss[i], a, clean)
  BY Zenon DEF CleanAbove
<1>8. C \in [S -> [Place -> BOOLEAN]]
  <2> DEFINE ok(ss, a) == \A i \in DOMAIN ss : CleanStmt(ss[i], a, clean)
  <2>1. C = [ss \in S |-> [a \in Place |-> ok(ss, a)]]
    BY DEF CleanAbove
  <2>2. \A ss, a : ok(ss, a) \in BOOLEAN
    BY Zenon
  <2> HIDE DEF C, S, ok
  <2> QED  BY <2>1, <2>2, Zenon
<1>9. ASSUME NEW ss \in S, NEW c \in Context, NEW a \in Place, Describes(a, c), C[ss][a]
      PROVE  Follows(c, a, P[ss], V[L[ss][c]])
  <2>1. \A i \in DOMAIN ss : CleanStmt(ss[i], a, clean)
    BY <1>7, <1>9
  <2>2. \A r \in Result, st \in Memory : Same(r, st) =>
           Arrives(c, a, PyBody(ss, r, ref), CppBody(code(ss, c), st, W), st)
    BY <1>9, <2>1, BodyFollows
  <2> HIDE DEF S, E, W, P, L, C, code, V
  <2>3. L[ss][c] = code(ss, c) /\ code(ss, c) \in Blocks(E)
    BY <1>4, <1>6
  <2>4. P[ss] \in [Result -> Result] /\ V[L[ss][c]] \in [Memory -> Memory]
    BY <1>2, <1>3, <2>3
  <2>5. \A st \in Memory : V[L[ss][c]][st] = CppBody(code(ss, c), st, W)
    BY <1>2, <2>3
  <2>6. \A r \in Result, st \in Memory : Same(r, st) => Arrives(c, a, P[ss][r], V[L[ss][c]][st], st)
    BY <1>5, <2>2, <2>5
  <2> QED  BY <2>4, <2>6 DEF Follows
<1> HIDE DEF S, E, W, P, L, C, code, V
<1>10. \A ss \in S, c \in Context, a \in Place :
          Describes(a, c) /\ C[ss][a] => Follows(c, a, P[ss], V[L[ss][c]])
  BY <1>9
<1>11. Given(S, E, W, P, L, C)
  BY <1>1, <1>3, <1>6, <1>8, <1>10 DEF Given, V
<1> QED  BY <1>11 DEF S, E, W, P, L, C

(* What is given, at a level of the model.                                   *)
GivenAt(n) ==
    Given(FlowBody[n], Code[n], CppSeq[n], PySeq[n], LowSeq[n], CleanSeq[n])

(* It is, where there is nothing but the empty body,                         *)
LEMMA GivenAtBottom == GivenAt(0)
<1>1. /\ FlowBody[0] = {<<>>} /\ Code[0] = {<<>>}
      /\ PySeq[0] = [ss \in {<<>>} |-> [r \in Result |-> r]]
      /\ LowSeq[0] = [ss \in {<<>>} |-> [c \in Context |-> <<>>]]
      /\ CppSeq[0] = [code \in {<<>>} |-> [st \in Memory |-> st]]
  BY FlowBodyUnfolds, CodeUnfolds, PySeqUnfolds, LowSeqUnfolds, CppSeqUnfolds
<1>2. CleanSeq[0] \in [{<<>>} -> [Place -> BOOLEAN]]
  <2>1. CleanSeq[0] = [ss \in {<<>>} |-> [a \in Place |-> TRUE]]
    BY <1>1, CleanSeqUnfolds
  <2> QED  BY <2>1, Zenon
<1> DEFINE B == FlowBody[0]
           D == Code[0]
           below == CppSeq[0]
           ref == PySeq[0]
           low == LowSeq[0]
           clean == CleanSeq[0]
           V == Running(D, below)
<1>3. <<>> \in Blocks(D)
  BY DEF Blocks
<1> HIDE DEF B, D, below, ref, low, clean, V
<1>4. /\ B = {<<>>} /\ D = {<<>>}
      /\ ref \in [B -> [Result -> Result]] /\ \A r \in Result : ref[<<>>][r] = r
      /\ \A c \in Context : low[<<>>][c] = <<>>
      /\ low \in [B -> [Context -> {<<>>}]]
      /\ below \in [D -> [Memory -> Memory]] /\ \A st \in Memory : below[<<>>][st] = st
  BY <1>1 DEF B, D, below, ref, low
<1>5. Grounded(D, below)
  <2>1. D \subseteq Blocks(D)
    BY <1>3, <1>4
  <2>2. \A code \in D, st \in Memory : below[code][st] = CppBody(code, st, below)
    BY <1>4, CodeOfNone
  <2> QED  BY <1>4, <2>1, <2>2 DEF Grounded
<1>6. V \in [Blocks(D) -> [Memory -> Memory]] /\ \A st \in Memory : V[<<>>][st] = st
  <2>1. V \in [Blocks(D) -> [Memory -> Memory]]
        /\ \A st \in Memory : V[<<>>][st] = CppBody(<<>>, st, below)
    BY <1>3, <1>5, RunningIs DEF V
  <2> QED  BY <2>1, CodeOfNone
<1>7. low \in [B -> [Context -> Blocks(D)]]
  BY <1>3, <1>4
<1>8. ASSUME NEW c \in Context, NEW a \in Place
      PROVE  Follows(c, a, ref[<<>>], V[low[<<>>][c]])
  <2>1. ref[<<>>] \in [Result -> Result] /\ V[<<>>] \in [Memory -> Memory]
    BY <1>3, <1>4, <1>6
  <2>2. \A r \in Result, st \in Memory : Same(r, st) => Arrives(c, a, ref[<<>>][r], V[<<>>][st], st)
    BY <1>4, <1>6, SameEnds
  <2>3. low[<<>>][c] = <<>>
    BY <1>4
  <2> QED  BY <2>1, <2>2, <2>3 DEF Follows
<1>9. \A ss \in B, c \in Context, a \in Place :
         Describes(a, c) /\ clean[ss][a] => Follows(c, a, ref[ss], V[low[ss][c]])
  BY <1>4, <1>8
<1>10. clean \in [B -> [Place -> BOOLEAN]]
  BY <1>1, <1>2 DEF B, clean
<1>11. Given(B, D, below, ref, low, clean)
  BY <1>4, <1>5, <1>7, <1>9, <1>10 DEF Given, V
<1> QED  BY <1>11 DEF GivenAt, B, D, below, ref, low, clean

(* each level of the model is the next one of the level below,               *)
LEMMA LevelAbove ==
    ASSUME NEW n \in 1 .. MaxNest
    PROVE  /\ FlowBody[n] = Seq(FlowStatement(FlowBody[n - 1]))
           /\ Code[n] = Blocks(Code[n - 1])
           /\ CppSeq[n] = Running(Code[n - 1], CppSeq[n - 1])
           /\ PySeq[n] = PyAbove(FlowBody[n - 1], PySeq[n - 1])
           /\ LowSeq[n] = LowAbove(FlowBody[n - 1], LowSeq[n - 1])
           /\ CleanSeq[n] = CleanAbove(FlowBody[n - 1], CleanSeq[n - 1])
<1>1. MaxNest \in Nat /\ n \in 1 .. MaxNest + 1
  BY FlowAssumption
<1>2. FlowBody[n] = Seq(FlowStatement(FlowBody[n - 1]))
  BY FlowBodyUnfolds
<1>3. Code[n] = Blocks(Code[n - 1])
  BY <1>1, CodeUnfolds DEF Blocks
<1>4. CppSeq[n] = Running(Code[n - 1], CppSeq[n - 1])
  BY <1>1, <1>3, CppSeqUnfolds DEF Running
<1>5. PySeq[n] = PyAbove(FlowBody[n - 1], PySeq[n - 1])
  BY <1>2, PySeqUnfolds DEF PyAbove
<1>6. LowSeq[n] = LowAbove(FlowBody[n - 1], LowSeq[n - 1])
  BY <1>2, LowSeqUnfolds DEF LowAbove
<1>7. CleanSeq[n] = CleanAbove(FlowBody[n - 1], CleanSeq[n - 1])
  BY <1>2, CleanSeqUnfolds DEF CleanAbove
<1> QED  BY <1>2, <1>3, <1>4, <1>5, <1>6, <1>7

(* and so it is at every level.                                              *)
LEMMA GivenEverywhere == GivenAt(MaxNest)
<1> DEFINE A == {n \in 0 .. MaxNest : GivenAt(n)}
<1>1. MaxNest \in Nat
  BY FlowAssumption
<1>2. 0 \in A
  BY <1>1, GivenAtBottom
<1>3. ASSUME NEW n \in 1 .. MaxNest, n - 1 \in A PROVE n \in A
  <2>1. Given(FlowBody[n - 1], Code[n - 1], CppSeq[n - 1], PySeq[n - 1], LowSeq[n - 1],
              CleanSeq[n - 1])
    BY <1>3 DEF GivenAt
  <2>2. GivenAt(n)
    BY <2>1, GivenGrows, LevelAbove DEF GivenAt
  <2> QED  BY <1>1, <2>2
<1>4. MaxNest \in A
  <2> HIDE DEF A
  <2>1. MaxNest \in 0 .. MaxNest
    BY <1>1
  <2> QED  BY <1>1, <1>2, <1>3, <2>1, Induction
<1> QED  BY <1>4

(* What the two runs of a program come to.                                   *)
StartMemory == [log |-> <<>>, out |-> "normal", up |-> {}, cur |-> NoExc]

(* Its two runs.                                                             *)
RunsOf(p) ==
    LET st == CppSeq[MaxNest + 1][LowSeq[MaxNest][p][Outermost]][StartMemory]
    IN  [py |-> PySeq[MaxNest][p][Nothing],
         cpp |-> [log |-> st.log, out |-> st.out], done |-> TRUE]

(* The code is the program's, and the runs are those of the two.             *)
FlowInv ==
    /\ prog \in FlowBody[MaxNest]
    /\ emitted = <<>> \/ emitted = LowSeq[MaxNest][prog][Outermost]
    /\ runs = NoRuns \/ runs = RunsOf(prog)

(* A function starts where nothing is around it.                             *)
LEMMA Starts ==
    /\ Outermost \in Context /\ InFunction \in Place /\ Describes(InFunction, Outermost)
    /\ StartMemory \in Memory /\ Nothing \in Result /\ Same(Nothing, StartMemory)
    /\ \A how : Extra(Outermost, how) = <<>>
<1>1. Outermost \in Context /\ InFunction \in Place
  BY DEF Outermost, Context, Straight, NoFlag, InFunction, Place, Jumps
<1>2. Describes(InFunction, Outermost)
  BY DEF Describes, InFunction, Outermost, NoFlag
<1>3. StartMemory \in Memory /\ Nothing \in Result
  BY DEF StartMemory, Memory, Nothing, Result, Outcome
<1>4. Same(Nothing, StartMemory)
  BY DEF Same, StartMemory, Nothing
<1>5. ASSUME NEW how PROVE Extra(Outermost, how) = <<>>
  <2>1. Outermost.finals = <<>> /\ Outermost.exits = <<>>
    BY DEF Outermost
  <2>2. Values(<<>>) = <<>>
    BY DEF Values
  <2>3. <<>> \o <<>> = <<>>
    OBVIOUS
  <2> QED  BY <2>1, <2>2, <2>3 DEF Extra
<1> QED  BY <1>1, <1>2, <1>3, <1>4, <1>5

(* The two runs of a clean program are the same.                             *)
LEMMA CleanIsFaithful ==
    ASSUME NEW p \in FlowBody[MaxNest], CleanSeq[MaxNest][p][InFunction]
    PROVE  RunsOf(p).cpp = RunsOf(p).py
<1> DEFINE B == FlowBody[MaxNest]
           D == Code[MaxNest]
           below == CppSeq[MaxNest]
           ref == PySeq[MaxNest]
           low == LowSeq[MaxNest]
           clean == CleanSeq[MaxNest]
           code == low[p][Outermost]
           V == Running(D, below)
           r == ref[p][Nothing]
           st == CppSeq[MaxNest + 1][code][StartMemory]
<1>1. MaxNest + 1 \in 1 .. MaxNest + 1 /\ (MaxNest + 1) - 1 = MaxNest
  BY FlowAssumption
<1>2. CppSeq[MaxNest + 1] = V
  <2>1. Code[MaxNest + 1] = Blocks(D)
    BY <1>1, CodeUnfolds DEF Blocks
  <2> QED  BY <1>1, <2>1, CppSeqUnfolds DEF Running
<1>3. Given(B, D, below, ref, low, clean)
  BY GivenEverywhere DEF GivenAt
<1>4. clean[p][InFunction]
  OBVIOUS
<1> HIDE DEF B, D, below, ref, low, clean
<1>5. p \in B
  BY DEF B
<1>6. Follows(Outermost, InFunction, ref[p], V[code])
  <2>1. \A ss \in B, c \in Context, a \in Place :
           Describes(a, c) /\ clean[ss][a] => Follows(c, a, ref[ss], V[low[ss][c]])
    BY <1>3 DEF Given
  <2> HIDE DEF V
  <2> QED  BY <1>4, <1>5, <2>1, Starts
<1>7. Arrives(Outermost, InFunction, r, st, StartMemory) /\ r \in Result
  BY <1>2, <1>6, Starts DEF Follows
<1>8. r = [log |-> r.log, out |-> r.out] /\ r.log \in Seq(Entry)
  BY <1>7, ResultIs
<1> HIDE DEF r, st
<1>9. st.log = r.log /\ st.out = r.out
  <2>1. \A how : Extra(Outermost, how) = <<>>
    BY Starts
  <2>2. st.log = r.log \o Extra(Outermost, r.out) /\ st.out = r.out
    BY <1>7 DEF Arrives
  <2> QED  BY <1>8, <2>1, <2>2, Concatenation
<1>10. RunsOf(p).cpp = [log |-> st.log, out |-> st.out] /\ RunsOf(p).py = r
  BY DEF RunsOf, st, r, code, low, ref
<1> QED  BY <1>8, <1>9, <1>10

(* For all exceptions, values and managers, and for programs of any size     *)
(* nested to any depth: where the translation is clean, the emitted C++ logs *)
(* what the Python program logs and ends the way it ends (emit_try,          *)
(* visit_Return, visit_Break, visit_Continue, _loop_with_else,               *)
(* _emit_with_items).                                                        *)
THEOREM FlowIsFaithful == FlowSpec => []FaithfulWhereClean
<1>1. FlowInit(FlowBody[MaxNest]) => FlowInv
  BY DEF FlowInit, FlowInv
<1>2. FlowInv /\ [FlowNext]_flowVars => FlowInv'
  <2> SUFFICES ASSUME FlowInv, [FlowNext]_flowVars PROVE FlowInv'
    OBVIOUS
  <2>1. CASE Lower
    BY <2>1 DEF Lower, FlowInv
  <2>2. CASE Execute
    <3>1. emitted = LowSeq[MaxNest][prog][Outermost]
      BY <2>2 DEF Execute, FlowInv
    <3>2. runs' = RunsOf(prog) /\ prog' = prog /\ emitted' = emitted
      BY <2>2, <3>1 DEF Execute, RunsOf, StartMemory
    <3> QED  BY <3>2 DEF FlowInv
  <2>3. CASE UNCHANGED flowVars
    BY <2>3 DEF FlowInv, flowVars
  <2> QED  BY <2>1, <2>2, <2>3 DEF FlowNext
<1>3. FlowInv => FaithfulWhereClean
  <2> SUFFICES ASSUME FlowInv, runs.done, CleanSeq[MaxNest][prog][InFunction]
               PROVE  runs.cpp = runs.py
    BY Zenon DEF FaithfulWhereClean
  <2>1. ~NoRuns.done
    BY DEF NoRuns
  <2>2. prog \in FlowBody[MaxNest] /\ runs = RunsOf(prog)
    BY <2>1 DEF FlowInv
  <2> QED  BY <2>2, CleanIsFaithful
<1> QED  BY <1>1, <1>2, <1>3, PTL DEF FlowSpec
=============================================================================
