------------------------------ MODULE CommandBus ------------------------------
(***************************************************************************)
(* The command bus of the Zeus editor (developer/command.py) over the      *)
(* object tree of a World (runtime/core/scene.py) and the scene file       *)
(* (runtime/assets/scene_io.py).                                           *)
(*                                                                         *)
(* A scene is the depth-first list of its objects, the root first, as      *)
(* append_hierarchy_names lists it: one row per object with its depth,     *)
(* the settings that differ from a new object's, and its components.  A    *)
(* component is "none", "plain" (every field at its default) or "tuned".   *)
(* A command is a function from a bus to a bus: a refused one returns the  *)
(* bus it was given, which is all that CommandResult.ok says to callers    *)
(* that never read it.                                                     *)
(***************************************************************************)
EXTENDS Naturals, Sequences, FiniteSets

CONSTANTS Setting,     \* "inactive", "hidden", "moved": the settings told apart
          Kind,        \* the kinds of component told apart
          Name,        \* the names objects may have
          NoName,      \* the empty string
          RootName,    \* "world_root"
          Files,       \* the scenes that lie in files
          MaxRows,     \* bound: objects of a scene, the root included
          MaxTouched   \* bound: settings and components of a scene together

ASSUME NameAssumption == NoName \notin Name /\ RootName \in Name

Level == {"none", "plain", "tuned"}
State == {"stopped", "playing", "paused"}

Row == [name : Name, depth : Nat, set : SUBSET Setting, comps : [Kind -> Level]]

VARIABLE bus   \* [scene, selected, state]: the world, the selected name, the play state

vars == bus

\* The rows are the depth-first list of one tree.
IsTree(s) ==
    /\ s \in Seq(Row) /\ s # <<>>
    /\ s[1].depth = 0
    /\ \A i \in 2 .. Len(s) : 1 <= s[i].depth /\ s[i].depth <= s[i - 1].depth + 1

\* A file or a text that scene_from_json can read: one tree, whose objects may share names,
\* since _load_game_object compares none and calls every nameless object "GameObject".
ASSUME FilesAssumption == \A f \in Files : IsTree(f)

NewRow(n, d) ==
    [name |-> n, depth |-> d, set |-> {}, comps |-> [k \in Kind |-> "none"]]

-----------------------------------------------------------------------------
(* The object tree *)

\* The rows that carry a name.
Named(s, n) == {i \in DOMAIN s : s[i].name = n}

\* The names that several objects share: find reaches the first of them only.
Repeats(s) == {n \in Name : \E i, j \in Named(s, n) : i # j}

\* _find: the root first, then breadth-first: the least depth, the leftmost of it.
Found(s, n) ==
    CHOOSE i \in Named(s, n) :
        \A j \in Named(s, n) :
            s[i].depth < s[j].depth \/ (s[i].depth = s[j].depth /\ i <= j)

Has(s, n) == Named(s, n) # {}

\* The row after the last descendant of row i.
After(s, i) ==
    CHOOSE k \in i + 1 .. Len(s) + 1 :
        /\ \A j \in i + 1 .. k - 1 : s[j].depth > s[i].depth
        /\ k <= Len(s) => s[k].depth <= s[i].depth

\* attach: the child becomes the last of its parent's children.
Attached(s, i, n) ==
    LET k == After(s, i)
    IN  [j \in 1 .. Len(s) + 1 |->
            IF j < k THEN s[j] ELSE IF j = k THEN NewRow(n, s[i].depth + 1) ELSE s[j - 1]]

\* detach: the object leaves with everything below it.
Detached(s, i) ==
    LET gone == After(s, i) - i
    IN  [j \in 1 .. Len(s) - gone |-> IF j < i THEN s[j] ELSE s[j + gone]]

WithName(s, i, n) == [s EXCEPT ![i].name = n]
WithSetting(s, i, f, on) ==
    [s EXCEPT ![i].set = IF on THEN @ \union {f} ELSE @ \ {f}]
WithComponent(s, i, k, level) == [s EXCEPT ![i].comps[k] = level]

-----------------------------------------------------------------------------
(* The scene file *)

\* _dump_component writes constants for a camera and a pad and "cube" for a mesh.
Dumped(k, level) ==
    IF level = "tuned" /\ k # "JumpMotor" THEN "plain" ELSE level

\* _load_component builds every mesh that is not an .fbx as a unit cube.
Loaded(k, level) ==
    IF level = "tuned" /\ k = "MeshComponent" THEN "plain" ELSE level

ToFile(s)   == [i \in DOMAIN s |-> [s[i] EXCEPT !.comps = [k \in Kind |-> Dumped(k, @[k])]]]
FromFile(f) == [i \in DOMAIN f |-> [f[i] EXCEPT !.comps = [k \in Kind |-> Loaded(k, @[k])]]]

-----------------------------------------------------------------------------
(* The commands *)

(* Wrong variants, here and before Rename: mistakes the code could have made *)
(* that the properties of this module tell from the real definitions.        *)

\* dispatch refuses writes to a paused world in place of a playing one.
WritableUnlessPaused(b) == b.state # "paused"

\* dispatch refuses every scene write while the world plays.
Writable(b) == b.state # "playing"

Create(b, n, parent) ==
    LET at == IF parent = NoName THEN 1 ELSE Found(b.scene, parent)
    IN  IF /\ Writable(b)
           /\ n # NoName
           /\ ~Has(b.scene, n)
           /\ parent # NoName => Has(b.scene, parent)
        THEN [b EXCEPT !.scene = Attached(b.scene, at, n)]
        ELSE b

Delete(b, n) ==
    IF Writable(b) /\ n # b.scene[1].name /\ Has(b.scene, n)
    THEN [b EXCEPT !.scene = Detached(b.scene, Found(b.scene, n)),
                   !.selected = IF @ = n THEN NoName ELSE @]
    ELSE b

\* A wrong variant of Rename: the new name may be another object's.
RenameOver(b, n, m) ==
    IF Writable(b) /\ m # NoName /\ Has(b.scene, n)
    THEN [b EXCEPT !.scene = WithName(b.scene, Found(b.scene, n), m),
                   !.selected = IF @ = n THEN m ELSE @]
    ELSE b

\* A wrong variant of Rename: the selection keeps the old name.
RenameAlone(b, n, m) ==
    IF Writable(b) /\ m # NoName /\ ~Has(b.scene, m) /\ Has(b.scene, n)
    THEN [b EXCEPT !.scene = WithName(b.scene, Found(b.scene, n), m)]
    ELSE b

Rename(b, n, m) ==
    IF Writable(b) /\ m # NoName /\ ~Has(b.scene, m) /\ Has(b.scene, n)
    THEN [b EXCEPT !.scene = WithName(b.scene, Found(b.scene, n), m),
                   !.selected = IF @ = n THEN m ELSE @]
    ELSE b

\* ObjectSetActive, ObjectSetVisible, ObjectSetPosition
Set(b, n, f, on) ==
    IF Writable(b) /\ Has(b.scene, n)
    THEN [b EXCEPT !.scene = WithSetting(b.scene, Found(b.scene, n), f, on)]
    ELSE b

\* The three one after another, as the inspector's Apply sends them.
SetAll(b, n, settings) ==
    IF Writable(b) /\ Has(b.scene, n)
    THEN [b EXCEPT !.scene[Found(b.scene, n)].set = settings]
    ELSE b

LevelOf(b, n, k) ==
    IF Has(b.scene, n) THEN b.scene[Found(b.scene, n)].comps[k] ELSE "none"

\* ObjectAddMesh and ObjectAddCamera: one of each kind.
AddComponent(b, n, k, level) ==
    IF Writable(b) /\ Has(b.scene, n) /\ LevelOf(b, n, k) = "none"
    THEN [b EXCEPT !.scene = WithComponent(b.scene, Found(b.scene, n), k, level)]
    ELSE b

RemoveComponent(b, n, k) ==
    IF Writable(b) /\ LevelOf(b, n, k) # "none"
    THEN [b EXCEPT !.scene = WithComponent(b.scene, Found(b.scene, n), k, "none")]
    ELSE b

\* ComponentSetFloat: only the jump motor has fields to set.
SetFloat(b, n, k, level) ==
    IF Writable(b) /\ LevelOf(b, n, k) # "none" /\ k = "JumpMotor"
    THEN [b EXCEPT !.scene = WithComponent(b.scene, Found(b.scene, n), k, level)]
    ELSE b

Play(b)  == [b EXCEPT !.state = "playing"]
Pause(b) == [b EXCEPT !.state = "paused"]
Stop(b)  == [b EXCEPT !.state = "stopped"]

\* PlayStep plays on when its frames are done.
StepFrames(b) == IF b.state # "playing" THEN Play(b) ELSE b

Select(b, n) == IF n = NoName \/ Has(b.scene, n) THEN [b EXCEPT !.selected = n] ELSE b

\* SceneLoad and SceneFromJson: allowed in every play state, and it keeps that state.
Load(b, f) == [b EXCEPT !.scene = FromFile(f), !.selected = NoName]

-----------------------------------------------------------------------------
NewBus == [scene |-> <<NewRow(RootName, 0)>>, selected |-> NoName, state |-> "stopped"]

Init == bus = NewBus

\* The bound of the model: how much a scene may hold.
Touched(s) ==
    UNION {{<<i, f>> : f \in s[i].set} \union
           {<<i, k>> : k \in {x \in Kind : s[i].comps[x] # "none"}} : i \in DOMAIN s}

Fits(b) == Len(b.scene) <= MaxRows /\ Cardinality(Touched(b.scene)) <= MaxTouched

\* One client's command reaches the bus.
Becomes(b) == Fits(b) /\ bus' = b

ObjectCreate == \E n \in Name, p \in Name \union {NoName} : Becomes(Create(bus, n, p))
ObjectDelete == \E n \in Name : Becomes(Delete(bus, n))
ObjectRename == \E n, m \in Name : Becomes(Rename(bus, n, m))
ObjectSet == \E n \in Name, f \in Setting, on \in BOOLEAN : Becomes(Set(bus, n, f, on))
\* ObjectAddMesh takes a size, ObjectAddCamera nothing.
ObjectAdd ==
    \E n \in Name, k \in Kind \ {"JumpMotor", "PlatformPad"}, level \in {"plain", "tuned"} :
        /\ k = "CameraComponent" => level = "plain"
        /\ Becomes(AddComponent(bus, n, k, level))
ObjectRemoveComponent == \E n \in Name, k \in Kind : Becomes(RemoveComponent(bus, n, k))
ComponentSetFloat ==
    \E n \in Name, k \in Kind, level \in Level \ {"none"} : Becomes(SetFloat(bus, n, k, level))
PlayStart == Becomes(Play(bus))
PlayPause == Becomes(Pause(bus))
PlayStop == Becomes(Stop(bus))
PlayStep == Becomes(StepFrames(bus))
EditorSelect == \E n \in Name \union {NoName} : Becomes(Select(bus, n))

\* A load reads a file of old, or the one SceneSave just wrote from this very scene.
SceneLoad == \E f \in Files \union {ToFile(bus.scene)} : Becomes(Load(bus, f))

Next ==
    \/ ObjectCreate \/ ObjectDelete \/ ObjectRename \/ ObjectSet
    \/ ObjectAdd \/ ObjectRemoveComponent \/ ComponentSetFloat
    \/ PlayStart \/ PlayPause \/ PlayStop \/ PlayStep
    \/ EditorSelect \/ SceneLoad

Spec == Init /\ [][Next]_vars

-----------------------------------------------------------------------------
\* The type invariant: the scene is the depth-first list of one tree.
TypeOK ==
    /\ IsTree(bus.scene)
    /\ bus.selected \in Name \union {NoName}
    /\ bus.state \in State

\* Commands address objects by name and find takes the first match: whatever the clients
\* and the panels create, rename, delete, save and load again, no two objects come to share
\* a name that none shared before (ObjectCreate, ObjectRename).  The exception is a load of
\* a file or a text that repeats a name itself, which scene_from_json takes as it is.
NamesAreRepeatedOnlyByFiles ==
    [][\/ Repeats(bus'.scene) \subseteq Repeats(bus.scene)
       \/ \E f \in Files : bus' = Load(bus, f) /\ Repeats(bus'.scene) \subseteq Repeats(f)]_vars

\* The object n lies below an object that is deleted: its row goes with the ancestor's.
LostBelow(n) ==
    \E m \in Name \ {n} :
        /\ Has(bus.scene, m) /\ Has(bus.scene, n)
        /\ Found(bus.scene, m) < Found(bus.scene, n)
        /\ Found(bus.scene, n) < After(bus.scene, Found(bus.scene, m))
        /\ bus' = Delete(bus, m)

\* A selection that names an object goes on naming one through renames, deletions and
\* loads; the one way to leave it dangling is to delete an ancestor of the selected
\* object (ObjectDelete clears the selection only when the names are equal).
SelectionIsLostOnlyWithAnAncestor ==
    [][\/ bus.selected # NoName /\ ~Has(bus.scene, bus.selected)
       \/ bus'.selected = NoName \/ Has(bus'.scene, bus'.selected)
       \/ LostBelow(bus.selected)]_vars

\* While the world plays its scene is only ever replaced as a whole, by a load
\* (_is_play_write), however the editor's panels compose their commands.
PlayingProtectsTheScene ==
    [][bus.state = "playing" =>
          bus'.scene = bus.scene \/ SceneLoad]_vars
=============================================================================
